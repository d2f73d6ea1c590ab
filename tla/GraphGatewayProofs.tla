--------------------------- MODULE GraphGatewayProofs ---------------------------
(***************************************************************************)
(* Proofs about GraphGateway, for any number of threads, any log length    *)
(* and any set of faults.                                                  *)
(***************************************************************************)
EXTENDS GraphGateway, TLAPS

IInv == TypeOK /\ MarkerTruthful /\ CheckpointsExact /\ ApplyInv

(***************************************************************************)
(* Constants and the shapes of the records the steps build.                *)
(***************************************************************************)
LEMMA IdleIsAState == Idle \in State
  BY DEF Idle, State, PC, Goal, Outcome, NoExpectation

(***************************************************************************)
(* A thread's call has a size, and the size is positive.                   *)
(***************************************************************************)
LEMMA SizeOfCall ==
  ASSUME TypeOK, NEW w \in Thread, thread[w].call # {}
  PROVE  CallOf(w).size \in Nat \ {0}
<1>1. CallOf(w) \in thread[w].call
  BY DEF CallOf
<1>2. thread[w].call \subseteq Call
  BY DEF TypeOK, State
<1> QED
  BY <1>1, <1>2 DEF Call

(***************************************************************************)
(* A step of t under the lock leaves what every other thread may rely on.  *)
(***************************************************************************)
LEMMA OthersKeep ==
  ASSUME IInv, NEW t \in Thread, lock = t, head \in Nat, head' \in Nat, marker' \in Nat,
         head <= head', marker <= marker',
         \A o \in Thread \ {t} : thread'[o] = thread[o]
  PROVE  \A o \in Thread \ {t} : OwnState(o)' /\ UnderLock(o)'
<1> SUFFICES ASSUME NEW o \in Thread, o # t
             PROVE  OwnState(o)' /\ UnderLock(o)'
  OBVIOUS
<1>1. OwnState(o) /\ UnderLock(o)
  BY DEF IInv, ApplyInv
<1>2. thread[o].pc \notin Holding
  BY <1>1 DEF UnderLock
<1>3. thread'[o] = thread[o]
  OBVIOUS
<1>4. thread[o].last \in Nat /\ marker \in Nat
  BY DEF IInv, TypeOK, State
<1>5. OwnState(o)'
  <2>1. thread[o].last <= head /\ (thread[o].outcome = "applied" => thread[o].last <= marker)
    BY <1>1 DEF OwnState
  <2>2. thread[o].last <= head' /\ (thread[o].outcome = "applied" => thread[o].last <= marker')
    BY <2>1, <1>4
  <2> QED
    BY <1>1, <1>3, <2>2 DEF OwnState
<1>6. UnderLock(o)'
  BY <1>2, <1>3 DEF UnderLock
<1> QED
  BY <1>5, <1>6

(***************************************************************************)
(* A call that returns keeps the invariant: its thread is idle again, the  *)
(* lock is free, and `applied` is only said of a group the marker covers.  *)
(***************************************************************************)
LEMMA ReturnKeeps ==
  ASSUME IInv, NEW t \in Thread, NEW outcome \in Outcome, Return(t, outcome),
         thread[t].pc \in Holding,
         head' \in Nat, inDoubt' \in Nat, marker' \in Nat, content' \in Content,
         blocked' \in BOOLEAN, registered' \in BOOLEAN,
         checkpoints' \subseteq [position : Nat, digest : Content],
         head <= head', marker <= marker',
         outcome = "applied" => thread[t].last <= marker
  PROVE  TypeOK' /\ ApplyInv'
<1>1. lock = t
  BY DEF IInv, ApplyInv, UnderLock
<1>2. thread[t] \in State /\ thread \in [Thread -> State] /\ head \in Nat /\ marker \in Nat
  BY DEF IInv, TypeOK
<1>a. OwnState(t)
  BY DEF IInv, ApplyInv
<1> DEFINE x == [Idle EXCEPT !.pc = IF t = Reconciler /\ LeavesPendingSet(outcome) THEN "discard" ELSE "idle",
                    !.expected = IF thread[t].first = 0 THEN NoExpectation ELSE thread[t].expected,
                    !.first = thread[t].first, !.last = thread[t].last, !.outcome = outcome]
<1>3. thread' = [thread EXCEPT ![t] = x] /\ lock' = NoThread
  BY DEF Return
<1>4. /\ x \in State
      /\ x.pc \in {"idle", "discard"}
      /\ x.pc = "discard" => t = Reconciler
      /\ t \in Writer => x.pc = "idle"
      /\ x.goal = "none" /\ x.last = thread[t].last /\ x.outcome = outcome
  BY ZenonT(60), <1>2, IdleIsAState, ThreadAssumption DEF Idle, State, PC, NoExpectation
<1> HIDE DEF x
<1>5. thread' \in [Thread -> State] /\ thread'[t] = x
  BY <1>2, <1>3, <1>4
<1>6. TypeOK'
  BY <1>3, <1>5 DEF TypeOK
<1>7. OwnState(t)'
  <2>1. thread[t].last <= head /\ thread[t].last \in Nat
    BY <1>a, <1>2 DEF OwnState, State
  <2>2. x.last <= head' /\ (x.outcome = "applied" => x.last <= marker')
    BY <1>2, <1>4, <2>1
  <2> QED
    BY <1>4, <1>5, <2>2 DEF OwnState
<1>8. UnderLock(t)'
  BY <1>4, <1>5 DEF UnderLock, Holding
<1>9. \A o \in Thread \ {t} : OwnState(o)' /\ UnderLock(o)'
  <2>1. \A o \in Thread \ {t} : thread'[o] = thread[o]
    BY <1>2, <1>3
  <2> QED
    BY <1>1, <1>2, <2>1, OthersKeep
<1> QED
  BY <1>6, <1>7, <1>8, <1>9 DEF ApplyInv

(***************************************************************************)
(* A step of t that keeps the lock keeps the invariant if t's own part     *)
(* holds afterwards.                                                       *)
(***************************************************************************)
LEMMA StayKeeps ==
  ASSUME IInv, NEW t \in Thread, thread[t].pc \in Holding, NEW y \in State,
         thread' = [thread EXCEPT ![t] = y], lock' = lock,
         head' \in Nat, inDoubt' \in Nat, marker' \in Nat, content' \in Content,
         blocked' \in BOOLEAN, registered' \in BOOLEAN,
         checkpoints' \subseteq [position : Nat, digest : Content],
         head <= head', marker <= marker',
         OwnState(t)', UnderLock(t)'
  PROVE  TypeOK' /\ ApplyInv'
<1>1. lock = t
  BY DEF IInv, ApplyInv, UnderLock
<1>2. thread \in [Thread -> State] /\ head \in Nat /\ lock \in Thread \cup {NoThread}
  BY DEF IInv, TypeOK
<1>3. TypeOK'
  BY <1>2 DEF TypeOK
<1>4. \A o \in Thread \ {t} : thread'[o] = thread[o]
  BY <1>2
<1>5. \A o \in Thread \ {t} : OwnState(o)' /\ UnderLock(o)'
  BY <1>1, <1>2, <1>4, OthersKeep
<1> QED
  BY <1>3, <1>5 DEF ApplyInv

(***************************************************************************)
(* A step of a thread that does not hold the lock, before and after.       *)
(***************************************************************************)
LEMMA OutsideKeeps ==
  ASSUME IInv, NEW t \in Thread, NEW y \in State, y.pc \notin Holding,
         thread' = [thread EXCEPT ![t] = y], registered' \in BOOLEAN,
         UNCHANGED <<logVars, content, lock, blocked>>,
         OwnState(t)'
  PROVE  IInv'
<1>1. thread \in [Thread -> State]
  BY DEF IInv, TypeOK
<1>2. TypeOK'
  BY <1>1 DEF IInv, TypeOK, logVars
<1>3. MarkerTruthful' /\ CheckpointsExact'
  BY DEF IInv, MarkerTruthful, CheckpointsExact, logVars
<1>4. UnderLock(t)'
  BY <1>1 DEF UnderLock
<1>5. ASSUME NEW o \in Thread \ {t}
      PROVE  OwnState(o)' /\ UnderLock(o)'
  <2>1. thread'[o] = thread[o]
    BY <1>1
  <2>2. OwnState(o) /\ UnderLock(o)
    BY DEF IInv, ApplyInv
  <2>3. OwnState(o)'
    BY <2>1, <2>2 DEF OwnState, logVars
  <2>4. UnderLock(o)'
    BY <2>1, <2>2 DEF UnderLock, logVars
  <2> QED
    BY <2>3, <2>4
<1> QED
  BY <1>2, <1>3, <1>4, <1>5 DEF IInv, ApplyInv

(***************************************************************************)
(* What a thread that holds the lock may use.                              *)
(***************************************************************************)
LEMMA Holder ==
  ASSUME IInv, NEW t \in Thread, thread[t].pc \in Holding
  PROVE  /\ lock = t
         /\ thread \in [Thread -> State]
         /\ thread[t] \in State
         /\ head \in Nat /\ inDoubt \in Nat /\ marker \in Nat /\ content \in Content
         /\ blocked \in BOOLEAN /\ registered \in BOOLEAN
         /\ checkpoints \subseteq [position : Nat, digest : Content]
         /\ thread[t].last \in Nat /\ thread[t].next \in Nat
         /\ thread[t].upto \in Nat /\ thread[t].run \in Nat
         /\ OwnState(t) /\ UnderLock(t)
<1>1. thread[t] \in State /\ OwnState(t) /\ UnderLock(t)
  BY DEF IInv, TypeOK, ApplyInv
<1> QED
  BY <1>1 DEF IInv, TypeOK, State, UnderLock

LEMMA LogicalPart ==
  ASSUME IInv, head' \in Nat, head <= head', UNCHANGED <<marker, content, checkpoints>>
  PROVE  MarkerTruthful' /\ CheckpointsExact'
<1>1. content.reach \in Nat /\ head \in Nat /\ content.reach <= head
  BY DEF IInv, TypeOK, Content, MarkerTruthful
<1>2. content.reach <= head'
  BY <1>1
<1> QED
  BY <1>2 DEF IInv, MarkerTruthful, CheckpointsExact

(***************************************************************************)
(* One lemma per action: it preserves the invariant.                       *)
(***************************************************************************)
LEMMA SubmitKeeps ==
  ASSUME IInv, NEW w \in Writer, NEW c \in Call, NEW e \in {NoExpectation, head}, Submit(w, c, e)
  PROVE  IInv'
<1> DEFINE y == [Idle EXCEPT !.pc = "lock", !.call = {c}, !.expected = e]
<1>1. head \in Nat /\ thread \in [Thread -> State] /\ marker \in Nat /\ registered \in BOOLEAN
  BY DEF IInv, TypeOK
<1>2. w \in Thread
  BY DEF Thread
<1>3. y \in State /\ y.pc \notin Holding
  BY <1>1, IdleIsAState DEF Idle, State, PC, NoExpectation, Holding
<1>4. thread' = [thread EXCEPT ![w] = y]
  BY DEF Submit
<1>5. OwnState(w)'
  <2>1. thread'[w] = y
    BY <1>1, <1>2, <1>4
  <2>2. y.last = 0 /\ y.outcome = "none" /\ y.pc = "lock" /\ y.goal = "none" /\ y.call = {c}
    BY DEF Idle
  <2>3. head' = head
    BY DEF Submit, logVars
  <2> QED
    BY <1>1, <2>1, <2>2, <2>3 DEF OwnState
<1> HIDE DEF y
<1> QED
  BY <1>1, <1>2, <1>3, <1>4, <1>5, OutsideKeeps DEF Submit, processVars

LEMMA StartKeeps ==
  ASSUME IInv, NEW t \in Thread, t \notin Writer,
         thread' = [thread EXCEPT ![t] = [Idle EXCEPT !.pc = "lock"]],
         UNCHANGED <<logVars, content, lock, processVars>>
  PROVE  IInv'
<1> DEFINE y == [Idle EXCEPT !.pc = "lock"]
<1>1. head \in Nat /\ thread \in [Thread -> State] /\ registered \in BOOLEAN
  BY DEF IInv, TypeOK
<1>3. y \in State /\ y.pc \notin Holding
  BY <1>1, IdleIsAState DEF Idle, State, PC, NoExpectation, Holding
<1>5. OwnState(t)'
  <2>1. thread'[t] = y
    BY <1>1
  <2>2. y.last = 0 /\ y.outcome = "none" /\ y.pc = "lock" /\ y.goal = "none"
    BY DEF Idle
  <2>3. head' = head
    BY DEF logVars
  <2> QED
    BY <1>1, <2>1, <2>2, <2>3 DEF OwnState
<1>6. thread' = [thread EXCEPT ![t] = y]
  OBVIOUS
<1> HIDE DEF y
<1> QED
  BY <1>1, <1>3, <1>5, <1>6, OutsideKeeps DEF processVars

LEMMA CatchUpKeeps ==
  ASSUME IInv, NEW o \in Operator, CatchUp(o)
  PROVE  IInv'
<1>1. o \in Thread /\ o \notin Writer
  BY ThreadAssumption DEF Thread
<1> QED
  BY <1>1, StartKeeps DEF CatchUp

LEMMA ReconcileKeeps ==
  ASSUME IInv, Reconcile
  PROVE  IInv'
<1>1. Reconciler \in Thread /\ Reconciler \notin Writer
  BY ThreadAssumption DEF Thread
<1> QED
  BY <1>1, StartKeeps DEF Reconcile

LEMMA DiscardKeeps ==
  ASSUME IInv, Discard
  PROVE  IInv'
<1> DEFINE y == [thread[Reconciler] EXCEPT !.pc = "idle"]
<1>1. Reconciler \in Thread /\ Reconciler \notin Writer
  BY ThreadAssumption DEF Thread
<1>2. thread \in [Thread -> State] /\ thread[Reconciler] \in State /\ OwnState(Reconciler)
  BY <1>1 DEF IInv, TypeOK, ApplyInv
<1>3. y \in State /\ y.pc \notin Holding /\ y.pc = "idle"
  BY <1>2 DEF State, PC, Holding
<1>4. thread' = [thread EXCEPT ![Reconciler] = y]
  BY <1>2 DEF Discard, Move
<1>5. OwnState(Reconciler)'
  <2>1. thread'[Reconciler] = y
    BY <1>1, <1>2, <1>4
  <2>2. y.goal # "commit"
    BY <1>2 DEF OwnState, Discard, At, State
  <2>3. /\ y.last = thread[Reconciler].last
        /\ y.outcome = thread[Reconciler].outcome
        /\ head' = head /\ marker' = marker
    BY <1>2 DEF State, Discard, logVars
  <2> QED
    BY <1>1, <1>2, <1>3, <2>1, <2>2, <2>3 DEF OwnState
<1> HIDE DEF y
<1> QED
  BY <1>1, <1>3, <1>4, <1>5, OutsideKeeps DEF Discard

LEMMA DecideKeeps ==
  ASSUME IInv, NEW commits \in BOOLEAN, Decide(commits)
  PROVE  IInv'
<1>1. head \in Nat /\ inDoubt \in Nat
  BY DEF IInv, TypeOK
<1>2. head' \in Nat /\ head <= head' /\ inDoubt' = 0 /\ inDoubt # 0
  BY <1>1 DEF Decide, Decided
<1>3. TypeOK'
  BY <1>2 DEF IInv, TypeOK, Decide, processVars
<1>4. MarkerTruthful' /\ CheckpointsExact'
  BY <1>2, LogicalPart DEF Decide
<1>5. ASSUME NEW t \in Thread
      PROVE  OwnState(t)' /\ UnderLock(t)'
  <2>1. OwnState(t) /\ UnderLock(t) /\ thread[t] \in State
    BY DEF IInv, TypeOK, ApplyInv
  <2>2. thread' = thread /\ marker' = marker /\ lock' = lock /\ content' = content
    BY DEF Decide
  <2>3. thread[t].last \in Nat /\ thread[t].upto \in Nat
    BY <2>1 DEF State
  <2>4. thread[t].last <= head => thread[t].last <= head'
    BY <1>1, <1>2, <2>3
  <2>5. thread[t].upto <= head => thread[t].upto <= head'
    BY <1>1, <1>2, <2>3
  <2>6. OwnState(t)'
    BY <2>1, <2>2, <2>4 DEF OwnState
  <2>7. thread[t].pc \in Holding => thread[t].goal # "commit" /\ thread[t].pc \notin {"staged", "checkpoint"}
    BY <1>2, <2>1 DEF UnderLock
  <2>8. UnderLock(t)'
    BY <2>1, <2>2, <2>5, <2>7 DEF UnderLock
  <2> QED
    BY <2>6, <2>8
<1> QED
  BY <1>3, <1>4, <1>5 DEF IInv, ApplyInv

LEMMA CrashKeeps ==
  ASSUME IInv, Crash
  PROVE  IInv'
<1>1. thread \in [Thread -> State] /\ head \in Nat /\ marker \in Nat
  BY DEF IInv, TypeOK
<1>2. thread' = [t \in Thread |-> IF At(t, "idle") THEN thread[t] ELSE Idle]
  BY DEF Crash
<1>3. thread' \in [Thread -> State]
  BY <1>1, <1>2, IdleIsAState
<1>4. TypeOK'
  BY <1>3 DEF IInv, TypeOK, Crash, logVars
<1>5. MarkerTruthful' /\ CheckpointsExact'
  BY DEF IInv, MarkerTruthful, CheckpointsExact, Crash, logVars
<1>6. ASSUME NEW t \in Thread
      PROVE  OwnState(t)' /\ UnderLock(t)'
  <2>1. thread'[t] = IF thread[t].pc = "idle" THEN thread[t] ELSE Idle
    BY <1>2 DEF At
  <2>2. OwnState(t) /\ head' = head /\ marker' = marker
    BY DEF IInv, ApplyInv, Crash, logVars
  <2>3. thread'[t].pc = "idle"
    BY <2>1 DEF Idle
  <2>4. UnderLock(t)'
    BY <2>3 DEF UnderLock, Holding
  <2>5. OwnState(t)'
    <3>1. CASE thread[t].pc = "idle"
      BY <2>1, <2>2, <3>1 DEF OwnState
    <3>2. CASE thread[t].pc # "idle"
      <4>1. /\ thread'[t].last = 0 /\ thread'[t].outcome = "none" /\ thread'[t].goal = "none"
        BY <2>1, <3>2 DEF Idle
      <4>2. thread'[t].last <= head'
        BY <1>1, <2>2, <4>1
      <4> QED
        BY <2>3, <4>1, <4>2 DEF OwnState
    <3> QED
      BY <3>1, <3>2
  <2> QED
    BY <2>4, <2>5
<1> QED
  BY <1>4, <1>5, <1>6 DEF IInv, ApplyInv

(***************************************************************************)
(* Steps of the lock's holder that leave the log and FalkorDB alone: the   *)
(* call ends, or it goes on as y.                                          *)
(***************************************************************************)
LEMMA ReturnUnchanged ==
  ASSUME IInv, NEW t \in Thread, NEW outcome \in Outcome, Return(t, outcome),
         thread[t].pc \in Holding, outcome # "applied",
         UNCHANGED <<logVars, content>>, blocked' \in BOOLEAN, registered' \in BOOLEAN
  PROVE  IInv'
<1>1. /\ head \in Nat /\ inDoubt \in Nat /\ marker \in Nat /\ content \in Content
      /\ checkpoints \subseteq [position : Nat, digest : Content]
  BY Holder
<1>2. head' = head /\ inDoubt' = inDoubt /\ marker' = marker /\ checkpoints' = checkpoints
      /\ content' = content
  BY DEF logVars
<1>3. head <= head' /\ marker <= marker'
  BY <1>1, <1>2
<1>4. TypeOK' /\ ApplyInv'
  BY <1>1, <1>2, <1>3, ReturnKeeps
<1> QED
  BY <1>1, <1>2, <1>3, <1>4, LogicalPart DEF IInv

LEMMA StayUnchanged ==
  ASSUME IInv, NEW t \in Thread, thread[t].pc \in Holding, NEW y \in State,
         thread' = [thread EXCEPT ![t] = y], lock' = lock,
         UNCHANGED <<logVars, content>>, blocked' \in BOOLEAN, registered' \in BOOLEAN,
         OwnState(t)', UnderLock(t)'
  PROVE  IInv'
<1>1. /\ head \in Nat /\ inDoubt \in Nat /\ marker \in Nat /\ content \in Content
      /\ checkpoints \subseteq [position : Nat, digest : Content]
  BY Holder
<1>2. head' = head /\ inDoubt' = inDoubt /\ marker' = marker /\ checkpoints' = checkpoints
      /\ content' = content
  BY DEF logVars
<1>3. head <= head' /\ marker <= marker'
  BY <1>1, <1>2
<1>4. TypeOK' /\ ApplyInv'
  BY <1>1, <1>2, <1>3, StayKeeps
<1> QED
  BY <1>1, <1>2, <1>3, <1>4, LogicalPart DEF IInv

(***************************************************************************)
(* A pass begins: from the lock for catch_up, from the lag check for a     *)
(* write.                                                                  *)
(***************************************************************************)
LEMMA StartPassState ==
  ASSUME IInv, NEW t \in Thread, NEW goal \in {"write", "catch up"}, StartPass(t, goal),
         thread[t].outcome = "none", (t \in Writer => thread[t].call # {}), head' = head,
         marker' = marker
  PROVE  \E y \in State : /\ thread' = [thread EXCEPT ![t] = y]
                          /\ y.pc = "pass" /\ y.goal = goal
                          /\ OwnState(t)'
<1> DEFINE y == [thread[t] EXCEPT !.pc = "pass", !.goal = goal, !.tries = 1]
<1>1. thread[t] \in State /\ thread \in [Thread -> State] /\ OwnState(t)
  BY DEF IInv, TypeOK, ApplyInv
<1>2. y \in State /\ y.pc = "pass" /\ y.goal = goal /\ y.last = thread[t].last
      /\ y.outcome = "none" /\ y.call = thread[t].call
  BY <1>1 DEF State, PC, Goal
<1>3. thread' = [thread EXCEPT ![t] = y]
  BY <1>1 DEF StartPass, State
<1>4. thread'[t] = y
  BY <1>1, <1>3
<1> HIDE DEF y
<1>5. OwnState(t)'
  BY <1>1, <1>2, <1>4 DEF OwnState
<1> QED
  BY <1>2, <1>3, <1>5

LEMMA AcquireKeeps ==
  ASSUME IInv, NEW t \in Thread, Acquire(t)
  PROVE  IInv'
<1>1. thread \in [Thread -> State] /\ thread[t] \in State /\ OwnState(t) /\ thread[t].pc = "lock"
  BY DEF IInv, TypeOK, ApplyInv, Acquire, At
<1>2. head' = head /\ marker' = marker /\ lock' = t
  BY DEF Acquire, logVars
<1>3. thread[t].outcome = "none" /\ thread[t].goal # "commit"
      /\ (t \in Writer => thread[t].call # {})
  BY <1>1 DEF OwnState
<1>4. PICK y \in State : /\ thread' = [thread EXCEPT ![t] = y]
                         /\ y.pc \in {"stage", "pass"} /\ y.goal # "commit"
                         /\ OwnState(t)'
  <2>1. CASE t \in Writer
    <3> DEFINE y == [thread[t] EXCEPT !.pc = "stage"]
    <3>1. thread' = [thread EXCEPT ![t] = y]
      BY <1>1, <2>1 DEF Acquire, Move, State
    <3>2. y \in State /\ y.pc = "stage" /\ y.goal = thread[t].goal /\ y.last = thread[t].last
          /\ y.outcome = "none" /\ y.call = thread[t].call
      BY <1>1, <1>3 DEF State, PC
    <3>3. thread'[t] = y
      BY <1>1, <3>1
    <3> HIDE DEF y
    <3>4. OwnState(t)'
      BY <1>1, <1>2, <1>3, <3>2, <3>3 DEF OwnState
    <3> QED
      BY <1>3, <3>1, <3>2, <3>4
  <2>2. CASE t \notin Writer
    <3>1. StartPass(t, "catch up")
      BY <2>2 DEF Acquire
    <3> QED
      BY <1>2, <1>3, <3>1, StartPassState
  <2> QED
    BY <2>1, <2>2
<1>5. thread'[t] = y
  BY <1>1, <1>4
<1>6. UnderLock(t)'
  BY <1>2, <1>4, <1>5 DEF UnderLock
<1>7. TypeOK'
  BY <1>1, <1>2, <1>4 DEF IInv, TypeOK, Acquire, logVars, processVars
<1>8. ASSUME NEW o \in Thread \ {t}
      PROVE  OwnState(o)' /\ UnderLock(o)'
  <2>1. thread'[o] = thread[o]
    BY <1>1, <1>4
  <2>2. OwnState(o) /\ UnderLock(o)
    BY DEF IInv, ApplyInv
  <2>3. thread[o].pc \notin Holding
    BY <2>2, ThreadAssumption DEF UnderLock, Acquire, LockIsFree
  <2>4. OwnState(o)'
    BY <1>2, <2>1, <2>2 DEF OwnState
  <2>5. UnderLock(o)'
    BY <2>1, <2>3 DEF UnderLock
  <2> QED
    BY <2>4, <2>5
<1>9. MarkerTruthful' /\ CheckpointsExact'
  BY DEF IInv, MarkerTruthful, CheckpointsExact, Acquire, logVars
<1> QED
  BY <1>4, <1>6, <1>7, <1>8, <1>9 DEF IInv, ApplyInv

(***************************************************************************)
(* A thread that only moves on to another program point.                   *)
(***************************************************************************)
LEMMA MoveState ==
  ASSUME IInv, NEW t \in Thread, NEW pc \in PC, thread[t].pc \in Holding, Move(t, pc)
  PROVE  \E y \in State : /\ thread' = [thread EXCEPT ![t] = y]
                          /\ thread'[t] = y
                          /\ y.pc = pc
                          /\ y.goal = thread[t].goal /\ y.last = thread[t].last
                          /\ y.outcome = thread[t].outcome /\ y.call = thread[t].call
                          /\ y.first = thread[t].first /\ y.expected = thread[t].expected
<1> DEFINE y == [thread[t] EXCEPT !.pc = pc]
<1>1. thread[t] \in State /\ thread \in [Thread -> State]
  BY DEF IInv, TypeOK
<1>2. thread' = [thread EXCEPT ![t] = y] /\ y \in State
  BY <1>1 DEF Move, State
<1> QED
  BY <1>1, <1>2 DEF State

LEMMA MoveKeeps ==
  ASSUME IInv, NEW t \in Thread, NEW pc \in {"checks", "append", "staged", "pass"},
         thread[t].pc \in Holding, thread[t].pc # "complete" => thread[t].goal # "commit",
         pc = "staged" => inDoubt = 0,
         pc = "pass" <=> thread[t].pc = "complete",
         Move(t, pc), UNCHANGED <<logVars, content, lock, processVars>>
  PROVE  IInv'
<1>1. OwnState(t) /\ UnderLock(t) /\ blocked \in BOOLEAN /\ registered \in BOOLEAN
  BY Holder
<1>2. pc \in PC
  BY DEF PC
<1>3. PICK y \in State : /\ thread' = [thread EXCEPT ![t] = y]
                         /\ thread'[t] = y
                         /\ y.pc = pc
                         /\ y.goal = thread[t].goal /\ y.last = thread[t].last
                         /\ y.outcome = thread[t].outcome /\ y.call = thread[t].call
  BY <1>2, MoveState
<1>4. OwnState(t)'
  BY <1>1, <1>3 DEF OwnState, logVars, Holding
<1>5. UnderLock(t)'
  BY <1>1, <1>3 DEF UnderLock, OwnState, logVars
<1> QED
  BY <1>1, <1>3, <1>4, <1>5, StayUnchanged DEF processVars

LEMMA StageKeeps ==
  ASSUME IInv, NEW w \in Writer, Stage(w)
  PROVE  IInv'
<1>1. w \in Thread /\ thread[w].pc = "stage" /\ "stage" \in Holding
  BY DEF Thread, Stage, At, Holding, PC
<1>2. OwnState(w) /\ UnderLock(w) /\ blocked \in BOOLEAN /\ registered \in BOOLEAN
  BY <1>1, Holder
<1>3. thread[w].goal # "commit" /\ thread[w].outcome = "none" /\ thread[w].call # {}
  BY <1>1, <1>2 DEF OwnState
<1>4. UNCHANGED <<logVars, content, processVars>>
  BY DEF Stage
<1>5. CASE Return(w, "blocked") \/ Return(w, "unavailable")
  BY <1>1, <1>2, <1>4, <1>5, ReturnUnchanged DEF Outcome, processVars
<1>6. CASE StartPass(w, "write") /\ UNCHANGED lock
  <2>1. PICK y \in State : /\ thread' = [thread EXCEPT ![w] = y]
                           /\ y.pc = "pass" /\ y.goal = "write"
                           /\ OwnState(w)'
    BY <1>1, <1>3, <1>4, <1>6, StartPassState DEF logVars
  <2>2. thread'[w] = y
    BY <1>1, <2>1 DEF IInv, TypeOK
  <2>3. UnderLock(w)'
    BY <1>1, <1>2, <1>6, <2>1, <2>2 DEF UnderLock
  <2> QED
    BY <1>1, <1>2, <1>4, <1>6, <2>1, <2>3, StayUnchanged DEF processVars
<1>7. CASE Move(w, "checks") /\ UNCHANGED lock
  BY <1>1, <1>3, <1>4, <1>7, MoveKeeps
<1> QED
  BY <1>5, <1>6, <1>7 DEF Stage

LEMMA ChecksKeeps ==
  ASSUME IInv, NEW w \in Writer, Checks(w)
  PROVE  IInv'
<1>1. w \in Thread /\ thread[w].pc = "checks" /\ "checks" \in Holding
  BY DEF Thread, Checks, At, Holding, PC
<1>2. OwnState(w) /\ blocked \in BOOLEAN /\ registered \in BOOLEAN
  BY <1>1, Holder
<1>3. thread[w].goal # "commit"
  BY <1>1, <1>2 DEF OwnState
<1>4. UNCHANGED <<logVars, content, processVars>>
  BY DEF Checks
<1>5. CASE \E outcome \in {"rejected", "unavailable", "apply error", "unchanged"} : Return(w, outcome)
  BY <1>1, <1>2, <1>4, <1>5, ReturnUnchanged DEF Outcome, processVars
<1>6. CASE Move(w, "append") /\ UNCHANGED lock
  BY <1>1, <1>3, <1>4, <1>6, MoveKeeps
<1> QED
  BY <1>5, <1>6 DEF Checks

(***************************************************************************)
(* The log grows by the group of w, or the connection dies with the commit *)
(* undecided.                                                              *)
(***************************************************************************)
LEMMA LoggedKeeps ==
  ASSUME IInv, NEW w \in Writer, NEW pc \in {"pass", "complete"}, thread[w].pc \in Holding,
         thread[w].outcome = "none", thread[w].call # {}, inDoubt = 0, Logged(w, pc),
         UNCHANGED <<marker, content, checkpoints, processVars>>
  PROVE  IInv'
<1> DEFINE n == CallOf(w).size
           y == [thread[w] EXCEPT !.pc = pc, !.first = head + 1, !.last = head + n,
                                  !.goal = "commit", !.tries = 1]
<1>1. w \in Thread
  BY DEF Thread
<1>2. /\ lock = w /\ thread \in [Thread -> State] /\ thread[w] \in State
      /\ head \in Nat /\ inDoubt \in Nat /\ marker \in Nat /\ content \in Content
      /\ blocked \in BOOLEAN /\ registered \in BOOLEAN
      /\ checkpoints \subseteq [position : Nat, digest : Content]
  BY <1>1, Holder
<1>3. n \in Nat \ {0}
  BY <1>1, SizeOfCall DEF IInv
<1>4. head' = head + n /\ inDoubt' = inDoubt /\ lock' = lock
  BY DEF Logged
<1>5. head' \in Nat /\ head <= head'
  BY <1>2, <1>3, <1>4
<1>6. thread' = [thread EXCEPT ![w] = y]
  BY <1>2 DEF Logged, State
<1>a. head + 1 \in Nat /\ head + n \in Nat
  BY <1>2, <1>3
<1> HIDE DEF n
<1>7. /\ y \in State /\ y.pc = pc /\ y.goal = "commit" /\ y.last = head' /\ y.outcome = "none"
      /\ y.call = thread[w].call
  <2>1. \A i, j \in Nat : [thread[w] EXCEPT !.pc = pc, !.first = i, !.last = j,
                                           !.goal = "commit", !.tries = 1] \in State
    BY ZenonT(60), <1>2 DEF State, PC, Goal
  <2>2. y \in State
    BY <1>a, <2>1
  <2>3. /\ y.pc = pc /\ y.goal = "commit" /\ y.last = head + n
        /\ y.outcome = thread[w].outcome /\ y.call = thread[w].call
    BY <1>2 DEF State
  <2> QED
    BY <1>4, <2>2, <2>3
<1>8. thread'[w] = y
  BY <1>1, <1>2, <1>6
<1> HIDE DEF y
<1>9. OwnState(w)'
  <2>1. y.last <= head'
    BY <1>5, <1>7
  <2> QED
    BY <1>7, <1>8, <2>1 DEF OwnState
<1>10. UnderLock(w)'
  BY <1>2, <1>4, <1>7, <1>8 DEF UnderLock
<1>11. TypeOK' /\ ApplyInv'
  <2>1. marker' = marker /\ content' = content /\ checkpoints' = checkpoints
        /\ blocked' = blocked /\ registered' = registered
    BY DEF processVars
  <2>2. marker <= marker'
    BY <1>2, <2>1
  <2> QED
    BY <1>1, <1>2, <1>4, <1>5, <1>6, <1>7, <1>9, <1>10, <2>1, <2>2, StayKeeps
<1> QED
  BY <1>5, <1>11, LogicalPart DEF IInv

LEMMA InDoubtKeeps ==
  ASSUME IInv, NEW w \in Writer, NEW outcome \in Outcome, thread[w].pc \in Holding,
         thread[w].call # {}, outcome # "applied", InDoubt(w, outcome),
         UNCHANGED <<marker, content, checkpoints, processVars>>
  PROVE  IInv'
<1>1. w \in Thread
  BY DEF Thread
<1>2. /\ head \in Nat /\ marker \in Nat /\ content \in Content
      /\ blocked \in BOOLEAN /\ registered \in BOOLEAN
      /\ checkpoints \subseteq [position : Nat, digest : Content]
  BY <1>1, Holder
<1>3. inDoubt' \in Nat
  BY <1>1, SizeOfCall DEF IInv, InDoubt
<1>4. head' = head /\ marker' = marker /\ content' = content /\ checkpoints' = checkpoints
      /\ blocked' = blocked /\ registered' = registered
  BY DEF InDoubt, processVars
<1>5. head <= head' /\ marker <= marker'
  BY <1>2, <1>4
<1>6. TypeOK' /\ ApplyInv'
  BY <1>1, <1>2, <1>3, <1>4, <1>5, ReturnKeeps DEF InDoubt
<1> QED
  BY <1>2, <1>4, <1>5, <1>6, LogicalPart DEF IInv

LEMMA AppendKeeps ==
  ASSUME IInv, NEW w \in Writer, Append(w)
  PROVE  IInv'
<1>1. w \in Thread /\ thread[w].pc = "append" /\ "append" \in Holding
  BY DEF Thread, Append, At, Holding, PC
<1>2. OwnState(w) /\ blocked \in BOOLEAN /\ registered \in BOOLEAN
  BY <1>1, Holder
<1>3. thread[w].goal # "commit" /\ thread[w].outcome = "none" /\ thread[w].call # {}
  BY <1>1, <1>2 DEF OwnState
<1>4. UNCHANGED <<marker, content, checkpoints, processVars>> /\ inDoubt = 0
  BY DEF Append
<1>5. CASE /\ \E outcome \in {"unavailable", "persistence error"} : Return(w, outcome)
           /\ UNCHANGED <<head, inDoubt>>
  BY <1>1, <1>2, <1>4, <1>5, ReturnUnchanged DEF Outcome, processVars, logVars
<1>6. CASE Logged(w, "pass")
  BY <1>1, <1>3, <1>4, <1>6, LoggedKeeps
<1>7. CASE InDoubt(w, "persistence error")
  BY <1>1, <1>3, <1>4, <1>7, InDoubtKeeps DEF Outcome
<1>8. CASE Move(w, "staged") /\ UNCHANGED <<head, inDoubt, lock>>
  BY <1>1, <1>3, <1>4, <1>8, MoveKeeps DEF logVars
<1> QED
  BY <1>5, <1>6, <1>7, <1>8 DEF Append

LEMMA CallerEndsKeeps ==
  ASSUME IInv, NEW w \in Writer, CallerEnds(w)
  PROVE  IInv'
<1>1. w \in Thread /\ thread[w].pc = "staged" /\ "staged" \in Holding
  BY DEF Thread, CallerEnds, At, Holding, PC
<1>2. OwnState(w) /\ UnderLock(w) /\ blocked \in BOOLEAN /\ registered \in BOOLEAN
  BY <1>1, Holder
<1>3. thread[w].outcome = "none" /\ thread[w].call # {} /\ inDoubt = 0
  BY <1>1, <1>2 DEF OwnState, UnderLock
<1>4. UNCHANGED <<marker, content, checkpoints, processVars>>
  BY DEF CallerEnds
<1>5. CASE Logged(w, "complete")
  BY <1>1, <1>3, <1>4, <1>5, LoggedKeeps
<1>6. CASE InDoubt(w, "rolled back")
  BY <1>1, <1>3, <1>4, <1>6, InDoubtKeeps DEF Outcome
<1>7. CASE Return(w, "rolled back") /\ UNCHANGED <<head, inDoubt>>
  BY <1>1, <1>2, <1>4, <1>7, ReturnUnchanged DEF Outcome, processVars, logVars
<1> QED
  BY <1>5, <1>6, <1>7 DEF CallerEnds

LEMMA CompleteKeeps ==
  ASSUME IInv, NEW w \in Writer, Complete(w)
  PROVE  IInv'
<1>1. w \in Thread /\ thread[w].pc = "complete" /\ "complete" \in Holding
  BY DEF Thread, Complete, At, Holding, PC
<1>2. blocked \in BOOLEAN /\ registered \in BOOLEAN
  BY <1>1, Holder
<1>3. UNCHANGED <<logVars, content, processVars>>
  BY DEF Complete
<1>4. CASE Return(w, "raised")
  BY <1>1, <1>2, <1>3, <1>4, ReturnUnchanged DEF Outcome, processVars
<1>5. CASE Move(w, "pass") /\ UNCHANGED lock
  BY <1>1, <1>3, <1>5, MoveKeeps
<1> QED
  BY <1>4, <1>5 DEF Complete

(***************************************************************************)
(* _apply_pending.  A try that fails starts over or gives up; either way   *)
(* the log, the marker and the checkpoints are left alone.                 *)
(***************************************************************************)
LEMMA LeaveState ==
  ASSUME IInv, NEW t \in Thread, NEW pc \in PC, thread[t].pc \in Holding, Leave(t, pc)
  PROVE  \E y \in State : /\ thread' = [thread EXCEPT ![t] = y]
                          /\ thread'[t] = y
                          /\ y.pc = pc /\ y.goal = "none" /\ y.last = thread[t].last
                          /\ y.outcome = thread[t].outcome /\ y.call = thread[t].call
<1> DEFINE y == [thread[t] EXCEPT !.pc = pc, !.goal = "none", !.next = 0, !.upto = 0,
                                  !.run = 0, !.tries = 0]
<1>1. thread[t] \in State /\ thread \in [Thread -> State]
  BY DEF IInv, TypeOK
<1>2. thread' = [thread EXCEPT ![t] = y] /\ y \in State
  BY <1>1 DEF Leave, State, Goal
<1> QED
  BY <1>1, <1>2 DEF State

InPass(t) == thread[t].pc \in {"pass", "run", "mark"}

LEMMA RetryState ==
  ASSUME IInv, NEW t \in Thread, InPass(t),
         thread' = [thread EXCEPT ![t].pc = "pass",
                                  ![t].tries = IF @ < MaxAttempts THEN @ + 1 ELSE @]
  PROVE  \E y \in State : /\ thread' = [thread EXCEPT ![t] = y]
                          /\ thread'[t] = y
                          /\ y.pc = "pass" /\ y.goal = thread[t].goal /\ y.last = thread[t].last
                          /\ y.outcome = thread[t].outcome /\ y.call = thread[t].call
<1>1. thread[t] \in State /\ thread \in [Thread -> State] /\ thread[t].tries \in Nat
  BY DEF IInv, TypeOK, State
<1> DEFINE tries == IF thread[t].tries < MaxAttempts THEN thread[t].tries + 1 ELSE thread[t].tries
           y == [thread[t] EXCEPT !.pc = "pass", !.tries = tries]
<1>2. tries \in Nat
  BY <1>1
<1>3. thread' = [thread EXCEPT ![t] = y]
  BY <1>1 DEF State
<1> HIDE DEF tries
<1>4. y \in State
  BY <1>1, <1>2 DEF State, PC
<1> QED
  BY <1>1, <1>3, <1>4 DEF State

LEMMA RetryKeeps ==
  ASSUME IInv, NEW t \in Thread, NEW why,
         InPass(t), Retry(t, why),
         head' = head, inDoubt' = inDoubt, marker' = marker, checkpoints' = checkpoints,
         blocked' = blocked, content' \in Content
  PROVE  TypeOK' /\ ApplyInv'
<1>1. thread[t].pc \in Holding
  BY DEF Holding, PC, InPass
<1>2. /\ lock = t /\ thread \in [Thread -> State] /\ thread[t] \in State
      /\ head \in Nat /\ inDoubt \in Nat /\ marker \in Nat /\ content \in Content
      /\ blocked \in BOOLEAN /\ registered \in BOOLEAN
      /\ checkpoints \subseteq [position : Nat, digest : Content]
      /\ OwnState(t) /\ UnderLock(t)
  BY <1>1, Holder
<1>3. /\ head' = head /\ inDoubt' = inDoubt /\ marker' = marker /\ checkpoints' = checkpoints
      /\ blocked' = blocked
  OBVIOUS
<1>4. head <= head' /\ marker <= marker'
  <2>1. head \in Nat /\ marker \in Nat
    BY <1>2
  <2>2. head' = head /\ marker' = marker
    BY <1>3
  <2> QED
    BY <2>1, <2>2
<1>5. thread[t].outcome = "none" /\ thread[t].goal \in {"write", "commit", "catch up"}
      /\ (t \in Writer => thread[t].call # {})
  BY <1>2 DEF OwnState, InPass
<1>6. registered' \in BOOLEAN
  BY <1>2 DEF Retry, GiveUp, Registers
<1>7. CASE \E y \in State : /\ thread' = [thread EXCEPT ![t] = y]
                            /\ thread'[t] = y
                            /\ y.pc = "pass" /\ y.goal = thread[t].goal /\ y.last = thread[t].last
                            /\ y.outcome = thread[t].outcome /\ y.call = thread[t].call
                            /\ lock' = lock
  <2>1. PICK y \in State : /\ thread' = [thread EXCEPT ![t] = y]
                           /\ thread'[t] = y
                           /\ y.pc = "pass" /\ y.goal = thread[t].goal /\ y.last = thread[t].last
                           /\ y.outcome = thread[t].outcome /\ y.call = thread[t].call
                           /\ lock' = lock
    BY <1>7
  <2>2. OwnState(t)'
    BY <1>2, <1>3, <1>5, <2>1 DEF OwnState
  <2>3. UnderLock(t)'
    BY <1>1, <1>2, <1>3, <2>1 DEF UnderLock
  <2> QED
    BY <1>1, <1>2, <1>3, <1>4, <1>6, <2>1, <2>2, <2>3, StayKeeps
<1>8. CASE \E y \in State : /\ thread' = [thread EXCEPT ![t] = y]
                            /\ thread'[t] = y
                            /\ y.pc = "standing" /\ y.goal = "none" /\ y.last = thread[t].last
                            /\ y.outcome = thread[t].outcome /\ y.call = thread[t].call
                            /\ lock' = lock
  <2>1. PICK y \in State : /\ thread' = [thread EXCEPT ![t] = y]
                           /\ thread'[t] = y
                           /\ y.pc = "standing" /\ y.goal = "none" /\ y.last = thread[t].last
                           /\ y.outcome = thread[t].outcome /\ y.call = thread[t].call
                           /\ lock' = lock
    BY <1>8
  <2>2. OwnState(t)'
    BY <1>2, <1>3, <1>5, <2>1 DEF OwnState
  <2>3. UnderLock(t)'
    BY <1>1, <1>2, <1>3, <2>1 DEF UnderLock
  <2> QED
    BY <1>1, <1>2, <1>3, <1>4, <1>6, <2>1, <2>2, <2>3, StayKeeps
<1>9. CASE \E outcome \in {"pending", "unavailable"} : Return(t, outcome)
  BY <1>1, <1>2, <1>3, <1>4, <1>6, <1>9, ReturnKeeps DEF Outcome
<1>10. CASE MayRetry(t)
  <2>1. lock' = lock /\ thread' = [thread EXCEPT ![t].pc = "pass",
                                    ![t].tries = IF @ < MaxAttempts THEN @ + 1 ELSE @]
    BY <1>10 DEF Retry
  <2> QED
    BY ZenonT(60), <1>7, <2>1, RetryState
<1>11. CASE GiveUp(t, why)
  <2>1. CASE thread[t].goal = "catch up" /\ why = "graph down"
    <3>1. Leave(t, "standing")
      BY <1>11, <2>1 DEF GiveUp
    <3>2. lock' = lock /\ "standing" \in PC
      BY <3>1 DEF Leave, PC
    <3>3. PICK y \in State : /\ thread' = [thread EXCEPT ![t] = y]
                             /\ thread'[t] = y
                             /\ y.pc = "standing" /\ y.goal = "none"
                             /\ y.last = thread[t].last
                             /\ y.outcome = thread[t].outcome /\ y.call = thread[t].call
      BY <1>1, <3>1, <3>2, LeaveState
    <3> QED
      BY <1>8, <3>2, <3>3
  <2>2. CASE ~(thread[t].goal = "catch up" /\ why = "graph down")
    BY <1>9, <1>11, <2>2 DEF GiveUp
  <2> QED
    BY <2>1, <2>2
<1> QED
  BY <1>10, <1>11 DEF Retry

LEMMA PassKeeps ==
  ASSUME IInv, NEW t \in Thread, Pass(t)
  PROVE  IInv'
<1>1. thread[t].pc = "pass" /\ InPass(t) /\ thread[t].pc \in Holding
  BY DEF Pass, At, InPass, Holding, PC
<1>2. /\ lock = t /\ thread \in [Thread -> State] /\ thread[t] \in State
      /\ head \in Nat /\ marker \in Nat /\ content \in Content
      /\ blocked \in BOOLEAN /\ registered \in BOOLEAN
      /\ OwnState(t) /\ UnderLock(t)
  BY <1>1, Holder
<1>3. /\ head' = head /\ inDoubt' = inDoubt /\ marker' = marker /\ checkpoints' = checkpoints
      /\ content' = content /\ blocked' = blocked
  BY DEF Pass, logVars
<1>4. MarkerTruthful' /\ CheckpointsExact'
  BY <1>3 DEF IInv, MarkerTruthful, CheckpointsExact
<1>5. CASE /\ thread' = [thread EXCEPT ![t].pc = "run", ![t].next = marker + 1,
                                       ![t].upto = PassEnd(t), ![t].run = 0]
           /\ UNCHANGED <<lock, registered>>
  <2> DEFINE y == [thread[t] EXCEPT !.pc = "run", !.next = marker + 1, !.upto = head, !.run = 0]
  <2>1. \A i, j \in Nat : [thread[t] EXCEPT !.pc = "run", !.next = i, !.upto = j, !.run = 0] \in State
    BY <1>2 DEF State, PC
  <2>2. marker + 1 \in Nat
    BY <1>2
  <2>3. y \in State
    BY <1>2, <2>1, <2>2
  <2>4. thread' = [thread EXCEPT ![t] = y]
    BY <1>2, <1>5 DEF State, PassEnd
  <2>5. /\ y.pc = "run" /\ y.next = marker + 1 /\ y.upto = head /\ y.goal = thread[t].goal
        /\ y.last = thread[t].last /\ y.outcome = thread[t].outcome /\ y.call = thread[t].call
    BY <1>2 DEF State
  <2>6. thread'[t] = y
    BY <1>2, <2>4
  <2> HIDE DEF y
  <2>7. OwnState(t)'
    BY <1>1, <1>2, <1>3, <2>5, <2>6 DEF OwnState
  <2>8. UnderLock(t)'
    <3>1. y.upto <= head'
      BY <1>2, <1>3, <2>5
    <3>2. y.goal = "commit" => inDoubt' = 0 /\ y.last = head' /\ y.upto = y.last
      BY <1>1, <1>2, <1>3, <2>5 DEF UnderLock
    <3> QED
      BY <1>1, <1>2, <1>3, <1>5, <2>5, <2>6, <3>1, <3>2 DEF UnderLock
  <2> QED
    BY <1>1, <1>2, <1>5, <2>3, <2>4, <2>7, <2>8, StayUnchanged DEF Pass
<1>6. CASE Retry(t, "log down")
  BY <1>1, <1>2, <1>3, <1>4, <1>6, RetryKeeps DEF IInv
<1> QED
  BY <1>5, <1>6 DEF Pass

(***************************************************************************)
(* A run a..b that starts right above the marker neither skews the content *)
(* nor takes it past the log, whether it succeeds or fails halfway.        *)
(***************************************************************************)
LEMMA RunIsInTurn ==
  ASSUME TypeOK, MarkerTruthful, NEW a, a = marker + 1, NEW b \in Nat, a <= b, b <= head,
         NEW low \in Nat, marker <= low, low <= b,
         content' = Applied(content, a, b, low), head' = head, marker' = marker
  PROVE  content' \in Content /\ content'.low = low /\ MarkerTruthful'
<1>1. /\ content \in Content /\ head \in Nat /\ marker \in Nat
      /\ content.low \in Nat /\ content.reach \in Nat /\ content.skewed \in BOOLEAN
  BY DEF TypeOK, Content
<1>2. /\ content.skewed = FALSE /\ marker <= content.low
      /\ content.low <= content.reach /\ content.reach <= head
  BY <1>1 DEF MarkerTruthful
<1> DEFINE reach == IF b > content.reach THEN b ELSE content.reach
           skewed == content.skewed \/ content.low < a - 1
<1>3. reach \in Nat /\ b <= reach /\ reach <= head
  BY <1>1, <1>2
<1>4. ~(content.low < a - 1)
  BY <1>1, <1>2
<1>5. skewed = FALSE
  BY <1>2, <1>4
<1>6. content' = [low |-> low, reach |-> reach, skewed |-> skewed]
  BY DEF Applied
<1>7. low <= reach
  BY <1>1, <1>3
<1> HIDE DEF reach, skewed
<1>8. content'.low = low /\ content'.reach = reach /\ content'.skewed = FALSE
  BY <1>5, <1>6
<1>9. content' \in Content
  <2>1. \A i, j \in Nat, k \in BOOLEAN : [low |-> i, reach |-> j, skewed |-> k] \in Content
    BY DEF Content
  <2> QED
    BY <1>3, <1>5, <1>6, <2>1
<1>10. marker' <= content'.low /\ content'.low <= content'.reach /\ content'.reach <= head'
  BY <1>3, <1>7, <1>8
<1> QED
  BY <1>8, <1>9, <1>10 DEF MarkerTruthful

LEMMA RunAppliedKeeps ==
  ASSUME IInv, NEW t \in Thread, thread[t].pc = "run",
         NEW b \in thread[t].next..thread[t].upto, RunApplied(t, b)
  PROVE  IInv'
<1>1. InPass(t) /\ thread[t].pc \in Holding
  BY DEF InPass, Holding, PC
<1>2. /\ lock = t /\ thread \in [Thread -> State] /\ thread[t] \in State
      /\ head \in Nat /\ inDoubt \in Nat /\ marker \in Nat
      /\ checkpoints \subseteq [position : Nat, digest : Content]
      /\ blocked \in BOOLEAN /\ registered \in BOOLEAN
      /\ thread[t].next \in Nat /\ thread[t].upto \in Nat
      /\ OwnState(t) /\ UnderLock(t)
  BY <1>1, Holder
<1>3. /\ head' = head /\ inDoubt' = inDoubt /\ marker' = marker /\ checkpoints' = checkpoints
      /\ lock' = lock /\ blocked' = blocked /\ registered' = registered
  BY DEF RunApplied, logVars, processVars
<1>4. thread[t].next = marker + 1 /\ thread[t].upto <= head
  BY <1>1, <1>2 DEF UnderLock
<1>5. b \in Nat /\ thread[t].next <= b /\ b <= thread[t].upto /\ b <= head /\ marker <= b
  BY <1>2, <1>4
<1>6. content' \in Content /\ content'.low = b /\ MarkerTruthful'
  <2>1. content' = Applied(content, thread[t].next, b, b)
    BY DEF RunApplied
  <2>2. b <= b
    BY <1>5
  <2> QED
    BY <1>3, <1>4, <1>5, <2>1, <2>2, RunIsInTurn DEF IInv
<1>7. CheckpointsExact'
  BY <1>3 DEF IInv, CheckpointsExact
<1> DEFINE y == [thread[t] EXCEPT !.pc = "mark", !.run = b]
<1>8. thread' = [thread EXCEPT ![t] = y]
  BY <1>2 DEF RunApplied, State
<1>9. y \in State
  BY <1>2, <1>5 DEF State, PC
<1>10. /\ y.pc = "mark" /\ y.run = b /\ y.next = thread[t].next /\ y.upto = thread[t].upto
       /\ y.goal = thread[t].goal /\ y.last = thread[t].last /\ y.outcome = thread[t].outcome
       /\ y.call = thread[t].call
  BY <1>2 DEF State
<1>11. thread'[t] = y
  BY <1>2, <1>8
<1> HIDE DEF y
<1>12. OwnState(t)'
  BY <1>1, <1>2, <1>3, <1>10, <1>11 DEF OwnState
<1>13. UnderLock(t)'
  <2>1. b <= content'.low
    BY <1>5, <1>6
  <2>2. lock' = t /\ (y.goal = "commit" => inDoubt' = 0 /\ y.last = head' /\ y.upto = y.last)
    BY <1>1, <1>2, <1>3, <1>10 DEF UnderLock
  <2>3. y.next = marker' + 1 /\ y.upto <= head' /\ y.next <= y.run /\ y.run <= y.upto
    BY <1>3, <1>4, <1>5, <1>10
  <2> QED
    BY <1>10, <1>11, <2>1, <2>2, <2>3 DEF UnderLock
<1>14. TypeOK' /\ ApplyInv'
  <2>1. head <= head' /\ marker <= marker'
    BY <1>2, <1>3
  <2> QED
    BY <1>1, <1>2, <1>3, <1>6, <1>8, <1>9, <1>12, <1>13, <2>1, StayKeeps
<1> QED
  BY <1>6, <1>7, <1>14 DEF IInv

LEMMA RunFailedKeeps ==
  ASSUME IInv, NEW t \in Thread, thread[t].pc = "run",
         NEW b \in thread[t].next..thread[t].upto, RunFailed(t, b)
  PROVE  IInv'
<1>1. InPass(t) /\ thread[t].pc \in Holding
  BY DEF InPass, Holding, PC
<1>2. /\ head \in Nat /\ inDoubt \in Nat /\ marker \in Nat /\ content \in Content
      /\ checkpoints \subseteq [position : Nat, digest : Content]
      /\ blocked \in BOOLEAN /\ registered \in BOOLEAN
      /\ thread[t].next \in Nat /\ thread[t].upto \in Nat
      /\ UnderLock(t)
  BY <1>1, Holder
<1>3. head' = head /\ inDoubt' = inDoubt /\ marker' = marker /\ checkpoints' = checkpoints
  BY DEF RunFailed, logVars
<1>4. thread[t].next = marker + 1 /\ thread[t].upto <= head
  BY <1>1, <1>2 DEF UnderLock
<1>5. b \in Nat /\ thread[t].next <= b /\ b <= head /\ marker <= b
  BY <1>2, <1>4
<1>6. content' \in Content /\ MarkerTruthful'
  <2>1. CASE content' = content
    BY <1>2, <1>3, <2>1 DEF IInv, MarkerTruthful
  <2>2. CASE content' = Applied(content, thread[t].next, b, thread[t].next - 1)
    <3>1. thread[t].next - 1 \in Nat /\ marker <= thread[t].next - 1 /\ thread[t].next - 1 <= b
      BY <1>2, <1>4, <1>5
    <3> QED
      BY <1>3, <1>4, <1>5, <2>2, <3>1, RunIsInTurn DEF IInv
  <2> QED
    BY <2>1, <2>2 DEF RunFailed
<1>7. CheckpointsExact'
  BY <1>3 DEF IInv, CheckpointsExact
<1>8. head <= head' /\ marker <= marker'
  BY <1>2, <1>3
<1>9. CASE Retry(t, "graph down") /\ UNCHANGED blocked
  <2>1. TypeOK' /\ ApplyInv'
    BY <1>1, <1>3, <1>6, <1>9, RetryKeeps
  <2> QED
    BY <1>6, <1>7, <2>1 DEF IInv
<1>10. CASE blocked' = TRUE /\ Return(t, "apply error") /\ UNCHANGED registered
  <2>1. TypeOK' /\ ApplyInv'
    BY <1>1, <1>2, <1>3, <1>6, <1>8, <1>10, ReturnKeeps DEF Outcome
  <2> QED
    BY <1>6, <1>7, <2>1 DEF IInv
<1> QED
  BY <1>9, <1>10 DEF RunFailed

LEMMA NothingLeftKeeps ==
  ASSUME IInv, NEW t \in Thread, thread[t].pc = "run", NothingLeft(t)
  PROVE  IInv'
<1>1. InPass(t) /\ thread[t].pc \in Holding
  BY DEF InPass, Holding, PC
<1>2. /\ lock = t /\ thread \in [Thread -> State] /\ thread[t] \in State
      /\ head \in Nat /\ inDoubt \in Nat /\ marker \in Nat /\ content \in Content
      /\ checkpoints \subseteq [position : Nat, digest : Content]
      /\ registered \in BOOLEAN
      /\ thread[t].upto \in Nat /\ thread[t].last \in Nat
      /\ OwnState(t) /\ UnderLock(t)
  BY <1>1, Holder
<1>3. /\ head' = head /\ inDoubt' = inDoubt /\ marker' = marker /\ checkpoints' = checkpoints
      /\ content' = content /\ blocked' \in BOOLEAN /\ registered' = registered
  BY DEF NothingLeft, logVars
<1>4. /\ thread[t].outcome = "none" /\ (t \in Writer => thread[t].call # {})
      /\ thread[t].goal \in {"write", "commit", "catch up"}
  BY <1>1, <1>2 DEF OwnState, InPass
<1>5. ASSUME thread[t].goal = "commit"
      PROVE  inDoubt = 0 /\ thread[t].last = head /\ marker = head
  <2>1. /\ inDoubt = 0 /\ thread[t].last = head /\ thread[t].upto = thread[t].last
        /\ thread[t].next = marker + 1
    BY <1>1, <1>2, <1>5 DEF UnderLock
  <2>2. marker >= head
    <3>1. marker + 1 > head
      BY <2>1 DEF NothingLeft
    <3>2. head \in Nat /\ marker \in Nat
      BY <1>2
    <3> QED
      BY <3>1, <3>2
  <2>3. content.low \in Nat /\ content.reach \in Nat
    BY <1>2 DEF Content
  <2>4. marker <= content.low /\ content.low <= content.reach /\ content.reach <= head
    BY DEF IInv, MarkerTruthful
  <2>5. marker = head
    BY <1>2, <2>2, <2>3, <2>4
  <2> QED
    BY <2>1, <2>5
<1>6. ASSUME NEW pc \in {"checks", "standing", "checkpoint"}, Leave(t, pc),
             pc = "checkpoint" => thread[t].goal = "commit"
      PROVE  IInv'
  <2>1. pc \in PC /\ pc \in Holding /\ lock' = lock
    BY <1>6 DEF PC, Holding, Leave
  <2>2. PICK y \in State : /\ thread' = [thread EXCEPT ![t] = y]
                           /\ thread'[t] = y
                           /\ y.pc = pc /\ y.goal = "none" /\ y.last = thread[t].last
                           /\ y.outcome = thread[t].outcome /\ y.call = thread[t].call
    BY <1>1, <1>6, <2>1, LeaveState
  <2>3. OwnState(t)'
    BY <1>2, <1>3, <1>4, <2>2 DEF OwnState
  <2>4. UnderLock(t)'
    BY <1>2, <1>3, <1>5, <1>6, <2>1, <2>2 DEF UnderLock
  <2> QED
    BY <1>1, <1>2, <1>3, <2>1, <2>2, <2>3, <2>4, StayUnchanged DEF NothingLeft
<1>7. ASSUME Return(t, "applied"), thread[t].goal = "commit"
      PROVE  IInv'
  <2>1. thread[t].last <= marker /\ head <= head' /\ marker <= marker'
    BY <1>2, <1>3, <1>5, <1>7
  <2>2. TypeOK' /\ ApplyInv'
    BY <1>1, <1>2, <1>3, <1>7, <2>1, ReturnKeeps DEF Outcome
  <2> QED
    BY <1>2, <1>3, <2>1, <2>2, LogicalPart DEF IInv
<1>8. CASE thread[t].goal = "write"
  BY <1>6, <1>8 DEF NothingLeft
<1>9. CASE thread[t].goal = "catch up"
  BY <1>6, <1>9 DEF NothingLeft
<1>10. CASE thread[t].goal = "commit"
  BY <1>6, <1>7, <1>10 DEF NothingLeft
<1> QED
  BY <1>4, <1>8, <1>9, <1>10

LEMMA RunKeeps ==
  ASSUME IInv, NEW t \in Thread, Run(t)
  PROVE  IInv'
<1>1. thread[t].pc = "run"
  BY DEF Run, At
<1> QED
  BY <1>1, NothingLeftKeeps, RunAppliedKeeps, RunFailedKeeps DEF Run

(***************************************************************************)
(* The marker moves to the end of a run that is applied.                   *)
(***************************************************************************)
LEMMA MarkKeeps ==
  ASSUME IInv, NEW t \in Thread, Mark(t)
  PROVE  IInv'
<1>1. thread[t].pc = "mark" /\ InPass(t) /\ thread[t].pc \in Holding
  BY DEF Mark, At, InPass, Holding, PC
<1>2. /\ lock = t /\ thread \in [Thread -> State] /\ thread[t] \in State
      /\ head \in Nat /\ inDoubt \in Nat /\ marker \in Nat /\ content \in Content
      /\ checkpoints \subseteq [position : Nat, digest : Content]
      /\ blocked \in BOOLEAN /\ registered \in BOOLEAN
      /\ thread[t].upto \in Nat /\ thread[t].run \in Nat
      /\ OwnState(t) /\ UnderLock(t)
  BY <1>1, Holder
<1>3. /\ head' = head /\ inDoubt' = inDoubt /\ checkpoints' = checkpoints /\ content' = content
      /\ blocked' = blocked
  BY DEF Mark
<1>4. /\ thread[t].next = marker + 1 /\ thread[t].next <= thread[t].run
      /\ thread[t].run <= thread[t].upto /\ thread[t].upto <= head /\ thread[t].run <= content.low
  BY <1>1, <1>2 DEF UnderLock
<1>5. Advanced(t) = thread[t].run
  BY <1>2, <1>4 DEF Advanced, MarkRun
<1>6. ASSUME marker' \in {marker, Advanced(t)}
      PROVE  /\ marker' \in Nat /\ head <= head' /\ marker <= marker'
             /\ MarkerTruthful' /\ CheckpointsExact'
  <2>1. marker' \in Nat /\ head <= head' /\ marker <= marker'
    BY <1>2, <1>3, <1>4, <1>5, <1>6
  <2>2. marker <= content.low
    BY DEF IInv, MarkerTruthful
  <2>3. marker' <= content.low
    BY <1>4, <1>5, <1>6, <2>2
  <2>4. MarkerTruthful'
    BY <1>3, <2>3 DEF IInv, MarkerTruthful
  <2>5. CheckpointsExact'
    BY <1>3 DEF IInv, CheckpointsExact
  <2> QED
    BY <2>1, <2>4, <2>5
<1>7. CASE /\ marker' = Advanced(t)
           /\ thread' = [thread EXCEPT ![t].pc = "run", ![t].next = thread[t].run + 1, ![t].run = 0]
           /\ UNCHANGED <<lock, registered>>
  <2> DEFINE y == [thread[t] EXCEPT !.pc = "run", !.next = thread[t].run + 1, !.run = 0]
  <2>1. \A i \in Nat : [thread[t] EXCEPT !.pc = "run", !.next = i, !.run = 0] \in State
    BY <1>2 DEF State, PC
  <2>2. thread[t].run + 1 \in Nat
    BY <1>2
  <2>3. y \in State
    BY <2>1, <2>2
  <2>4. thread' = [thread EXCEPT ![t] = y]
    BY <1>2, <1>7 DEF State
  <2>5. /\ y.pc = "run" /\ y.next = thread[t].run + 1 /\ y.upto = thread[t].upto
        /\ y.goal = thread[t].goal /\ y.last = thread[t].last
        /\ y.outcome = thread[t].outcome /\ y.call = thread[t].call
    BY <1>2 DEF State
  <2>6. thread'[t] = y
    BY <1>2, <2>4
  <2> HIDE DEF y
  <2>7. OwnState(t)'
    BY <1>1, <1>2, <1>3, <2>5, <2>6 DEF OwnState
  <2>8. UnderLock(t)'
    <3>1. lock' = t /\ y.next = marker' + 1 /\ y.upto <= head'
      BY <1>2, <1>3, <1>4, <1>5, <1>7, <2>5
    <3>2. y.goal = "commit" => inDoubt' = 0 /\ y.last = head' /\ y.upto = y.last
      BY <1>1, <1>2, <1>3, <2>5 DEF UnderLock
    <3> QED
      BY <2>5, <2>6, <3>1, <3>2 DEF UnderLock
  <2>9. TypeOK' /\ ApplyInv'
    BY <1>1, <1>2, <1>3, <1>6, <1>7, <2>3, <2>4, <2>7, <2>8, StayKeeps
  <2> QED
    BY <1>6, <1>7, <2>9 DEF IInv
<1>8. CASE Retry(t, "log down") /\ UNCHANGED marker
  <2>1. TypeOK' /\ ApplyInv'
    BY <1>1, <1>2, <1>3, <1>8, RetryKeeps
  <2> QED
    BY <1>6, <1>8, <2>1 DEF IInv
<1>9. CASE /\ marker' \in {marker, Advanced(t)}
           /\ Return(t, "persistence error")
           /\ UNCHANGED registered
  <2>1. TypeOK' /\ ApplyInv'
    BY <1>1, <1>2, <1>3, <1>6, <1>9, ReturnKeeps DEF Outcome
  <2> QED
    BY <1>6, <1>9, <2>1 DEF IInv
<1> QED
  BY <1>7, <1>8, <1>9 DEF Mark

(***************************************************************************)
(* The digest is taken while the graph is exactly the log up to the group. *)
(***************************************************************************)
LEMMA RecordCheckpointKeeps ==
  ASSUME IInv, NEW w \in Writer, RecordCheckpoint(w)
  PROVE  IInv'
<1>1. w \in Thread /\ thread[w].pc = "checkpoint" /\ thread[w].pc \in Holding
  BY DEF Thread, RecordCheckpoint, At, Holding, PC
<1>2. /\ head \in Nat /\ inDoubt \in Nat /\ marker \in Nat /\ content \in Content
      /\ checkpoints \subseteq [position : Nat, digest : Content]
      /\ blocked \in BOOLEAN /\ registered \in BOOLEAN /\ thread[w].last \in Nat
      /\ UnderLock(w)
  BY <1>1, Holder
<1>3. thread[w].last = head /\ marker = head
  BY <1>1, <1>2 DEF UnderLock
<1>4. /\ head' = head /\ inDoubt' = inDoubt /\ marker' = marker /\ content' = content
      /\ blocked' = blocked /\ registered' = registered
  BY DEF RecordCheckpoint, processVars
<1>5. content = [low |-> head, reach |-> head, skewed |-> FALSE]
  <2>1. content.low \in Nat /\ content.reach \in Nat /\ content.skewed \in BOOLEAN
        /\ content = [low |-> content.low, reach |-> content.reach, skewed |-> content.skewed]
    BY <1>2 DEF Content
  <2>2. content.skewed = FALSE /\ marker <= content.low /\ content.low <= content.reach
        /\ content.reach <= head
    BY <2>1 DEF IInv, MarkerTruthful
  <2>3. content.low = head /\ content.reach = head
    BY <1>2, <1>3, <2>1, <2>2
  <2> QED
    BY <2>1, <2>2, <2>3
<1>6. CheckpointsExact' /\ checkpoints' \subseteq [position : Nat, digest : Content]
  <2> DEFINE c == [position |-> thread[w].last, digest |-> content]
  <2>1. c \in [position : Nat, digest : Content]
    BY <1>2
  <2>2. c.digest = [low |-> c.position, reach |-> c.position, skewed |-> FALSE]
    BY <1>3, <1>5
  <2>3. checkpoints' \in {checkpoints, checkpoints \cup {c}}
    BY DEF RecordCheckpoint
  <2> HIDE DEF c
  <2>4. \A d \in checkpoints' : d.digest = [low |-> d.position, reach |-> d.position, skewed |-> FALSE]
    BY <2>2, <2>3 DEF IInv, CheckpointsExact
  <2> QED
    BY <1>2, <2>1, <2>3, <2>4 DEF CheckpointsExact
<1>7. head <= head' /\ marker <= marker' /\ thread[w].last <= marker
  BY <1>2, <1>3, <1>4
<1>8. TypeOK' /\ ApplyInv'
  BY <1>1, <1>2, <1>4, <1>6, <1>7, ReturnKeeps DEF RecordCheckpoint, Outcome
<1>9. MarkerTruthful'
  BY <1>4 DEF IInv, MarkerTruthful
<1> QED
  BY <1>6, <1>8, <1>9 DEF IInv

LEMMA StandingKeeps ==
  ASSUME IInv, NEW t \in Thread, Standing(t)
  PROVE  IInv'
<1>1. thread[t].pc = "standing" /\ thread[t].pc \in Holding
  BY DEF Standing, At, Holding, PC
<1>2. blocked \in BOOLEAN /\ registered \in BOOLEAN
  BY <1>1, Holder
<1>3. \E outcome \in {"caught up", "lagging", "unavailable"} : Return(t, outcome)
  BY DEF Standing
<1> QED
  BY <1>1, <1>2, <1>3, ReturnUnchanged DEF Standing, Outcome, processVars

-----------------------------------------------------------------------------
(***************************************************************************)
(* The invariant holds initially and every step of the gateway keeps it.   *)
(***************************************************************************)
LEMMA InitHolds == Init => IInv
<1> SUFFICES ASSUME Init PROVE IInv
  OBVIOUS
<1>1. TypeOK
  BY IdleIsAState DEF Init, TypeOK, Content
<1>2. MarkerTruthful /\ CheckpointsExact
  BY DEF Init, MarkerTruthful, CheckpointsExact
<1>3. ASSUME NEW t \in Thread
      PROVE  OwnState(t) /\ UnderLock(t)
  <2>1. thread[t] = Idle
    BY DEF Init
  <2>2. Idle.pc = "idle" /\ Idle.last = 0 /\ Idle.outcome = "none" /\ Idle.goal = "none"
    BY DEF Idle
  <2>3. thread[t].last <= head
    BY <2>1, <2>2 DEF Init
  <2> QED
    BY <2>1, <2>2, <2>3 DEF OwnState, UnderLock, Holding
<1> QED
  BY <1>1, <1>2, <1>3 DEF IInv, ApplyInv

LEMMA NextKeeps ==
  ASSUME IInv, Next
  PROVE  IInv'
<1>1. CASE \E w \in Writer : \E c \in Call, e \in {NoExpectation, head} : Submit(w, c, e)
  BY <1>1, SubmitKeeps
<1>2. CASE \E w \in Writer : WriterStep(w)
  BY <1>2, StageKeeps, ChecksKeeps, AppendKeeps, CallerEndsKeeps, CompleteKeeps,
     RecordCheckpointKeeps DEF WriterStep
<1>3. CASE \E o \in Operator : CatchUp(o)
  BY <1>3, CatchUpKeeps
<1>4. CASE \E t \in Thread : Acquire(t) \/ ApplyStep(t) \/ Standing(t)
  BY <1>4, AcquireKeeps, PassKeeps, RunKeeps, MarkKeeps, StandingKeeps DEF ApplyStep
<1>5. CASE Reconcile \/ Discard
  BY <1>5, ReconcileKeeps, DiscardKeeps
<1>6. CASE \E commits \in BOOLEAN : Decide(commits)
  BY <1>6, DecideKeeps
<1>7. CASE Crash
  BY <1>7, CrashKeeps
<1> QED
  BY <1>1, <1>2, <1>3, <1>4, <1>5, <1>6, <1>7 DEF Next

THEOREM Invariance == Spec => []IInv
<1>1. IInv /\ [Next]_vars => IInv'
  <2> SUFFICES ASSUME IInv, [Next]_vars PROVE IInv'
    OBVIOUS
  <2>1. CASE Next
    BY <2>1, NextKeeps
  <2>2. CASE UNCHANGED vars
    BY ZenonT(60), <2>2 DEF vars, IInv, TypeOK, MarkerTruthful, CheckpointsExact, ApplyInv, OwnState, UnderLock
  <2> QED
    BY <2>1, <2>2
<1> QED
  BY InitHolds, <1>1, PTL DEF Spec

(***************************************************************************)
(* Type correctness of the gateway's state.                                *)
(***************************************************************************)
THEOREM TypeCorrect == Spec => []TypeOK
  BY Invariance, PTL DEF IInv

(***************************************************************************)
(* _apply_pending and the marker: for any number of threads, any schedule  *)
(* of faults and crashes, the marker claims no more than the graph holds   *)
(* and no entry is ever applied out of turn.                               *)
(***************************************************************************)
THEOREM MarkerIsTruthful == Spec => []MarkerTruthful
  BY Invariance, PTL DEF IInv

(***************************************************************************)
(* submit_group's answer `applied` is durable: the marker covers the group *)
(* for ever after.                                                         *)
(***************************************************************************)
THEOREM AppliedIsDurable == Spec => []AppliedStaysApplied
<1>1. IInv => AppliedStaysApplied
  <2> SUFFICES ASSUME IInv, NEW w \in Writer, thread[w].outcome = "applied"
               PROVE  thread[w].last <= marker
    BY DEF AppliedStaysApplied
  <2>1. w \in Thread
    BY DEF Thread
  <2> QED
    BY <2>1 DEF IInv, ApplyInv, OwnState
<1> QED
  BY <1>1, Invariance, PTL

(***************************************************************************)
(* _record_checkpoint: every recorded digest is that of the exact prefix.  *)
(***************************************************************************)
THEOREM CheckpointsAreExact == Spec => []CheckpointsExact
  BY Invariance, PTL DEF IInv

(***************************************************************************)
(* What a thread knows under the lock holds in every reachable state.      *)
(***************************************************************************)
THEOREM LockProtects == Spec => []ApplyInv
  BY Invariance, PTL DEF IInv

-----------------------------------------------------------------------------
(***************************************************************************)
(* A step commits to the log or moves the marker, never both, and never    *)
(* backwards.                                                              *)
(***************************************************************************)
LEMMA LogShape ==
  ASSUME IInv, [Next]_vars
  PROVE  head <= head' /\ marker <= marker' /\ (head' = head \/ marker' = marker)
<1>1. head \in Nat /\ marker \in Nat /\ inDoubt \in Nat
  BY DEF IInv, TypeOK
<1>2. CASE head' = head /\ marker' = marker
  BY <1>1, <1>2
<1>3. ASSUME NEW w \in Writer, NEW pc, Logged(w, pc), thread[w].call # {}, marker' = marker
      PROVE  head <= head' /\ marker' = marker
  <2>1. CallOf(w).size \in Nat \ {0}
    BY <1>3, SizeOfCall DEF IInv, Thread
  <2>2. head' = head + CallOf(w).size
    BY <1>3 DEF Logged
  <2> QED
    BY <1>1, <1>3, <2>1, <2>2
<1>4. ASSUME NEW w \in Writer, WriterStep(w)
      PROVE  head <= head' /\ marker' = marker
  <2>1. CASE UNCHANGED <<head, marker>>
    BY <1>1, <2>1
  <2>2. CASE Append(w) \/ CallerEnds(w)
    <3>1. w \in Thread /\ thread[w].pc \in {"append", "staged"}
      BY <2>2 DEF Append, CallerEnds, At, Thread
    <3>2. thread[w].call # {}
      BY <3>1 DEF IInv, ApplyInv, OwnState
    <3>3. marker' = marker /\ (head' = head \/ Logged(w, "pass") \/ Logged(w, "complete"))
      BY <2>2 DEF Append, CallerEnds, InDoubt
    <3> QED
      BY <1>1, <1>3, <3>2, <3>3
  <2> QED
    BY <1>4, <2>1, <2>2 DEF WriterStep, Stage, Checks, Complete, RecordCheckpoint, logVars
<1>5. ASSUME NEW t \in Thread, Mark(t)
      PROVE  head' = head /\ marker <= marker'
  <2>1. thread[t].run \in Nat
    BY DEF IInv, TypeOK, State
  <2>2. head' = head /\ marker' \in {marker, Advanced(t)}
    BY <1>5 DEF Mark
  <2> QED
    BY <1>1, <2>1, <2>2 DEF Advanced, MarkRun
<1>6. ASSUME NEW commits \in BOOLEAN, Decide(commits)
      PROVE  head <= head' /\ marker' = marker
  BY <1>1, <1>6 DEF Decide, Decided
<1>7. CASE Next
  <2>1. ASSUME NEW t \in Thread, Run(t)
        PROVE  head' = head /\ marker' = marker
    BY <2>1 DEF Run, NothingLeft, RunApplied, RunFailed, logVars
  <2>2. CASE \/ \E w \in Writer : \E c \in Call, e \in {NoExpectation, head} : Submit(w, c, e)
             \/ \E o \in Operator : CatchUp(o)
             \/ Reconcile \/ Discard \/ Crash
    <3>1. head' = head /\ marker' = marker
      BY <2>2 DEF Submit, CatchUp, Reconcile, Discard, Crash, logVars
    <3> QED
      BY <1>2, <3>1
  <2>3. ASSUME NEW t \in Thread, Acquire(t) \/ Pass(t) \/ Standing(t)
        PROVE  head' = head /\ marker' = marker
    BY <2>3 DEF Acquire, Pass, Standing, logVars
  <2>4. CASE \E t \in Thread : Acquire(t) \/ ApplyStep(t) \/ Standing(t)
    <3>1. PICK t \in Thread : Acquire(t) \/ Pass(t) \/ Run(t) \/ Mark(t) \/ Standing(t)
      BY <2>4 DEF ApplyStep
    <3> QED
      BY <1>1, <1>2, <1>5, <2>1, <2>3, <3>1
  <2> QED
    BY <1>1, <1>4, <1>6, <1>7, <2>2, <2>4 DEF Next
<1> QED
  BY <1>2, <1>7 DEF vars

(***************************************************************************)
(* The gateway uses the log the way GraphLog describes it: its commits     *)
(* only add positions, its marker only advances and stays in the log.      *)
(***************************************************************************)
THEOREM GatewayImplementsGraphLog == Spec => ImplementsGraphLog
<1>1. Init => Log!Init
  BY DEF Init, Log!Init
<1>2. IInv /\ IInv' /\ [Next]_vars => [Log!Next]_(Log!vars)
  <2> SUFFICES ASSUME IInv, IInv', [Next]_vars PROVE [Log!Next]_(Log!vars)
    OBVIOUS
  <2> DEFINE h == [g \in {TheGraph} |-> head]
             m == [g \in {TheGraph} |-> marker]
  <2>1. head \in Nat /\ marker \in Nat /\ head' \in Nat /\ marker' \in Nat
    BY DEF IInv, TypeOK
  <2>2. marker' <= head'
    <3>1. content'.low \in Nat /\ content'.reach \in Nat
      BY DEF IInv, TypeOK, Content
    <3>2. marker' <= content'.low /\ content'.low <= content'.reach /\ content'.reach <= head'
      BY DEF IInv, MarkerTruthful
    <3> QED
      BY <2>1, <3>1, <3>2
  <2>3. CASE head' = head /\ marker' = marker
    BY <2>3 DEF Log!vars
  <2>4. CASE head' # head
    <3>1. marker' = marker /\ head <= head'
      BY <2>4, LogShape
    <3>2. /\ DOMAIN h' = {TheGraph} /\ \A g \in {TheGraph} : h[g] <= h'[g]
          /\ m' = m
      BY <3>1
    <3>3. h' # h
      <4>1. h[TheGraph] = head /\ h'[TheGraph] = head'
        OBVIOUS
      <4> QED
        BY <2>4, <4>1
    <3>4. Log!Append
      BY <3>2, <3>3 DEF Log!Append
    <3> QED
      BY <3>4 DEF Log!Next
  <2>5. CASE head' = head /\ marker' # marker
    <3>1. marker < marker' /\ marker' <= head
      BY <2>1, <2>2, <2>5, LogShape
    <3>2. /\ m[TheGraph] = marker /\ m'[TheGraph] = marker' /\ h[TheGraph] = head
          /\ m' = [m EXCEPT ![TheGraph] = m'[TheGraph]] /\ h' = h
      BY <2>5
    <3>3. Log!Advance(TheGraph)
      BY <3>1, <3>2 DEF Log!Advance
    <3> QED
      BY <3>3 DEF Log!Next
  <2> QED
    BY <2>3, <2>4, <2>5
<1> QED
  BY <1>1, <1>2, Invariance, PTL DEF Spec, Log!Spec, ImplementsGraphLog

-----------------------------------------------------------------------------
(***************************************************************************)
(* Without connections that die in the middle of a commit, nothing is      *)
(* accepted out of turn.                                                   *)
(***************************************************************************)
OthersStand(t) == \A o \in Thread \ {t} : thread'[o] = thread[o]

LEMMA HolderKeepsOrder ==
  ASSUME IInv, OrderInv, NEW t \in Thread, thread[t].pc \in Holding, OthersStand(t),
         inDoubt' = 0, InTurn(t)'
  PROVE  OrderInv'
<1>1. lock = t
  BY Holder
<1>2. ASSUME NEW o \in Thread \ {t}
      PROVE  InTurn(o)'
  <2>1. thread'[o] = thread[o] /\ InTurn(o) /\ UnderLock(o)
    BY DEF OthersStand, OrderInv, IInv, ApplyInv
  <2>2. thread[o].pc \notin Holding
    BY <1>1, <2>1 DEF UnderLock
  <2> QED
    BY <2>1, <2>2 DEF InTurn, Holding, PC
<1> QED
  BY <1>2 DEF OrderInv

LEMMA OutsiderKeepsOrder ==
  ASSUME OrderInv, NEW t \in Thread, OthersStand(t), UNCHANGED <<head, inDoubt, marker, blocked>>,
         InTurn(t)'
  PROVE  OrderInv'
<1>1. ASSUME NEW o \in Thread \ {t}
      PROVE  InTurn(o)'
  BY DEF OthersStand, OrderInv, InTurn
<1> QED
  BY <1>1 DEF OrderInv

LEMMA ReturnInTurn ==
  ASSUME IInv, OrderInv, NEW t \in Thread, NEW outcome, Return(t, outcome)
  PROVE  InTurn(t)' /\ OthersStand(t)
<1>1. thread \in [Thread -> State] /\ InTurn(t)
  BY DEF IInv, TypeOK, OrderInv
<1>2. /\ thread'[t].pc \in {"idle", "discard"} /\ thread'[t].first = thread[t].first
      /\ thread[t].first # 0 => thread'[t].expected = thread[t].expected
  BY <1>1 DEF Return, Idle
<1>3. OthersStand(t)
  BY <1>1 DEF Return, OthersStand
<1> QED
  BY <1>1, <1>2, <1>3 DEF InTurn

LEMMA StandInTurn ==
  ASSUME IInv, OrderInv, NEW t \in Thread, NEW y, thread' = [thread EXCEPT ![t] = y],
         y.first = thread[t].first, y.expected = thread[t].expected,
         y.pc \in {"run", "mark"} => y.upto = head',
         y.pc \in {"checks", "append", "staged"} => marker' = head' /\ ~blocked',
         y.pc \in {"append", "staged"} => y.expected \in {NoExpectation, head'}
  PROVE  InTurn(t)' /\ OthersStand(t)
<1>1. thread \in [Thread -> State] /\ InTurn(t)
  BY DEF IInv, TypeOK, OrderInv
<1>2. thread'[t] = y
  BY <1>1
<1>3. OthersStand(t)
  BY <1>1 DEF OthersStand
<1> QED
  BY <1>1, <1>2, <1>3 DEF InTurn

LEMMA FreshInTurn ==
  ASSUME IInv, OrderInv, NEW t \in Thread, NEW y, thread' = [thread EXCEPT ![t] = y],
         y.first = 0, y.pc = "lock"
  PROVE  InTurn(t)' /\ OthersStand(t)
<1>1. thread \in [Thread -> State]
  BY DEF IInv, TypeOK
<1>2. thread'[t] = y /\ OthersStand(t)
  BY <1>1 DEF OthersStand
<1> QED
  BY <1>2 DEF InTurn

LEMMA SubmitOrder ==
  ASSUME IInv, OrderInv, NEW w \in Writer, NEW c, NEW e, Submit(w, c, e)
  PROVE  OrderInv'
<1> DEFINE y == [Idle EXCEPT !.pc = "lock", !.call = {c}, !.expected = e]
<1>1. w \in Thread /\ y.first = 0 /\ y.pc = "lock"
  BY DEF Thread, Idle
<1>2. thread' = [thread EXCEPT ![w] = y] /\ UNCHANGED <<head, inDoubt, marker, blocked>>
  BY DEF Submit, logVars, processVars
<1> HIDE DEF y
<1> QED
  BY <1>1, <1>2, FreshInTurn, OutsiderKeepsOrder

LEMMA StartOrder ==
  ASSUME IInv, OrderInv, NEW t \in Thread,
         thread' = [thread EXCEPT ![t] = [Idle EXCEPT !.pc = "lock"]],
         UNCHANGED <<logVars, content, lock, processVars>>
  PROVE  OrderInv'
<1> DEFINE y == [Idle EXCEPT !.pc = "lock"]
<1>1. y.first = 0 /\ y.pc = "lock"
  BY DEF Idle
<1>2. thread' = [thread EXCEPT ![t] = y] /\ UNCHANGED <<head, inDoubt, marker, blocked>>
  BY DEF logVars, processVars
<1> HIDE DEF y
<1> QED
  BY <1>1, <1>2, FreshInTurn, OutsiderKeepsOrder

LEMMA DiscardOrder ==
  ASSUME IInv, OrderInv, Discard
  PROVE  OrderInv'
<1>1. Reconciler \in Thread /\ thread \in [Thread -> State] /\ thread[Reconciler] \in State
  BY DEF IInv, TypeOK, Thread
<1> DEFINE y == [thread[Reconciler] EXCEPT !.pc = "idle"]
<1>2. thread' = [thread EXCEPT ![Reconciler] = y] /\ y.pc = "idle"
      /\ y.first = thread[Reconciler].first /\ y.expected = thread[Reconciler].expected
  BY <1>1 DEF Discard, Move, State
<1> HIDE DEF y
<1>3. UNCHANGED <<head, inDoubt, marker, blocked>>
  BY DEF Discard, logVars
<1> QED
  BY <1>1, <1>2, <1>3, StandInTurn, OutsiderKeepsOrder

LEMMA AcquireOrder ==
  ASSUME IInv, OrderInv, NEW t \in Thread, Acquire(t)
  PROVE  OrderInv'
<1>1. thread \in [Thread -> State] /\ thread[t] \in State
  BY DEF IInv, TypeOK
<1> DEFINE y == IF t \in Writer THEN [thread[t] EXCEPT !.pc = "stage"]
                ELSE [thread[t] EXCEPT !.pc = "pass", !.goal = "catch up", !.tries = 1]
<1>2. thread' = [thread EXCEPT ![t] = y]
  BY <1>1 DEF Acquire, Move, StartPass, State
<1>3. y.pc \in {"stage", "pass"} /\ y.first = thread[t].first /\ y.expected = thread[t].expected
  BY <1>1 DEF State
<1> HIDE DEF y
<1>4. UNCHANGED <<head, inDoubt, marker, blocked>>
  BY DEF Acquire, logVars, processVars
<1> QED
  BY <1>2, <1>3, <1>4, StandInTurn, OutsiderKeepsOrder

LEMMA ReturnOrder ==
  ASSUME IInv, OrderInv, NEW t \in Thread, thread[t].pc \in Holding, NEW outcome,
         Return(t, outcome), inDoubt' = 0
  PROVE  OrderInv'
BY ReturnInTurn, HolderKeepsOrder

\* Steps of the holder that lead to a point about which InTurn says nothing but what is given.
LEMMA HolderOrder ==
  ASSUME IInv, OrderInv, NEW t \in Thread, thread[t].pc \in Holding,
         NEW y, thread' = [thread EXCEPT ![t] = y],
         y.first = thread[t].first, y.expected = thread[t].expected,
         y.pc \in {"run", "mark"} => y.upto = head',
         y.pc \in {"checks", "append", "staged"} => marker' = head' /\ ~blocked',
         y.pc \in {"append", "staged"} => y.expected \in {NoExpectation, head'},
         inDoubt' = 0
  PROVE  OrderInv'
BY StandInTurn, HolderKeepsOrder

\* A thread that only moves on.
LEMMA MoveOrder ==
  ASSUME IInv, OrderInv, NEW t \in Thread, thread[t].pc \in Holding,
         NEW pc \in {"checks", "append", "staged", "pass"}, Move(t, pc),
         UNCHANGED <<logVars, content, lock, processVars>>,
         pc # "pass" => marker = head /\ ~blocked,
         pc \in {"append", "staged"} => thread[t].expected \in {NoExpectation, head}
  PROVE  OrderInv'
<1>1. pc \in PC /\ inDoubt' = 0
  BY DEF PC, OrderInv, logVars
<1>2. PICK y \in State : /\ thread' = [thread EXCEPT ![t] = y]
                         /\ y.pc = pc
                         /\ y.first = thread[t].first /\ y.expected = thread[t].expected
  BY <1>1, MoveState
<1>3. head' = head /\ marker' = marker /\ blocked' = blocked
  BY DEF logVars, processVars
<1> QED
  BY <1>1, <1>2, <1>3, HolderOrder

LEMMA StageOrder ==
  ASSUME IInv, OrderInv, NEW w \in Writer, Stage(w)
  PROVE  OrderInv'
<1>1. w \in Thread /\ thread[w].pc \in Holding /\ thread \in [Thread -> State]
      /\ thread[w] \in State
  BY DEF Thread, Stage, At, Holding, PC, IInv, TypeOK
<1>2. UNCHANGED <<logVars, content, processVars>> /\ inDoubt' = 0
  BY DEF Stage, OrderInv, logVars
<1>3. CASE \E outcome : Return(w, outcome)
  BY <1>1, <1>2, <1>3, ReturnOrder
<1>4. CASE StartPass(w, "write")
  <2> DEFINE y == [thread[w] EXCEPT !.pc = "pass", !.goal = "write", !.tries = 1]
  <2>1. thread' = [thread EXCEPT ![w] = y]
    BY <1>1, <1>4 DEF StartPass, State
  <2>2. y.pc = "pass" /\ y.first = thread[w].first /\ y.expected = thread[w].expected
    BY <1>1 DEF State
  <2> HIDE DEF y
  <2> QED
    BY <1>1, <1>2, <2>1, <2>2, HolderOrder
<1>5. CASE ~blocked /\ ~MarkerLags /\ Move(w, "checks") /\ UNCHANGED lock
  BY <1>1, <1>2, <1>5, MoveOrder DEF MarkerLags
<1> QED
  BY <1>3, <1>4, <1>5 DEF Stage

LEMMA ChecksOrder ==
  ASSUME IInv, OrderInv, NEW w \in Writer, Checks(w)
  PROVE  OrderInv'
<1>1. w \in Thread /\ thread[w].pc = "checks" /\ thread[w].pc \in Holding
  BY DEF Thread, Checks, At, Holding, PC
<1>2. UNCHANGED <<logVars, content, processVars>> /\ inDoubt' = 0
  BY DEF Checks, OrderInv, logVars
<1>3. marker = head /\ ~blocked
  BY <1>1 DEF OrderInv, InTurn
<1>4. CASE \E outcome : Return(w, outcome)
  BY <1>1, <1>2, <1>4, ReturnOrder
<1>5. CASE AsExpected(w) /\ Move(w, "append") /\ UNCHANGED lock
  BY <1>1, <1>2, <1>3, <1>5, MoveOrder DEF AsExpected
<1> QED
  BY <1>4, <1>5 DEF Checks

LEMMA LoggedOrder ==
  ASSUME IInv, OrderInv, NEW w \in Writer, NEW pc \in {"pass", "complete"},
         thread[w].pc \in {"append", "staged"}, Logged(w, pc)
  PROVE  OrderInv'
<1>1. w \in Thread /\ thread[w].pc \in Holding
  BY DEF Thread, Holding, PC
<1>2. thread \in [Thread -> State] /\ thread[w] \in State /\ head \in Nat
  BY <1>1 DEF IInv, TypeOK
<1>3. thread[w].expected \in {NoExpectation, head}
  BY <1>1 DEF OrderInv, InTurn
<1>4. thread'[w].pc = pc /\ thread'[w].first = head + 1
      /\ thread'[w].expected = thread[w].expected
  BY <1>1, <1>2 DEF Logged, State
<1>5. (head + 1) - 1 = head
  BY <1>2
<1>6. InTurn(w)'
  BY <1>3, <1>4, <1>5 DEF InTurn
<1>7. OthersStand(w) /\ inDoubt' = 0
  BY <1>2 DEF Logged, OthersStand, OrderInv
<1> QED
  BY <1>1, <1>6, <1>7, HolderKeepsOrder

LEMMA AppendOrder ==
  ASSUME "ack lost" \notin Faults, IInv, OrderInv, NEW w \in Writer, Append(w) \/ CallerEnds(w)
  PROVE  OrderInv'
<1>1. w \in Thread /\ thread[w].pc \in {"append", "staged"} /\ thread[w].pc \in Holding
  BY DEF Thread, Append, CallerEnds, At, Holding, PC
<1>2. UNCHANGED <<marker, content, checkpoints, processVars>> /\ inDoubt = 0
  BY DEF Append, CallerEnds, OrderInv
<1>3. marker = head /\ ~blocked /\ thread[w].expected \in {NoExpectation, head}
  BY <1>1 DEF OrderInv, InTurn
<1>4. CASE (\E outcome : Return(w, outcome)) /\ UNCHANGED <<head, inDoubt>>
  BY <1>1, <1>2, <1>4, ReturnOrder
<1>5. CASE Logged(w, "pass") \/ Logged(w, "complete")
  BY <1>1, <1>5, LoggedOrder
<1>6. CASE Move(w, "staged") /\ UNCHANGED <<head, inDoubt, lock>>
  BY <1>1, <1>2, <1>3, <1>6, MoveOrder DEF logVars
<1> QED
  BY <1>4, <1>5, <1>6 DEF Append, CallerEnds, InDoubt

LEMMA CompleteOrder ==
  ASSUME IInv, OrderInv, NEW w \in Writer, Complete(w)
  PROVE  OrderInv'
<1>1. w \in Thread /\ thread[w].pc \in Holding
  BY DEF Thread, Complete, At, Holding, PC
<1>2. UNCHANGED <<logVars, content, processVars>> /\ inDoubt' = 0
  BY DEF Complete, OrderInv, logVars
<1>3. CASE \E outcome : Return(w, outcome)
  BY <1>1, <1>2, <1>3, ReturnOrder
<1>4. CASE Move(w, "pass") /\ UNCHANGED lock
  BY <1>1, <1>2, <1>4, MoveOrder
<1> QED
  BY <1>3, <1>4 DEF Complete

LEMMA RetryOrder ==
  ASSUME IInv, OrderInv, NEW t \in Thread, thread[t].pc \in Holding, NEW why, Retry(t, why),
         inDoubt' = 0
  PROVE  OrderInv'
<1>1. thread \in [Thread -> State] /\ thread[t] \in State
  BY DEF IInv, TypeOK
<1>2. CASE \E outcome : Return(t, outcome)
  BY <1>2, ReturnOrder
<1>3. CASE MayRetry(t)
  <2> DEFINE tries == IF thread[t].tries < MaxAttempts THEN thread[t].tries + 1 ELSE thread[t].tries
             y == [thread[t] EXCEPT !.pc = "pass", !.tries = tries]
  <2>1. thread' = [thread EXCEPT ![t] = y]
    BY <1>1, <1>3 DEF Retry, State
  <2> HIDE DEF tries
  <2>2. y.pc = "pass" /\ y.first = thread[t].first /\ y.expected = thread[t].expected
    BY <1>1 DEF State
  <2> HIDE DEF y
  <2> QED
    BY <2>1, <2>2, HolderOrder
<1>4. CASE Leave(t, "standing")
  <2> DEFINE y == [thread[t] EXCEPT !.pc = "standing", !.goal = "none", !.next = 0, !.upto = 0,
                                    !.run = 0, !.tries = 0]
  <2>1. thread' = [thread EXCEPT ![t] = y]
    BY <1>1, <1>4 DEF Leave, State
  <2>2. y.pc = "standing" /\ y.first = thread[t].first /\ y.expected = thread[t].expected
    BY <1>1 DEF State
  <2> HIDE DEF y
  <2> QED
    BY <2>1, <2>2, HolderOrder
<1> QED
  BY <1>2, <1>3, <1>4 DEF Retry, GiveUp

LEMMA PassOrder ==
  ASSUME IInv, OrderInv, NEW t \in Thread, Pass(t)
  PROVE  OrderInv'
<1>1. thread[t].pc \in Holding /\ inDoubt' = 0 /\ head' = head
  BY DEF Pass, At, Holding, PC, OrderInv, logVars
<1>2. thread \in [Thread -> State] /\ thread[t] \in State
  BY DEF IInv, TypeOK
<1>3. CASE thread' = [thread EXCEPT ![t].pc = "run", ![t].next = marker + 1,
                                    ![t].upto = PassEnd(t), ![t].run = 0]
  <2> DEFINE y == [thread[t] EXCEPT !.pc = "run", !.next = marker + 1, !.upto = head, !.run = 0]
  <2>1. thread' = [thread EXCEPT ![t] = y]
    BY <1>2, <1>3 DEF PassEnd, State
  <2>2. /\ y.pc = "run" /\ y.upto = head /\ y.first = thread[t].first
        /\ y.expected = thread[t].expected
    BY <1>2 DEF State
  <2> HIDE DEF y
  <2> QED
    BY <1>1, <2>1, <2>2, HolderOrder
<1>4. CASE Retry(t, "log down")
  BY <1>1, <1>4, RetryOrder
<1> QED
  BY <1>3, <1>4 DEF Pass

LEMMA NothingLeftOrder ==
  ASSUME IInv, OrderInv, NEW t \in Thread, thread[t].pc = "run", NothingLeft(t)
  PROVE  OrderInv'
<1>1. thread[t].pc \in Holding
  BY DEF Holding, PC
<1>2. /\ thread \in [Thread -> State] /\ thread[t] \in State
      /\ head \in Nat /\ marker \in Nat /\ content \in Content
      /\ UnderLock(t)
  BY <1>1, Holder
<1>3. inDoubt' = 0 /\ head' = head /\ marker' = marker /\ blocked' = FALSE
  BY DEF NothingLeft, OrderInv, logVars
<1>4. marker = head
  <2>1. thread[t].next = marker + 1 /\ thread[t].upto = head /\ thread[t].next > thread[t].upto
    BY <1>1, <1>2 DEF UnderLock, OrderInv, InTurn, NothingLeft
  <2>2. marker + 1 > head
    BY <2>1
  <2>3. content.low \in Nat /\ content.reach \in Nat
    BY <1>2 DEF Content
  <2>4. marker <= content.low /\ content.low <= content.reach /\ content.reach <= head
    BY DEF IInv, MarkerTruthful
  <2>5. head \in Nat /\ marker \in Nat
    BY <1>2
  <2> QED
    BY <2>2, <2>3, <2>4, <2>5
<1>5. CASE \E outcome : Return(t, outcome)
  BY <1>1, <1>3, <1>5, ReturnOrder
<1>6. ASSUME NEW pc \in {"checks", "standing", "checkpoint"}, Leave(t, pc)
      PROVE  OrderInv'
  <2> DEFINE y == [thread[t] EXCEPT !.pc = pc, !.goal = "none", !.next = 0, !.upto = 0,
                                    !.run = 0, !.tries = 0]
  <2>1. thread' = [thread EXCEPT ![t] = y]
    BY <1>2, <1>6 DEF Leave, State
  <2>2. y.pc = pc /\ y.first = thread[t].first /\ y.expected = thread[t].expected
    BY <1>2 DEF State
  <2> HIDE DEF y
  <2>3. marker' = head' /\ ~blocked'
    BY <1>3, <1>4
  <2> QED
    BY <1>1, <1>3, <1>6, <2>1, <2>2, <2>3, HolderOrder
<1> QED
  BY <1>5, <1>6 DEF NothingLeft

LEMMA RunOrder ==
  ASSUME IInv, OrderInv, NEW t \in Thread, Run(t)
  PROVE  OrderInv'
<1>1. thread[t].pc = "run" /\ thread[t].pc \in Holding
  BY DEF Run, At, Holding, PC
<1>2. thread \in [Thread -> State] /\ thread[t] \in State /\ thread[t].upto = head
  BY <1>1 DEF IInv, TypeOK, OrderInv, InTurn
<1>3. ASSUME NEW b, RunApplied(t, b)
      PROVE  OrderInv'
  <2> DEFINE y == [thread[t] EXCEPT !.pc = "mark", !.run = b]
  <2>1. thread' = [thread EXCEPT ![t] = y]
    BY <1>2, <1>3 DEF RunApplied, State
  <2>2. /\ y.pc = "mark" /\ y.upto = thread[t].upto /\ y.first = thread[t].first
        /\ y.expected = thread[t].expected
    BY <1>2 DEF State
  <2> HIDE DEF y
  <2>3. head' = head /\ inDoubt' = 0
    BY <1>3 DEF RunApplied, OrderInv, logVars
  <2> QED
    BY <1>1, <1>2, <2>1, <2>2, <2>3, HolderOrder
<1>4. ASSUME NEW b, RunFailed(t, b)
      PROVE  OrderInv'
  <2>1. inDoubt' = 0
    BY <1>4 DEF RunFailed, OrderInv, logVars
  <2>2. (\E why : Retry(t, why)) \/ (\E outcome : Return(t, outcome))
    BY <1>4 DEF RunFailed
  <2> QED
    BY <1>1, <2>1, <2>2, RetryOrder, ReturnOrder
<1> QED
  BY <1>1, <1>3, <1>4, NothingLeftOrder DEF Run

LEMMA MarkOrder ==
  ASSUME IInv, OrderInv, NEW t \in Thread, Mark(t)
  PROVE  OrderInv'
<1>1. thread[t].pc = "mark" /\ thread[t].pc \in Holding
  BY DEF Mark, At, Holding, PC
<1>2. thread \in [Thread -> State] /\ thread[t] \in State /\ thread[t].upto = head
  BY <1>1 DEF IInv, TypeOK, OrderInv, InTurn
<1>3. inDoubt' = 0 /\ head' = head
  BY DEF Mark, OrderInv
<1>4. CASE thread' = [thread EXCEPT ![t].pc = "run", ![t].next = thread[t].run + 1, ![t].run = 0]
  <2> DEFINE y == [thread[t] EXCEPT !.pc = "run", !.next = thread[t].run + 1, !.run = 0]
  <2>1. thread' = [thread EXCEPT ![t] = y]
    BY <1>2, <1>4 DEF State
  <2>2. /\ y.pc = "run" /\ y.upto = thread[t].upto /\ y.first = thread[t].first
        /\ y.expected = thread[t].expected
    BY <1>2 DEF State
  <2> HIDE DEF y
  <2> QED
    BY <1>1, <1>2, <1>3, <2>1, <2>2, HolderOrder
<1>5. CASE (\E why : Retry(t, why)) \/ (\E outcome : Return(t, outcome))
  BY <1>1, <1>3, <1>5, RetryOrder, ReturnOrder
<1> QED
  BY <1>4, <1>5 DEF Mark

LEMMA EndOrder ==
  ASSUME IInv, OrderInv, NEW t \in Thread, Standing(t) \/ RecordCheckpoint(t)
  PROVE  OrderInv'
<1>1. thread[t].pc \in Holding /\ inDoubt' = 0
  BY DEF Standing, RecordCheckpoint, At, Holding, PC, OrderInv, logVars
<1>2. \E outcome : Return(t, outcome)
  BY DEF Standing, RecordCheckpoint
<1> QED
  BY <1>1, <1>2, ReturnOrder

LEMMA CrashOrder ==
  ASSUME IInv, OrderInv, Crash
  PROVE  OrderInv'
<1>1. ASSUME NEW t \in Thread
      PROVE  InTurn(t)'
  <2>1. thread'[t] = IF thread[t].pc = "idle" THEN thread[t] ELSE Idle
    BY DEF Crash, At
  <2>2. InTurn(t)
    BY DEF OrderInv
  <2>3. CASE thread[t].pc = "idle"
    BY <2>1, <2>2, <2>3 DEF InTurn
  <2>4. CASE thread[t].pc # "idle"
    <3>1. thread'[t].pc = "idle" /\ thread'[t].first = 0
      BY <2>1, <2>4 DEF Idle
    <3> QED
      BY <3>1 DEF InTurn
  <2> QED
    BY <2>3, <2>4
<1>2. inDoubt' = 0
  BY DEF Crash, OrderInv, logVars
<1> QED
  BY <1>1, <1>2 DEF OrderInv

LEMMA NothingToDecide ==
  ASSUME OrderInv, NEW commits, Decide(commits)
  PROVE  FALSE
<1>1. inDoubt = 0
  BY DEF OrderInv
<1>2. inDoubt > 0
  BY DEF Decide
<1> QED
  BY <1>1, <1>2

LEMMA NextOrder ==
  ASSUME "ack lost" \notin Faults, IInv, OrderInv, Next
  PROVE  OrderInv'
<1>1. CASE \E w \in Writer : \E c \in Call, e \in {NoExpectation, head} : Submit(w, c, e)
  BY <1>1, SubmitOrder
<1>2. CASE \E w \in Writer : WriterStep(w)
  <2>1. Writer \subseteq Thread
    BY DEF Thread
  <2> QED
    BY <1>2, <2>1, StageOrder, ChecksOrder, AppendOrder, CompleteOrder, EndOrder DEF WriterStep
<1>3. CASE \E o \in Operator : CatchUp(o)
  <2>1. Operator \subseteq Thread
    BY DEF Thread
  <2> QED
    BY <1>3, <2>1, StartOrder DEF CatchUp
<1>4. CASE \E t \in Thread : Acquire(t) \/ ApplyStep(t) \/ Standing(t)
  BY <1>4, AcquireOrder, PassOrder, RunOrder, MarkOrder, EndOrder DEF ApplyStep
<1>5. CASE Reconcile
  <2>1. Reconciler \in Thread
    BY DEF Thread
  <2> QED
    BY <1>5, <2>1, StartOrder DEF Reconcile
<1>6. CASE Discard
  BY <1>6, DiscardOrder
<1>7. CASE \E commits \in BOOLEAN : Decide(commits)
  BY <1>7, NothingToDecide
<1>8. CASE Crash
  BY <1>8, CrashOrder
<1> QED
  BY <1>1, <1>2, <1>3, <1>4, <1>5, <1>6, <1>7, <1>8 DEF Next

(***************************************************************************)
(* From the lag check to the append the graph stays caught up, unblocked   *)
(* and at the position the caller expects.                                 *)
(***************************************************************************)
THEOREM WritesStayInOrder ==
  ASSUME "ack lost" \notin Faults
  PROVE  Spec => []OrderInv
<1>1. Init => OrderInv
  <2>1. Idle.pc = "idle" /\ Idle.first = 0
    BY DEF Idle
  <2> QED
    BY <2>1 DEF Init, OrderInv, InTurn
<1>2. IInv /\ OrderInv /\ [Next]_vars => OrderInv'
  <2> SUFFICES ASSUME IInv, OrderInv, [Next]_vars PROVE OrderInv'
    OBVIOUS
  <2>1. CASE UNCHANGED vars
    BY <2>1 DEF vars, OrderInv, InTurn
  <2> QED
    BY <2>1, NextOrder
<1> QED
  BY <1>1, <1>2, Invariance, PTL DEF Spec

(***************************************************************************)
(* submit_group, "The graph must be caught up": a group is logged only on  *)
(* a graph that is neither behind its log nor blocked.                     *)
(***************************************************************************)
THEOREM NothingAcceptedOutOfTurn ==
  ASSUME "ack lost" \notin Faults
  PROVE  Spec => AcceptedOnlyWhenApplied
<1>1. IInv /\ OrderInv /\ [Next]_vars => [head' # head => (marker = head /\ ~blocked)]_vars
  <2> SUFFICES ASSUME IInv, OrderInv, [Next]_vars, head' # head
               PROVE  marker = head /\ ~blocked
    OBVIOUS
  <2>1. ASSUME NEW w \in Writer, Append(w) \/ CallerEnds(w)
        PROVE  marker = head /\ ~blocked
    <3>1. w \in Thread /\ thread[w].pc \in {"append", "staged"}
      BY ZenonT(60), <2>1 DEF Thread, Append, CallerEnds, At
    <3> QED
      BY <3>1 DEF OrderInv, InTurn
  <2>2. PICK w \in Writer : Append(w) \/ CallerEnds(w)
    <3>1. ASSUME NEW t \in Thread, Run(t) \/ Mark(t) \/ Pass(t) \/ Acquire(t) \/ Standing(t)
          PROVE  head' = head
      BY <3>1 DEF Run, NothingLeft, RunApplied, RunFailed, Mark, Pass, Acquire, Standing, logVars
    <3>2. ASSUME NEW w \in Writer, WriterStep(w), ~Append(w), ~CallerEnds(w)
          PROVE  head' = head
      BY <3>2 DEF WriterStep, Stage, Checks, Complete, RecordCheckpoint, logVars
    <3>3. ASSUME NEW commits, Decide(commits)
          PROVE  FALSE
      BY <3>3, NothingToDecide
    <3> QED
      BY <3>1, <3>2, <3>3 DEF Next, ApplyStep, Submit, CatchUp, Reconcile, Discard, Crash, logVars, vars
  <2> QED
    BY <2>1, <2>2
<1> QED
  BY <1>1, Invariance, WritesStayInOrder, PTL DEF Spec, AcceptedOnlyWhenApplied

(***************************************************************************)
(* models.py: preconditions are "Conditions that must hold when the group  *)
(* is logged"; with every commit acknowledged they do.                     *)
(***************************************************************************)
THEOREM PreconditionsHold ==
  ASSUME "ack lost" \notin Faults
  PROVE  Spec => []PreconditionHoldsWhenLogged
<1>1. OrderInv => PreconditionHoldsWhenLogged
  BY DEF OrderInv, InTurn, PreconditionHoldsWhenLogged, Thread
<1> QED
  BY <1>1, WritesStayInOrder, PTL

====
