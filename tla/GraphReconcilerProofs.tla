------------------------ MODULE GraphReconcilerProofs ------------------------
(***************************************************************************)
(* PendingIsServed for every number of graphs and threads and every length *)
(* of an outage.  It is inductive together with two facts about register   *)
(* and _has_pending: the thread `_thread` names is not over unless a stop  *)
(* was requested (SlotNotOver), so register may leave the work to it; and  *)
(* a thread that waits or runs a pass computed its backoff (BackoffFits).  *)
(***************************************************************************)
EXTENDS GraphReconciler, TLAPS

SlotNotOver == slot # NoWorker /\ ~StopRequested => ~At(slot, "off")

BackoffFits ==
  \A w \in Worker : worker[w].pc \in {"wait", "pass", "discard"} => worker[w].attempt <= MaxAttempt

IInv == TypeOK /\ BackoffFits /\ SlotNotOver /\ PendingIsServed

LEMMA InitIInv == Init => IInv
  <1> SUFFICES ASSUME Init PROVE IInv
    OBVIOUS
  <1>1. MaxAttempt \in Nat /\ 1 \in 1..MaxAttempt + 1
    BY BoundAssumption
  <1>2. Fresh \in State
    BY <1>1 DEF Fresh, State, PC
  <1>3. TypeOK
    BY <1>2, BoundAssumption DEF Init, TypeOK, Stop
  <1> QED
    BY <1>3 DEF Init, IInv, BackoffFits, SlotNotOver, PendingIsServed, Fresh

\* One thread moves on without ending: the others are untouched, so the
\* pending graphs stay served.
LEMMA WorkerMoves ==
  ASSUME IInv, NEW w \in Worker, NEW s \in State,
         worker' = [worker EXCEPT ![w] = s],
         s.pc # "off", worker[w].pc # "off",
         s.pc \in {"wait", "pass", "discard"} => s.attempt <= MaxAttempt,
         pending' \in SUBSET pending, slot' \in {slot, NoWorker}, stop' = stop,
         failures' \in 0..MaxFailures, registrations' = registrations
  PROVE  IInv'
  <1>1. TypeOK'
    BY DEF IInv, TypeOK
  <1>2. /\ worker'[w] = s
        /\ \A v \in Worker \ {w} : worker'[v] = worker[v]
        /\ w \in DOMAIN worker /\ worker' \in [Worker -> State]
    BY DEF IInv, TypeOK
  <1>3. BackoffFits'
    BY <1>2 DEF IInv, BackoffFits
  <1>4. SlotNotOver'
    BY <1>2 DEF IInv, TypeOK, SlotNotOver, StopRequested, At
  <1>5. PendingIsServed'
    <2>1. \A v \in Worker : worker[v].pc # "off" => worker'[v].pc # "off"
      BY <1>2
    <2>2. \A v \in Worker : Alive(v) \/ At(v, "dead") \/ At(v, "unstarted") <=> worker[v].pc # "off"
      BY DEF Alive, At
    <2>3. \A v \in Worker :
            (Alive(v) \/ At(v, "dead") \/ At(v, "unstarted"))' <=> worker'[v].pc # "off"
      BY DEF Alive, At
    <2> QED
      BY <2>1, <2>2, <2>3 DEF IInv, PendingIsServed, StopRequested
  <1> QED
    BY <1>1, <1>3, <1>4, <1>5 DEF IInv

\* One thread ends: nothing is pending, or a stop was requested.
LEMMA WorkerEnds ==
  ASSUME IInv, NEW w \in Worker,
         worker' = [worker EXCEPT ![w] = Fresh],
         StopRequested \/ (pending = {} /\ slot' = NoWorker),
         pending' = pending, slot' \in {slot, NoWorker}, stop' = stop,
         failures' = failures, registrations' = registrations
  PROVE  IInv'
  <1>1. Fresh \in State
    BY BoundAssumption DEF Fresh, State, PC
  <1>2. TypeOK'
    BY <1>1 DEF IInv, TypeOK
  <1>3. /\ worker'[w] = Fresh
        /\ \A v \in Worker \ {w} : worker'[v] = worker[v]
    BY DEF IInv, TypeOK
  <1>4. BackoffFits'
    BY <1>3 DEF IInv, BackoffFits, Fresh
  <1>5. SlotNotOver' /\ PendingIsServed'
    BY DEF IInv, SlotNotOver, PendingIsServed, StopRequested
  <1> QED
    BY <1>2, <1>4, <1>5 DEF IInv

LEMMA RegisterIInv ==
  ASSUME IInv, NEW g \in Graph, Register(g)
  PROVE  IInv'
  <1>1. pending' \in SUBSET Graph /\ registrations' \in 0..MaxRegistrations
    <2>1. /\ pending' = pending \cup {g}
          /\ \/ registrations' = registrations
             \/ registrations < MaxRegistrations /\ registrations' = registrations + 1
      BY DEF Register
    <2>2. pending \in SUBSET Graph /\ registrations \in 0..MaxRegistrations
      BY DEF IInv, TypeOK
    <2> QED
      BY <2>1, <2>2, BoundAssumption
  <1>2. CASE ~NeedsThread
    <2>1. UNCHANGED <<slot, worker, stop, failures>>
      BY <1>2 DEF Register
    <2>2. TypeOK' /\ BackoffFits' /\ SlotNotOver'
      BY <1>1, <2>1 DEF IInv, TypeOK, BackoffFits, SlotNotOver, StopRequested, At
    <2>3. PendingIsServed'
      <3>1. slot = NoWorker \/ StopRequested \/ (slot \in Worker /\ worker[slot].pc # "off")
        BY DEF IInv, TypeOK, SlotNotOver, At
      <3>2. StopRequested \/ (slot \in Worker /\ worker[slot].pc # "off")
        BY <1>2, <3>1 DEF NeedsThread
      <3>3. StopRequested' = StopRequested /\ worker' = worker
        BY <2>1 DEF StopRequested
      <3> QED
        BY <3>2, <3>3 DEF PendingIsServed, Alive, At
    <2> QED
      BY <2>2, <2>3 DEF IInv
  <1>3. CASE NeedsThread
    <2>1. PICK w \in Worker, pc \in {"loop", "unstarted"} :
            /\ slot' = w
            /\ worker' = [worker EXCEPT ![w] = [Fresh EXCEPT !.pc = pc]]
      BY <1>3 DEF Register
    <2>2. UNCHANGED <<stop, failures>>
      BY DEF Register
    <2>3. [Fresh EXCEPT !.pc = pc] \in State
      BY BoundAssumption DEF Fresh, State, PC
    <2>4. /\ worker'[w] = [Fresh EXCEPT !.pc = pc]
          /\ worker'[w].pc = pc
          /\ \A v \in Worker \ {w} : worker'[v] = worker[v]
      BY <2>1 DEF IInv, TypeOK, Fresh
    <2>5. TypeOK'
      BY <1>1, <2>1, <2>2, <2>3 DEF IInv, TypeOK
    <2>6. BackoffFits'
      BY <2>4 DEF IInv, BackoffFits
    <2>7. SlotNotOver' /\ PendingIsServed'
      BY <2>1, <2>4 DEF SlotNotOver, PendingIsServed, Alive, At
    <2> QED
      BY <2>5, <2>6, <2>7 DEF IInv
  <1> QED
    BY <1>2, <1>3

LEMMA WorkerStepIInv ==
  ASSUME IInv, NEW w \in Worker, WorkerStep(w)
  PROVE  IInv'
  <1>0. worker[w] \in State /\ worker \in [Worker -> State]
    BY DEF IInv, TypeOK
  <1>1. CASE LoopTest(w)
    <2>1. CASE SeesStop
      BY <1>1, <2>1, WorkerEnds DEF LoopTest, SeesStop
    <2>2. CASE ~SeesStop
      <3>1. [worker[w] EXCEPT !.pc = "check"] \in State
        BY <1>0 DEF State, PC
      <3> QED
        BY <1>0, <1>1, <2>2, <3>1, WorkerMoves DEF LoopTest, At, State, IInv, TypeOK
    <2> QED
      BY <2>1, <2>2
  <1>2. CASE CheckPending(w)
    <2>1. CASE pending = {}
      BY <1>2, <2>1, WorkerEnds DEF CheckPending, Retired
    <2>2. CASE pending # {}
      <3> DEFINE pc == IF worker[w].attempt <= MaxAttempt THEN "wait" ELSE "dead"
      <3>1. [worker[w] EXCEPT !.pc = pc] \in State
        BY <1>0 DEF State, PC
      <3> QED
        BY <1>0, <1>2, <2>2, <3>1, WorkerMoves DEF CheckPending, At, State, IInv, TypeOK
    <2> QED
      BY <2>1, <2>2
  <1>3. CASE WaitEnds(w)
    <2>1. CASE SeesStop
      BY <1>3, <2>1, WorkerEnds DEF WaitEnds, SeesStop
    <2>2. CASE ~SeesStop
      <3>1. [worker[w] EXCEPT !.pc = "pass", !.todo = pending] \in State
        BY <1>0 DEF State, PC, IInv, TypeOK
      <3>2. worker[w].attempt <= MaxAttempt
        BY <1>3 DEF WaitEnds, At, IInv, BackoffFits
      <3> QED
        BY <1>0, <1>3, <2>2, <3>1, <3>2, WorkerMoves DEF WaitEnds, At, State, IInv, TypeOK
    <2> QED
      BY <2>1, <2>2
  <1>4. CASE Discard(w)
    <2>1. [worker[w] EXCEPT !.pc = "pass", !.graph = {}] \in State
      BY <1>0 DEF State, PC
    <2>2. worker[w].attempt <= MaxAttempt
      BY <1>4 DEF Discard, At, IInv, BackoffFits
    <2> QED
      BY <1>0, <1>4, <2>1, <2>2, WorkerMoves DEF Discard, At, State, IInv, TypeOK
  <1>5. CASE EndPass(w)
    <2> DEFINE attempt == IF pending = {} THEN 1 ELSE worker[w].attempt + 1
    <2>1. worker[w].attempt <= MaxAttempt /\ worker[w].attempt \in 1..MaxAttempt + 1
      BY <1>0, <1>5 DEF EndPass, At, IInv, BackoffFits, State
    <2>2. attempt \in 1..MaxAttempt + 1
      BY <2>1, BoundAssumption
    <2> HIDE DEF attempt
    <2>3. [worker[w] EXCEPT !.pc = "loop", !.attempt = attempt] \in State
      BY <1>0, <2>2 DEF State, PC
    <2>4. /\ worker' = [worker EXCEPT ![w] = [worker[w] EXCEPT !.pc = "loop", !.attempt = attempt]]
          /\ slot' \in {slot, NoWorker}
          /\ UNCHANGED <<pending, stop, failures, registrations>>
          /\ worker[w].pc # "off"
      BY <1>0, <1>5 DEF EndPass, At, Retired, NextAttempt, attempt
    <2> QED
      BY <1>0, <2>3, <2>4, WorkerMoves DEF State, IInv, TypeOK
  <1>6. CASE \E g \in Graph : GraphDone(w, g)
    <2>1. PICK g \in Graph : GraphDone(w, g)
      BY <1>6
    <2>2. [worker[w] EXCEPT !.pc = "discard", !.todo = @ \ {g}, !.graph = {g}] \in State
      BY <1>0 DEF State, PC
    <2>3. worker[w].attempt <= MaxAttempt
      BY <2>1 DEF GraphDone, At, IInv, BackoffFits
    <2> QED
      BY <1>0, <2>1, <2>2, <2>3, WorkerMoves DEF GraphDone, At, State, IInv, TypeOK
  <1>7. CASE \E g \in Graph : GraphFails(w, g)
    <2>1. PICK g \in Graph : GraphFails(w, g)
      BY <1>7
    <2>2. [worker[w] EXCEPT !.todo = @ \ {g}] \in State
      BY <1>0 DEF State, PC
    <2>3. worker[w].attempt <= MaxAttempt
      BY <2>1 DEF GraphFails, At, IInv, BackoffFits
    <2>4. failures' \in 0..MaxFailures
      BY <2>1, BoundAssumption DEF GraphFails, IInv, TypeOK
    <2> QED
      BY <1>0, <2>1, <2>2, <2>3, <2>4, WorkerMoves DEF GraphFails, At, State, IInv, TypeOK
  <1> QED
    BY <1>1, <1>2, <1>3, <1>4, <1>5, <1>6, <1>7 DEF WorkerStep

LEMMA StopIInv ==
  ASSUME IInv, RequestStop \/ ReadThread \/ Joined
  PROVE  IInv'
  <1>1. /\ UNCHANGED <<pending, slot, worker, failures, registrations>>
        /\ stop' \in Stop
        /\ StopRequested'
    BY DEF RequestStop, ReadThread, Joined, Stop, IInv, TypeOK, StopRequested
  <1> QED
    BY <1>1 DEF IInv, TypeOK, BackoffFits, SlotNotOver, PendingIsServed

LEMMA NextIInv == IInv /\ [Next]_vars => IInv'
  <1> SUFFICES ASSUME IInv, [Next]_vars PROVE IInv'
    OBVIOUS
  <1>1. CASE UNCHANGED vars
    BY <1>1 DEF vars, IInv, TypeOK, BackoffFits, SlotNotOver, PendingIsServed, StopRequested,
                Alive, At
  <1>2. CASE Next
    BY <1>2, RegisterIInv, WorkerStepIInv, StopIInv DEF Next
  <1> QED
    BY <1>1, <1>2

LEMMA Invariance == Spec => []IInv
  BY InitIInv, NextIInv, PTL DEF Spec

\* The state of the reconciler keeps its shape: in particular no backoff is
\* computed beyond the first exponent that overflows, where the thread ends.
THEOREM TypeCorrect == Spec => []TypeOK
  <1>1. IInv => TypeOK
    BY DEF IInv
  <1> QED
    BY <1>1, Invariance, PTL

\* register and _has_pending never lose a graph between them: whatever the
\* number of threads that came to run at once, a pending graph has one left
\* to serve it until the service stops (or a thread died or never started).
THEOREM Served == Spec => []PendingIsServed
  <1>1. IInv => PendingIsServed
    BY DEF IInv
  <1> QED
    BY <1>1, Invariance, PTL
=============================================================================
