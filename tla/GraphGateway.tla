------------------------------ MODULE GraphGateway ------------------------------
(***************************************************************************)
(* The write path of graph_gateway/gateway.py for one graph: submit_group, *)
(* submit_group_in_transaction with StagedSubmission, catch_up, the        *)
(* background reconciler, crash and restart.  Swap sets, the replay gate   *)
(* and the reconciler's thread are modelled in modules of their own.       *)
(*                                                                         *)
(* The log is GraphLogStore, of which only the number of committed entries *)
(* matters here (`head`): positions are 1..head without a gap.             *)
(*                                                                         *)
(* FalkorDB content is abstracted to how far it reflects the log.  Entries *)
(* are set-semantic, so a graph that holds the effect of 1..low, and maybe *)
(* of some of low+1..reach, becomes exactly the graph of the log's prefix  *)
(* 1..reach once low+1..reach are applied (again) in order.  It is exact   *)
(* when low = reach; it is skewed for good once an entry was applied whose *)
(* predecessors were not.                                                  *)
(***************************************************************************)
EXTENDS Integers, FiniteSets

CONSTANTS Writer,       \* request threads that submit groups
          Operator,     \* threads that call catch_up: recover() and administration
          Reconciler,   \* the thread of reconciler.py
          NoThread,     \* nobody holds the graph's in-process lock
          Faults,       \* what the environment may do, a subset of FaultKinds
          MaxAttempts,  \* GatewaySettings.max_attempts
          MaxEntries,   \* bound: entries of one group
          MaxHead       \* bound: positions of the log

FaultKinds == {"graph down",    \* FalkorDB does not answer; it may have applied the query
               "log down",      \* no connection to Postgres
               "write fails",   \* Postgres refuses a write or rolls it back
               "ack lost",      \* a connection dies while the server is committing
               "refused",       \* FalkorDB answers a query with an error
               "crash"}         \* the process stops and is started again

Thread == Writer \cup Operator \cup {Reconciler}

ASSUME ThreadAssumption ==
  /\ NoThread \notin Thread
  /\ Reconciler \notin Writer \cup Operator
  /\ Writer \cap Operator = {}
ASSUME BoundAssumption == MaxAttempts \in Nat \ {0} /\ MaxEntries \in Nat /\ MaxHead \in Nat

VARIABLES head,         \* last committed position
          inDoubt,      \* entries of a transaction whose client is gone and that is not decided yet
          marker,       \* the applied marker
          content,      \* what FalkorDB holds
          checkpoints,  \* recorded digest checkpoints
          lock,         \* holder of the graph's in-process lock
          blocked,      \* the graph is in _blocked
          registered,   \* the graph is in the reconciler's pending set
          thread        \* what each thread is doing

vars == <<head, inDoubt, marker, content, checkpoints, lock, blocked, registered, thread>>
logVars == <<head, inDoubt, marker, checkpoints>>
processVars == <<blocked, registered>>

NoExpectation == -1     \* the group has no ExpectedPosition precondition

PC == {"idle",       \* no call, or the last one ended with `outcome`
       "lock",       \* waits for the in-process lock
       "stage",      \* _stage: blocked? caught up?
       "checks",     \* _stage: allow-list, preconditions, no-op filter
       "append",     \* about to append the effective primitives
       "staged",     \* appended on the caller's transaction, the caller has not committed
       "complete",   \* the caller committed and calls complete()
       "pass",       \* _apply_pending: about to read the marker and the entries beyond it
       "run",        \* _apply_pending: about to apply the next run, or nothing is left
       "mark",       \* _apply_pending: a run is applied, its marker is not written
       "checkpoint", \* about to record the requested digest
       "standing",   \* catch_up: about to read how far the graph stands
       "discard"}    \* reconciler: the pass is done, the graph is about to leave the pending set

Goal == {"none", "write", "commit", "catch up"}   \* what _apply_pending is called for

Outcome == {"none", "applied", "pending", "unchanged", "rejected", "blocked", "unavailable",
            "apply error", "persistence error", "rolled back", "raised", "caught up", "lagging"}

Call == [size : 1..MaxEntries, inTransaction : BOOLEAN, checkpoint : BOOLEAN]

\* `first` and `last` are 0 until the call's group is in the log.
State == [pc : PC, goal : Goal, call : SUBSET Call, expected : Nat \cup {NoExpectation},
          first : Nat, last : Nat, next : Nat, upto : Nat, run : Nat, tries : Nat,
          outcome : Outcome]

Content == [low : Nat, reach : Nat, skewed : BOOLEAN]

Idle == [pc |-> "idle", goal |-> "none", call |-> {}, expected |-> NoExpectation,
         first |-> 0, last |-> 0, next |-> 0, upto |-> 0, run |-> 0, tries |-> 0,
         outcome |-> "none"]

At(t, pc) == thread[t].pc = pc

Move(t, pc) == thread' = [thread EXCEPT ![t].pc = pc]

CallOf(w) == CHOOSE c \in thread[w].call : TRUE

(***************************************************************************)
(* The call of t ends: the `with lock` block is left.  The reconciler then *)
(* drops the graph when it is caught up or refused (_reconcile is True).   *)
(***************************************************************************)
LeavesAfterEveryPass(outcome) == TRUE   \* mutant: one try per registration

LeavesPendingSet(outcome) == outcome \in {"caught up", "apply error"}

Return(t, outcome) ==
  /\ lock' = NoThread
  /\ thread' = [thread EXCEPT ![t] =
       [Idle EXCEPT !.pc = IF t = Reconciler /\ LeavesPendingSet(outcome) THEN "discard" ELSE "idle",
                    !.expected = IF thread[t].first = 0 THEN NoExpectation ELSE thread[t].expected,
                    !.first = thread[t].first, !.last = thread[t].last, !.outcome = outcome]]

-----------------------------------------------------------------------------
(***************************************************************************)
(* Calls.  A caller that states an ExpectedPosition prepared its group     *)
(* against the position the log had then.                                  *)
(***************************************************************************)
Submit(w, call, expected) ==
  /\ At(w, "idle")
  /\ thread' = [thread EXCEPT ![w] =
       [Idle EXCEPT !.pc = "lock", !.call = {call}, !.expected = expected]]
  /\ UNCHANGED <<logVars, content, lock, processVars>>

\* catch_up, from recover() or an operator.
CatchUp(o) ==
  /\ At(o, "idle")
  /\ thread' = [thread EXCEPT ![o] = [Idle EXCEPT !.pc = "lock"]]
  /\ UNCHANGED <<logVars, content, lock, processVars>>

\* One pass of the reconciler for this graph.
Reconcile ==
  /\ registered
  /\ At(Reconciler, "idle")
  /\ thread' = [thread EXCEPT ![Reconciler] = [Idle EXCEPT !.pc = "lock"]]
  /\ UNCHANGED <<logVars, content, lock, processVars>>

Discard ==
  /\ At(Reconciler, "discard")
  /\ registered' = FALSE
  /\ Move(Reconciler, "idle")
  /\ UNCHANGED <<logVars, content, lock, blocked>>

LockIgnored == TRUE             \* mutant: no common in-process lock (two processes on one graph)

LockIsFree == lock = NoThread

StartPass(t, goal) ==
  thread' = [thread EXCEPT ![t].pc = "pass", ![t].goal = goal, ![t].tries = 1]

Acquire(t) ==
  /\ At(t, "lock")
  /\ LockIsFree
  /\ lock' = t
  /\ IF t \in Writer THEN Move(t, "stage") ELSE StartPass(t, "catch up")
  /\ UNCHANGED <<logVars, content, processVars>>

-----------------------------------------------------------------------------
(***************************************************************************)
(* _stage, first part: _require_not_blocked and _catch_up_before_write.    *)
(***************************************************************************)
MarkerLagsUnchecked == FALSE    \* mutant: the write goes ahead while entries are unapplied

MarkerLags == marker # head

Stage(w) ==
  /\ At(w, "stage")
  /\ UNCHANGED <<logVars, content, processVars>>
  /\ \/ blocked /\ Return(w, "blocked")
     \/ ~blocked /\ "log down" \in Faults /\ Return(w, "unavailable")
     \/ ~blocked /\ MarkerLags /\ StartPass(w, "write") /\ UNCHANGED lock
     \/ ~blocked /\ ~MarkerLags /\ Move(w, "checks") /\ UNCHANGED lock

(***************************************************************************)
(* _stage, second part: validate_group and require_preconditions (which    *)
(* may reject), then the read of the live graph for the no-op filter.  An  *)
(* error of that read surfaces as GraphApplyError with nothing blocked.    *)
(***************************************************************************)
AnyPosition(w) == TRUE          \* mutant: the precondition is not evaluated

AsExpected(w) == thread[w].expected \in {NoExpectation, head}

Checks(w) ==
  /\ At(w, "checks")
  /\ UNCHANGED <<logVars, content, processVars>>
  /\ \/ Return(w, "rejected")
     \/ /\ AsExpected(w)
        /\ \/ Faults \cap {"graph down", "log down"} # {} /\ Return(w, "unavailable")
           \/ "refused" \in Faults /\ Return(w, "apply error")
           \/ Return(w, "unchanged")
           \/ /\ head + inDoubt + CallOf(w).size <= MaxHead
              /\ Move(w, "append")
              /\ UNCHANGED lock

(***************************************************************************)
(* The append.  It waits for the graph's advisory lock, which a connection *)
(* in doubt still holds.  GraphLogPersistenceError is never retried.       *)
(***************************************************************************)
Logged(w, pc) ==
  /\ head' = head + CallOf(w).size
  /\ thread' = [thread EXCEPT ![w].pc = pc, ![w].first = head + 1,
                              ![w].last = head + CallOf(w).size,
                              ![w].goal = "commit", ![w].tries = 1]
  /\ UNCHANGED <<inDoubt, lock>>

InDoubt(w, outcome) ==
  /\ "ack lost" \in Faults
  /\ inDoubt' = CallOf(w).size
  /\ Return(w, outcome)
  /\ UNCHANGED head

Append(w) ==
  /\ At(w, "append")
  /\ inDoubt = 0
  /\ UNCHANGED <<marker, content, checkpoints, processVars>>
  /\ \/ "log down" \in Faults /\ Return(w, "unavailable") /\ UNCHANGED <<head, inDoubt>>
     \/ "write fails" \in Faults /\ Return(w, "persistence error") /\ UNCHANGED <<head, inDoubt>>
     \/ ~CallOf(w).inTransaction /\ (Logged(w, "pass") \/ InDoubt(w, "persistence error"))
     \/ CallOf(w).inTransaction /\ Move(w, "staged") /\ UNCHANGED <<head, inDoubt, lock>>

(***************************************************************************)
(* StagedSubmission: the caller commits and calls complete(), or leaves    *)
(* the `with` block, which releases the lock and applies nothing.          *)
(***************************************************************************)
CallerEnds(w) ==
  /\ At(w, "staged")
  /\ UNCHANGED <<marker, content, checkpoints, processVars>>
  /\ \/ Logged(w, "complete")
     \/ InDoubt(w, "rolled back")
     \/ Return(w, "rolled back") /\ UNCHANGED <<head, inDoubt>>

\* _finish_staged reads the last position without the retry guard.
Complete(w) ==
  /\ At(w, "complete")
  /\ UNCHANGED <<logVars, content, processVars>>
  /\ \/ "log down" \in Faults /\ Return(w, "raised")
     \/ Move(w, "pass") /\ UNCHANGED lock

\* The server decides a transaction whose client is gone.
DecidedTwice(commits) == IF commits THEN head + inDoubt ELSE head - inDoubt     \* mutant: a rollback undoes rows it never wrote

Decided(commits) == IF commits THEN head + inDoubt ELSE head

Decide(commits) ==
  /\ inDoubt > 0
  /\ head' = Decided(commits)
  /\ inDoubt' = 0
  /\ UNCHANGED <<marker, content, checkpoints, lock, processVars, thread>>

-----------------------------------------------------------------------------
(***************************************************************************)
(* _apply_pending.  A failed try starts over from the marker; past the     *)
(* budget each caller does something else with the failure.                *)
(***************************************************************************)
\* _apply_pending is over.
Leave(t, pc) ==
  /\ thread' = [thread EXCEPT ![t].pc = pc, ![t].goal = "none", ![t].next = 0, ![t].upto = 0,
                              ![t].run = 0, ![t].tries = 0]
  /\ UNCHANGED lock

Registers(goal, why) == registered \/ goal = "commit" \/ why = "graph down"

GiveUp(t, why) ==
  LET goal == thread[t].goal
  IN  /\ registered' = Registers(goal, why)
      /\ CASE goal = "commit" -> Return(t, "pending")
           [] goal = "catch up" /\ why = "graph down" -> Leave(t, "standing")
           [] OTHER -> Return(t, "unavailable")

MayRetryForEver(t) == TRUE      \* mutant: no retry budget

MayRetry(t) == thread[t].tries < MaxAttempts

Retry(t, why) ==
  IF MayRetry(t)
  THEN /\ thread' = [thread EXCEPT ![t].pc = "pass", ![t].tries = IF @ < MaxAttempts THEN @ + 1 ELSE @]
       /\ UNCHANGED <<lock, registered>>
  ELSE GiveUp(t, why)

PassEndBeforeGroup(t) ==        \* mutant: the pass stops ahead of the group just committed
  IF thread[t].goal = "commit" THEN thread[t].first - 1 ELSE head

PassEnd(t) == head

Pass(t) ==
  /\ At(t, "pass")
  /\ UNCHANGED <<logVars, content, blocked>>
  /\ \/ /\ thread' = [thread EXCEPT ![t].pc = "run", ![t].next = marker + 1, ![t].upto = PassEnd(t),
                                    ![t].run = 0]
        /\ UNCHANGED <<lock, registered>>
     \/ "log down" \in Faults /\ Retry(t, "log down")

\* The content after the run a..b, and after a run that failed somewhere.
Applied(c, a, b, low) ==
  [low |-> low, reach |-> IF b > c.reach THEN b ELSE c.reach, skewed |-> c.skewed \/ c.low < a - 1]

RunApplied(t, b) ==
  /\ content' = Applied(content, thread[t].next, b, b)
  /\ thread' = [thread EXCEPT ![t].pc = "mark", ![t].run = b]
  /\ UNCHANGED <<logVars, lock, processVars>>

RunFailed(t, b) ==
  /\ content' \in {content, Applied(content, thread[t].next, b, thread[t].next - 1)}
  /\ UNCHANGED logVars
  /\ \/ "graph down" \in Faults /\ Retry(t, "graph down") /\ UNCHANGED blocked
     \/ /\ "refused" \in Faults
        /\ blocked' = TRUE
        /\ Return(t, "apply error")
        /\ UNCHANGED registered

\* Nothing is left to apply: the graph is unblocked and the caller goes on.
NothingLeft(t) ==
  /\ thread[t].next > thread[t].upto
  /\ blocked' = FALSE
  /\ UNCHANGED <<logVars, content, registered>>
  /\ CASE thread[t].goal = "write" -> Leave(t, "checks")
       [] thread[t].goal = "catch up" -> Leave(t, "standing")
       [] OTHER -> IF CallOf(t).checkpoint THEN Leave(t, "checkpoint") ELSE Return(t, "applied")

Run(t) ==
  /\ At(t, "run")
  /\ \/ NothingLeft(t)
     \/ \E b \in thread[t].next..thread[t].upto : RunApplied(t, b) \/ RunFailed(t, b)

MarkWholePass(t) == thread[t].upto      \* mutant: the marker is advanced once, on the first run

MarkRun(t) == thread[t].run

Advanced(t) == IF marker < MarkRun(t) THEN MarkRun(t) ELSE marker

Mark(t) ==
  /\ At(t, "mark")
  /\ UNCHANGED <<head, inDoubt, checkpoints, content, blocked>>
  /\ \/ /\ marker' = Advanced(t)
        /\ thread' = [thread EXCEPT ![t].pc = "run", ![t].next = thread[t].run + 1,
                                    ![t].run = 0]
        /\ UNCHANGED <<lock, registered>>
     \/ "log down" \in Faults /\ Retry(t, "log down") /\ UNCHANGED marker
     \/ /\ \/ "write fails" \in Faults /\ UNCHANGED marker
           \/ "ack lost" \in Faults /\ marker' = Advanced(t)
        /\ Return(t, "persistence error")
        /\ UNCHANGED registered

\* _record_checkpoint: a failure is logged, the group stays applied.
RecordCheckpoint(w) ==
  /\ At(w, "checkpoint")
  /\ \/ checkpoints' = checkpoints \cup {[position |-> thread[w].last, digest |-> content]}
     \/ Faults # {} /\ UNCHANGED checkpoints
  /\ Return(w, "applied")
  /\ UNCHANGED <<head, inDoubt, marker, content, processVars>>

\* _standing, still under the lock.
Standing(t) ==
  /\ At(t, "standing")
  /\ UNCHANGED <<logVars, content, processVars>>
  /\ \/ Return(t, IF marker = head THEN "caught up" ELSE "lagging")
     \/ "log down" \in Faults /\ Return(t, "unavailable")

(***************************************************************************)
(* The process stops and starts again: locks, _blocked and the pending set *)
(* are gone, an open transaction of a caller is rolled back.               *)
(***************************************************************************)
Crash ==
  /\ "crash" \in Faults
  /\ \E t \in Thread : ~At(t, "idle")
  /\ lock' = NoThread
  /\ blocked' = FALSE
  /\ registered' = FALSE
  /\ thread' = [t \in Thread |-> IF At(t, "idle") THEN thread[t] ELSE Idle]
  /\ UNCHANGED <<logVars, content>>

-----------------------------------------------------------------------------
Init ==
  /\ head = 0
  /\ inDoubt = 0
  /\ marker = 0
  /\ content = [low |-> 0, reach |-> 0, skewed |-> FALSE]
  /\ checkpoints = {}
  /\ lock = NoThread
  /\ blocked = FALSE
  /\ registered = FALSE
  /\ thread = [t \in Thread |-> Idle]

ApplyStep(t) == Pass(t) \/ Run(t) \/ Mark(t)

WriterStep(w) ==
  Stage(w) \/ Checks(w) \/ Append(w) \/ CallerEnds(w) \/ Complete(w) \/ RecordCheckpoint(w)

Next ==
  \/ \E w \in Writer : (\E c \in Call, e \in {NoExpectation, head} : Submit(w, c, e)) \/ WriterStep(w)
  \/ \E o \in Operator : CatchUp(o)
  \/ \E t \in Thread : Acquire(t) \/ ApplyStep(t) \/ Standing(t)
  \/ Reconcile \/ Discard
  \/ \E commits \in BOOLEAN : Decide(commits)
  \/ Crash

Spec == Init /\ [][Next]_vars

(***************************************************************************)
(* Fairness.  A running thread goes on.  threading.Lock has no queue, but  *)
(* a waiter is not passed over for ever by an OS scheduler (SF).  The      *)
(* server decides every abandoned transaction.                             *)
(***************************************************************************)
Scheduling ==
  /\ \A t \in Thread : SF_vars(Acquire(t)) /\ WF_vars(ApplyStep(t) \/ Standing(t))
  /\ \A w \in Writer : WF_vars(WriterStep(w))
  /\ WF_vars(Reconcile)
  /\ WF_vars(Discard)
  /\ WF_vars(\E commits \in BOOLEAN : Decide(commits))

FairSpec == Spec /\ Scheduling

(***************************************************************************)
(* "On recovery": FalkorDB and Postgres do not fail for ever, so a step    *)
(* the reconciler tries again and again succeeds at some time.             *)
(***************************************************************************)
Recovery ==
  LET t == Reconciler
  IN  /\ SF_vars(Pass(t) /\ thread'[t].pc = "run")
      /\ SF_vars(\E b \in 1..MaxHead :
                   At(t, "run") /\ b \in thread[t].next..thread[t].upto /\ RunApplied(t, b))
      /\ SF_vars(Mark(t) /\ thread'[t].pc = "run")

RecoverySpec == FairSpec /\ Recovery

-----------------------------------------------------------------------------
TypeOK ==
  /\ head \in Nat
  /\ inDoubt \in Nat
  /\ marker \in Nat
  /\ content \in Content
  /\ checkpoints \subseteq [position : Nat, digest : Content]
  /\ lock \in Thread \cup {NoThread}
  /\ blocked \in BOOLEAN
  /\ registered \in BOOLEAN
  /\ thread \in [Thread -> State]

(***************************************************************************)
(* The marker never claims more than FalkorDB holds, in every state and so *)
(* after a crash at any point: the graph reflects the log at least through *)
(* the marker, and what lies beyond it is in the log and will be applied   *)
(* again in order.  With marker = head the graph is exactly the log's.     *)
(***************************************************************************)
MarkerTruthful ==
  /\ ~content.skewed
  /\ marker <= content.low /\ content.low <= content.reach /\ content.reach <= head

(***************************************************************************)
(* A caller that was told `applied` finds its group in the graph, and      *)
(* keeps finding it: no crash, retry or later writer takes it back out of  *)
(* what the marker covers.                                                 *)
(***************************************************************************)
AppliedStaysApplied ==
  \A w \in Writer : thread[w].outcome = "applied" => thread[w].last <= marker

(***************************************************************************)
(* A checkpoint is the digest of exactly the log's prefix that ends at its *)
(* position (replay fails closed on a checkpoint that is not).             *)
(***************************************************************************)
CheckpointsExact ==
  \A c \in checkpoints :
    c.digest = [low |-> c.position, reach |-> c.position, skewed |-> FALSE]

(***************************************************************************)
(* Nothing is accepted on top of unapplied or refused entries: a group is  *)
(* logged by a submission only when the graph is not blocked and holds all *)
(* that is logged.  Stated without connections in doubt.                   *)
(***************************************************************************)
AcceptedOnlyWhenApplied ==
  [][head' # head => (marker = head /\ ~blocked)]_vars

(***************************************************************************)
(* The gateway uses the log of its graph the way GraphLog describes it:    *)
(* whatever fails, its commits only add positions and its marker never     *)
(* passes them.                                                            *)
(***************************************************************************)
TheGraph == 1

Log == INSTANCE GraphLog WITH Graph <- {TheGraph}, head <- [g \in {TheGraph} |-> head],
                              marker <- [g \in {TheGraph} |-> marker]

ImplementsGraphLog == Log!Spec

(***************************************************************************)
(* models.py: preconditions are "Conditions that must hold when the group  *)
(* is logged": the group of an ExpectedPosition p starts at p + 1.         *)
(***************************************************************************)
PreconditionHoldsWhenLogged ==
  \A w \in Writer :
    thread[w].first # 0 => thread[w].expected \in {NoExpectation, thread[w].first - 1}

(***************************************************************************)
(* Why MarkerTruthful and CheckpointsExact hold: what a thread knows of    *)
(* itself, and what it may rely on while it holds the graph's lock.  Once  *)
(* a group is logged no transaction is in doubt and the log ends with the  *)
(* group, until the lock is released.                                      *)
(***************************************************************************)
Holding == PC \ {"idle", "lock", "discard"}

OwnState(t) ==
  LET x == thread[t]
  IN  /\ x.last <= head
      /\ x.outcome = "applied" => x.last <= marker
      /\ x.pc \notin {"idle", "discard"} => x.outcome = "none"
      /\ x.pc \in {"pass", "run", "mark"} => x.goal \in {"write", "commit", "catch up"}
      /\ x.goal = "commit" => x.pc \in {"complete", "pass", "run", "mark"}
      /\ x.pc = "complete" => x.goal = "commit"
      /\ (t \in Writer /\ x.pc # "idle") => x.call # {}

UnderLock(t) ==
  LET x == thread[t]
  IN  x.pc \in Holding =>
        /\ lock = t
        /\ (x.goal = "commit" \/ x.pc \in {"staged", "checkpoint"}) => inDoubt = 0
        /\ (x.goal = "commit" \/ x.pc = "checkpoint") => x.last = head
        /\ x.pc = "checkpoint" => marker = head
        /\ x.pc \in {"run", "mark"} =>
             /\ x.next = marker + 1
             /\ x.upto <= head
             /\ x.goal = "commit" => x.upto = x.last
        /\ x.pc = "mark" => x.next <= x.run /\ x.run <= x.upto /\ x.run <= content.low

ApplyInv == \A t \in Thread : OwnState(t) /\ UnderLock(t)

(***************************************************************************)
(* Why nothing is accepted out of turn when no transaction is ever in      *)
(* doubt: from the lag check to the append the lock keeps the graph        *)
(* unblocked and caught up, and a precondition true.                       *)
(***************************************************************************)
InTurn(t) ==
  LET x == thread[t]
  IN  /\ x.pc \in {"run", "mark"} => x.upto = head
      /\ x.pc \in {"checks", "append", "staged"} => marker = head /\ ~blocked
      /\ x.pc \in {"append", "staged"} => x.expected \in {NoExpectation, head}
      /\ x.first # 0 => x.expected \in {NoExpectation, x.first - 1}

OrderInv == inDoubt = 0 /\ \A t \in Thread : InTurn(t)

(***************************************************************************)
(* Every call ends and releases the lock, whatever fails on the way: no    *)
(* writer is shut out of its graph for ever.                               *)
(***************************************************************************)
CallsEnd == \A t \in Thread : At(t, "lock") ~> At(t, "idle")

(***************************************************************************)
(* A lagging graph the reconciler knows of is applied or blocked by an     *)
(* entry FalkorDB refuses, unless its group became pending between the end *)
(* of the reconciler's pass over the graph and its discard.  It says so    *)
(* "on recovery" only.                                                     *)
(***************************************************************************)
RegisteredLate ==
  At(Reconciler, "discard") /\ thread[Reconciler].outcome \in {"caught up", "apply error"}

EventuallyApplied ==
  Recovery => (registered /\ marker # head) ~> (marker = head \/ blocked \/ RegisteredLate)

(***************************************************************************)
(* What reconciler.py and the architecture document say: a graph leaves    *)
(* the pending set only when it is caught up or refused, and the entries   *)
(* of a registered graph are applied on recovery.                          *)
(***************************************************************************)
PendingIsApplied == (registered /\ marker # head) ~> (marker = head \/ blocked)

====
