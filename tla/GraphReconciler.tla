---------------------------- MODULE GraphReconciler ----------------------------
(***************************************************************************)
(* graph_gateway/reconciler.py: the pending set, the lazily started thread *)
(* that retries catch_up for every pending graph, and stop().  GraphGateway*)
(* models what one catch_up does to one graph; here it either takes the    *)
(* graph out of the pending set (caught up or refused) or fails.  What is  *)
(* at stake is the thread: who starts it, who serves the pending graphs    *)
(* and what a shutdown may rely on.                                        *)
(***************************************************************************)
EXTENDS Integers

CONSTANTS Graph,
          Worker,           \* thread objects register() may create
          NoWorker,         \* `_thread is None`
          StartMayFail,     \* the operating system may refuse a new thread
          MaxAttempt,       \* the last attempt whose backoff is a finite float
          MaxFailures,      \* bound: failed catch_up calls
          MaxRegistrations  \* bound: calls of register before the stop

ASSUME WorkerAssumption == NoWorker \notin Worker
ASSUME FlagAssumption == StartMayFail \in BOOLEAN
ASSUME BoundAssumption ==
  /\ MaxAttempt \in Nat \ {0}
  /\ MaxFailures \in Nat
  /\ MaxRegistrations \in Nat

VARIABLES pending,        \* _pending
          slot,           \* _thread
          worker,         \* what each thread object is doing
          stop,           \* how far the call of stop() is; _stop_event is set once it began
          failures,       \* catch_up calls that failed so far
          registrations   \* calls of register before the stop so far

vars == <<pending, slot, worker, stop, failures, registrations>>

PC == {"off",        \* not created, or over
       "loop",       \* `while not self._stop_event.is_set()`
       "check",      \* about to take the lock in _has_pending
       "wait",       \* backing off
       "pass",       \* between two graphs of a pass
       "discard",    \* catch_up of `graph` is done, _discard is not
       "dead",       \* ended by an exception
       "unstarted"}  \* start() raised

State == [pc : PC, todo : SUBSET Graph, graph : SUBSET Graph, attempt : 1..MaxAttempt + 1]

Fresh == [pc |-> "off", todo |-> {}, graph |-> {}, attempt |-> 1]

Stop == [pc : {"none", "set", "join", "ended", "abandoned", "raised"},
         joined : Worker \cup {NoWorker}]

StopRequested == stop.pc # "none"

\* The thread still runs its loop.
Alive(w) == worker[w].pc \notin {"off", "dead", "unstarted"}

At(w, pc) == worker[w].pc = pc

-----------------------------------------------------------------------------
(***************************************************************************)
(* register: under the lock, add the graph and start a thread when _thread *)
(* is None and no stop is requested.                                       *)
(***************************************************************************)
NeedsThread == slot = NoWorker /\ ~StopRequested

Register(g) ==
  /\ \/ StopRequested /\ UNCHANGED registrations
     \/ ~StopRequested /\ registrations < MaxRegistrations /\ registrations' = registrations + 1
  /\ pending' = pending \cup {g}
  /\ \/ /\ NeedsThread
        /\ \E w \in Worker, pc \in {"loop"} \cup (IF StartMayFail THEN {"unstarted"} ELSE {}) :
             /\ At(w, "off")
             /\ slot' = w
             /\ worker' = [worker EXCEPT ![w] = [Fresh EXCEPT !.pc = pc]]
     \/ /\ ~NeedsThread
        /\ UNCHANGED <<slot, worker>>
  /\ UNCHANGED <<stop, failures>>

-----------------------------------------------------------------------------
(***************************************************************************)
(* The thread.  _has_pending retires it under the lock when nothing is     *)
(* pending: `_thread` is cleared, whichever thread it names.               *)
(***************************************************************************)
RetiredKeepsSlot == slot   \* mutant: _has_pending returns False and leaves _thread

Retired == NoWorker

SeesNoStop == FALSE   \* mutant: the loop and the wait watch another event

SeesStop == StopRequested

LoopTest(w) ==
  /\ At(w, "loop")
  /\ worker' = [worker EXCEPT ![w] = IF SeesStop THEN Fresh ELSE [@ EXCEPT !.pc = "check"]]
  /\ UNCHANGED <<pending, slot, stop, failures, registrations>>

\* The float power in backoff_seconds overflows and raises, outside the
\* try of _reconcile, once the attempt number is too large.
CheckPending(w) ==
  /\ At(w, "check")
  /\ \/ /\ pending # {}
        /\ worker' = [worker EXCEPT ![w].pc =
                        IF worker[w].attempt <= MaxAttempt THEN "wait" ELSE "dead"]
        /\ UNCHANGED slot
     \/ /\ pending = {}
        /\ slot' = Retired
        /\ worker' = [worker EXCEPT ![w] = Fresh]
  /\ UNCHANGED <<pending, stop, failures, registrations>>

\* The wait ends: by the stop event, or by its timeout, and then the pass
\* takes its snapshot of the pending set.
WaitEnds(w) ==
  /\ At(w, "wait")
  /\ worker' = [worker EXCEPT ![w] =
                  IF SeesStop THEN Fresh ELSE [@ EXCEPT !.pc = "pass", !.todo = pending]]
  /\ UNCHANGED <<pending, slot, stop, failures, registrations>>

\* _reconcile found the graph caught up, or refused.
GraphDone(w, g) ==
  /\ At(w, "pass")
  /\ g \in worker[w].todo
  /\ worker' = [worker EXCEPT ![w].pc = "discard", ![w].todo = @ \ {g}, ![w].graph = {g}]
  /\ UNCHANGED <<pending, slot, stop, failures, registrations>>

\* _reconcile caught an outage, or any other exception: the graph stays.
GraphFails(w, g) ==
  /\ At(w, "pass")
  /\ g \in worker[w].todo
  /\ failures < MaxFailures
  /\ failures' = failures + 1
  /\ worker' = [worker EXCEPT ![w].todo = @ \ {g}]
  /\ UNCHANGED <<pending, slot, stop, registrations>>

Discard(w) ==
  /\ At(w, "discard")
  /\ pending' = pending \ worker[w].graph
  /\ worker' = [worker EXCEPT ![w].pc = "pass", ![w].graph = {}]
  /\ UNCHANGED <<slot, stop, failures, registrations>>

NextAttemptSkips(attempt) == attempt + 2   \* mutant: counted twice

NextAttempt(attempt) == IF pending = {} THEN 1 ELSE attempt + 1

\* `attempt = attempt + 1 if self._has_pending() else 1`, then the loop
\* goes on, retired or not.
EndPass(w) ==
  /\ At(w, "pass")
  /\ worker[w].todo = {}
  /\ slot' = IF pending = {} THEN Retired ELSE slot
  /\ worker' = [worker EXCEPT ![w].pc = "loop", ![w].attempt = NextAttempt(worker[w].attempt)]
  /\ UNCHANGED <<pending, stop, failures, registrations>>

WorkerStep(w) ==
  \/ LoopTest(w) \/ CheckPending(w) \/ WaitEnds(w) \/ Discard(w) \/ EndPass(w)
  \/ \E g \in Graph : GraphDone(w, g) \/ GraphFails(w, g)

-----------------------------------------------------------------------------
(***************************************************************************)
(* stop(timeout), called once, at shutdown.                                *)
(***************************************************************************)
RequestStop ==
  /\ stop.pc = "none"
  /\ stop' = [stop EXCEPT !.pc = "set"]
  /\ UNCHANGED <<pending, slot, worker, failures, registrations>>

ReadThread ==
  /\ stop.pc = "set"
  /\ stop' = [pc |-> IF slot = NoWorker THEN "ended" ELSE "join", joined |-> slot]
  /\ UNCHANGED <<pending, slot, worker, failures, registrations>>

\* join returns when the thread is over or the timeout has passed; joining
\* a thread that was never started raises.
Joined ==
  /\ stop.pc = "join"
  /\ \/ stop' = [stop EXCEPT !.pc = "ended"] /\ ~Alive(stop.joined) /\ ~At(stop.joined, "unstarted")
     \/ stop' = [stop EXCEPT !.pc = "abandoned"] /\ Alive(stop.joined)
     \/ stop' = [stop EXCEPT !.pc = "raised"] /\ At(stop.joined, "unstarted")
  /\ UNCHANGED <<pending, slot, worker, failures, registrations>>

-----------------------------------------------------------------------------
Init ==
  /\ pending = {}
  /\ slot = NoWorker
  /\ worker = [w \in Worker |-> Fresh]
  /\ stop = [pc |-> "none", joined |-> NoWorker]
  /\ failures = 0
  /\ registrations = 0

Next ==
  \/ \E g \in Graph : Register(g)
  \/ \E w \in Worker : WorkerStep(w)
  \/ RequestStop \/ ReadThread \/ Joined

Spec == Init /\ [][Next]_vars

(***************************************************************************)
(* A thread that can go on does: the wait has a timeout and every client   *)
(* call catch_up makes is bounded.  Nobody has to register a graph or to   *)
(* stop the service.                                                       *)
(***************************************************************************)
FairSpec == Spec /\ \A w \in Worker : WF_vars(WorkerStep(w))

-----------------------------------------------------------------------------
\* The shape of the state, with the backoff exponent never past the first
\* one that overflows.
TypeOK ==
  /\ pending \in SUBSET Graph
  /\ slot \in Worker \cup {NoWorker}
  /\ worker \in [Worker -> State]
  /\ stop \in Stop
  /\ failures \in 0..MaxFailures
  /\ registrations \in 0..MaxRegistrations

(***************************************************************************)
(* reconciler.py retires the thread under the lock that register takes, so *)
(* a graph is never added behind the back of the last thread: while one is *)
(* pending and no stop is requested, a thread runs that will look at the   *)
(* pending set again, unless a thread died or never started.               *)
(***************************************************************************)
PendingIsServed ==
  pending # {} /\ ~StopRequested =>
    \E w \in Worker : Alive(w) \/ At(w, "dead") \/ At(w, "unstarted")

(***************************************************************************)
(* A registered graph is retried until it is caught up or refused (the     *)
(* class docstring of GraphReconciler), unless the service stops.          *)
(***************************************************************************)
EveryGraphLeaves == \A g \in Graph : g \in pending ~> g \notin pending \/ StopRequested

\* The same, up to a thread that died of its backoff or never started.
Lost == \E w \in Worker : At(w, "dead") \/ At(w, "unstarted")

GraphsLeaveUnlessLost == \A g \in Graph : g \in pending ~> g \notin pending \/ StopRequested \/ Lost

(***************************************************************************)
(* After stop() every thread ends, the ones it does not wait for included: *)
(* a pass under way is finished, no other one follows.                     *)
(***************************************************************************)
StopEndsEveryThread == StopRequested ~> [](\A w \in Worker : ~Alive(w))

(***************************************************************************)
(* What reconciler.py says and does not do.                                *)
(* register "starts a daemon thread unless one runs": two threads never    *)
(* run at once.                                                            *)
(***************************************************************************)
AtMostOneThread == \A v, w \in Worker : Alive(v) /\ Alive(w) => v = w
=============================================================================
