------------------------------- MODULE SwapSets -------------------------------
(***************************************************************************)
(* Groups over several graphs: submit_multi_graph_group of                 *)
(* graph_gateway/gateway.py with its lock_all (graph_locks.py), the swap   *)
(* of staged copies (swap.py), the catch_up that completes a swap set as   *)
(* one unit, blocked units, and submit_group beside them.  GraphGateway    *)
(* has the details of one graph (retries inside a call, checkpoints, runs  *)
(* of entries); here every group is one entry.                             *)
(*                                                                         *)
(* FalkorDB content is the last position whose effect a graph shows.       *)
(* Entries before it are shown too, and applying them again changes        *)
(* nothing once the pass is over.  The reconciler is a thread that calls   *)
(* catch_up; it may do so for any graph at any time, so its pending set    *)
(* (GraphReconciler) is not repeated.                                      *)
(***************************************************************************)
EXTENDS Integers, Sequences, FiniteSets, FiniteSetsExt

CONSTANTS Graph,         \* graphs, numbered in the order of their names
          Writer,        \* threads that submit groups
          Repairer,      \* threads that call catch_up or replay_graph
          NoThread,      \* nobody holds the in-process lock
          Faults,        \* what the environment may do, a subset of FaultKinds
          MaxAttempts,   \* GatewaySettings.max_attempts, for a refused rename
          UnitAttempts,  \* _UNIT_ATTEMPTS
          MaxSets,       \* bound: swap sets
          MaxLog         \* bound: positions of one graph's log

FaultKinds == {"graph down",   \* FalkorDB does not answer; it may have done what was asked
               "log down",     \* no connection to Postgres
               "write fails",  \* Postgres refuses a write
               "refused",      \* FalkorDB answers a query with an error
               "conflict",     \* something outside the gateway touches a watched key
               "replay",       \* an operator rebuilds a graph with replay_graph
               "crash"}        \* the process stops and is started again

Thread == Writer \cup Repairer

ASSUME SwapAssumption ==
  /\ Graph \subseteq Nat /\ IsFiniteSet(Graph)
  /\ NoThread \notin Thread
  /\ Writer \cap Repairer = {}
  /\ MaxAttempts \in Nat \ {0} /\ UnitAttempts \in Nat \ {0} /\ MaxSets \in Nat /\ MaxLog \in Nat

VARIABLES log,       \* of each graph: the swap set of each entry, 0 for an entry of no swap set
          marker,    \* of each graph: the applied marker
          live,      \* of each graph: the last position it shows
          lock,      \* of each graph: holder of the in-process lock
          blocked,   \* _blocked
          unit,      \* _blocked_units: of each graph the legs it is blocked with, {} if none
          gated,     \* graphs closed by a replay
          onTheirOwn,\* history: the sets a leg of which a replay rebuilt in place
          thread     \* what each thread is doing

vars == <<log, marker, live, lock, blocked, unit, gated, onTheirOwn, thread>>
dbVars == <<log, marker, onTheirOwn>>
gateVars == <<blocked, unit, gated>>

Mode == {"none", "single", "in place", "swap", "catch up", "replay"}

PC == {"idle",    \* no call
       "first",   \* _resolve_unit: about to read the marker and the first pending swap group
       "legs",    \* _resolve_unit: about to read the set's legs and their markers
       "lock",    \* takes the next of the locks it wants
       "stage",   \* _stage of a leg: open? blocked? caught up?
       "checks",  \* _stage of a leg: preconditions, no-op filter
       "append",  \* about to log what changes
       "pass",    \* _apply_pending: about to read the entries beyond the marker
       "apply",   \* _apply_pending: about to apply the next entry
       "mark",    \* _apply_pending: an entry is applied, its marker is not written
       "entries", \* SwapApplier.apply: about to read the pending entries of the legs
       "copies",  \* a try: about to watch, copy and apply to the copies
       "flip",    \* a try: about to rename the copies over the live graphs
       "advance", \* the rename is done, markers are not written
       "rebuild", \* replay_graph, under the lock
       "release"} \* replay_graph: the gate is open again, _release_replayed_leg is next

Goal == {"none", "stage", "commit", "repair"}   \* what _apply_pending is called for

State == [pc : PC, mode : Mode, goal : Goal, at : Graph \cup {0}, want : SUBSET Graph,
          todo : SUBSET Graph, legs : SUBSET Graph, set : 0..MaxSets, sure : BOOLEAN,
          upto : [Graph -> Nat], tries : Nat]

Idle == [pc |-> "idle", mode |-> "none", goal |-> "none", at |-> 0, want |-> {}, todo |-> {},
         legs |-> {}, set |-> 0, sure |-> FALSE, upto |-> [g \in Graph |-> 0], tries |-> 0]

At(t, pc) == thread[t].pc = pc

Move(t, pc) == thread' = [thread EXCEPT ![t].pc = pc]

Leg(t) == Min(thread[t].todo)

Held(t) == {g \in Graph : lock[g] = t}

(***************************************************************************)
(* What the log says.                                                      *)
(***************************************************************************)
HeadOf(g) == Len(log[g])

Lags(g) == marker[g] # HeadOf(g)

PendingSwap(g) == {p \in (marker[g] + 1)..HeadOf(g) : log[g][p] # 0}

LegsOf(s) == {g \in Graph : \E p \in 1..HeadOf(g) : log[g][p] = s}

PositionOf(s, g) == CHOOSE p \in 1..HeadOf(g) : log[g][p] = s

Sets == (UNION {{log[g][p] : p \in 1..HeadOf(g)} : g \in Graph}) \ {0}

PendingLegs(s) == {g \in LegsOf(s) : marker[g] < PositionOf(s, g)}

Shown(s, g) == live[g] >= PositionOf(s, g)

\* The call ends, with whatever it reports, and every lock it holds is released.
Return(t) ==
  /\ lock' = [g \in Graph |-> IF lock[g] = t THEN NoThread ELSE lock[g]]
  /\ thread' = [thread EXCEPT ![t] = Idle]

-----------------------------------------------------------------------------
(***************************************************************************)
(* Calls.  Locks are taken one by one in ascending order of the names.     *)
(***************************************************************************)
Submit(w, mode, legs) ==
  /\ At(w, "idle")
  /\ thread' = [thread EXCEPT ![w] =
       [Idle EXCEPT !.pc = "lock", !.mode = mode, !.want = legs, !.todo = legs]]
  /\ UNCHANGED <<dbVars, live, lock, gateVars>>

CatchUp(r, g) ==
  /\ At(r, "idle")
  /\ g \notin gated
  /\ thread' = [thread EXCEPT ![r] =
       [Idle EXCEPT !.pc = "first", !.mode = "catch up", !.at = g, !.tries = 1]]
  /\ UNCHANGED <<dbVars, live, lock, gateVars>>

OwnGraphFirst(t, graphs) ==     \* mutant: catch_up locks the graph it was asked for first
  IF thread[t].at \in graphs THEN thread[t].at ELSE Min(graphs)

NextLock(t, graphs) == Min(graphs)

AfterLock(t) == CASE t \in Writer -> "stage"
                  [] thread[t].mode = "replay" -> "rebuild"
                  [] OTHER -> "first"

Lock(t) ==
  /\ At(t, "lock")
  /\ LET missing == thread[t].want \ Held(t)
         g == NextLock(t, missing)
     IN  /\ lock[g] = NoThread
         /\ lock' = [lock EXCEPT ![g] = t]
         /\ IF missing = {g}
            THEN thread' = [thread EXCEPT ![t].pc = AfterLock(t), ![t].sure = TRUE]
            ELSE UNCHANGED thread
  /\ UNCHANGED <<dbVars, live, gateVars>>

-----------------------------------------------------------------------------
(***************************************************************************)
(* _with_unit: the unit is resolved without a lock, its locks are taken,   *)
(* it is resolved again; a unit that grew starts over.                     *)
(***************************************************************************)
UnitTrusted(t, graphs) == TRUE      \* mutant: the unit is not resolved again under its locks

StillCovered(t, graphs) == graphs \subseteq thread[t].want

\* The resolved unit is `graphs`, of swap set s or of none (0).
Resolved(t, s, graphs) ==
  IF ~thread[t].sure
  THEN /\ thread' = [thread EXCEPT ![t].want = graphs, ![t].set = s,
                                   ![t].pc = IF graphs = {} THEN "first" ELSE "lock",
                                   ![t].sure = graphs = {}]
       /\ UNCHANGED lock
  ELSE IF StillCovered(t, graphs)
  THEN CASE thread[t].at \in gated -> Return(t)
         [] graphs = {} -> Return(t)   \* a watch on no key
         [] OTHER -> /\ thread' = [thread EXCEPT ![t].pc = "pass", ![t].goal = "repair",
                                     ![t].set = s, ![t].todo = graphs, ![t].legs = graphs]
                     /\ UNCHANGED lock
  ELSE IF thread[t].tries < UnitAttempts
  THEN /\ lock' = [g \in Graph |-> IF lock[g] = t THEN NoThread ELSE lock[g]]
       /\ thread' = [thread EXCEPT ![t].pc = "first", ![t].want = {}, ![t].set = 0,
                                   ![t].sure = FALSE, ![t].tries = @ + 1]
  ELSE Return(t)

ResolveFirst(t) ==
  /\ At(t, "first")
  /\ LET g == thread[t].at
     IN  \/ PendingSwap(g) = {} /\ Resolved(t, 0, {g})
         \/ /\ PendingSwap(g) # {}
            /\ thread' = [thread EXCEPT ![t].pc = "legs", ![t].set = log[g][Min(PendingSwap(g))]]
            /\ UNCHANGED lock
         \/ "log down" \in Faults /\ Return(t)
  /\ UNCHANGED <<dbVars, live, gateVars>>

ResolveLegs(t) ==
  /\ At(t, "legs")
  /\ \/ Resolved(t, thread[t].set, PendingLegs(thread[t].set))
     \/ "log down" \in Faults /\ Return(t)
  /\ UNCHANGED <<dbVars, live, gateVars>>

-----------------------------------------------------------------------------
(***************************************************************************)
(* _stage, leg by leg: the gate, _require_not_blocked and                  *)
(* _catch_up_before_write with _refuse_pending_swap; then the checks that  *)
(* may reject, and the no-op filter.                                       *)
(***************************************************************************)
SwapNotRefused(g) == FALSE      \* mutant: a writer applies a pending swap group in place

OwesSwap(g) == PendingSwap(g) # {}

Stage(w) ==
  /\ At(w, "stage")
  /\ LET g == Leg(w)
     IN  \/ g \in gated \cup blocked /\ Return(w)
         \/ "log down" \in Faults /\ Return(w)
         \/ /\ g \notin gated \cup blocked
            /\ CASE Lags(g) /\ OwesSwap(g) -> Return(w)
                 [] Lags(g) /\ ~OwesSwap(g) ->
                      /\ thread' = [thread EXCEPT ![w].pc = "pass", ![w].goal = "stage"]
                      /\ UNCHANGED lock
                 [] OTHER -> Move(w, "checks") /\ UNCHANGED lock
  /\ UNCHANGED <<dbVars, live, gateVars>>

\* The bounds: room for one more entry of g, and for one more swap set.
HasRoom(w, g) ==
  /\ HeadOf(g) < MaxLog
  /\ thread[w].mode = "swap" => Cardinality(Sets) < MaxSets

Staged(w, changes) ==
  LET rest == thread[w].todo \ {Leg(w)}
      legs == IF changes THEN thread[w].legs \cup {Leg(w)} ELSE thread[w].legs
  IN  IF rest = {} /\ legs = {}
      THEN Return(w)
      ELSE /\ thread' = [thread EXCEPT ![w].pc = IF rest = {} THEN "append" ELSE "stage",
                                       ![w].todo = rest, ![w].legs = legs]
           /\ UNCHANGED lock

Checks(w) ==
  /\ At(w, "checks")
  /\ \/ Return(w)
     \/ \E changes \in BOOLEAN : (changes => HasRoom(w, Leg(w))) /\ Staged(w, changes)
  /\ UNCHANGED <<dbVars, live, gateVars>>

(***************************************************************************)
(* The append of every changing leg in one transaction.  An acknowledgement *)
(* that is lost is left out: GraphGateway has it, and README.md says what  *)
(* it does to a set.  The bound on swap sets is asked for again: another   *)
(* writer may have used up the room since the checks.                      *)
(***************************************************************************)
NewSet(w) == IF thread[w].mode = "swap" THEN Min((1..MaxSets) \ Sets) ELSE 0

Logged(legs, s) == [g \in Graph |-> IF g \in legs THEN Append(log[g], s) ELSE log[g]]

AppendLegs(w) ==
  LET legs == thread[w].legs
      s == NewSet(w)
  IN  /\ At(w, "append")
      /\ \/ /\ thread[w].mode = "swap" => Sets # 1..MaxSets
            /\ log' = Logged(legs, s)
            /\ thread' = [thread EXCEPT ![w].pc = IF s = 0 THEN "pass" ELSE "entries",
                 ![w].goal = "commit", ![w].set = s, ![w].todo = legs, ![w].tries = 1]
            /\ UNCHANGED lock
         \/ /\ Faults \cap {"log down", "write fails"} # {}
            /\ Return(w)
            /\ UNCHANGED log
      /\ UNCHANGED <<marker, live, onTheirOwn, gateVars>>

-----------------------------------------------------------------------------
(***************************************************************************)
(* _apply_pending of the leg at hand, entry by entry, and what its caller  *)
(* does with the end or with a failure that outlived the retries.          *)
(***************************************************************************)
Repairs(t) == thread[t].goal = "repair"

\* `before`: catch_up stops ahead of a leg's swap group.
PassEnd(t, g) == IF Repairs(t) /\ thread[t].set # 0 THEN PositionOf(thread[t].set, g) - 1 ELSE HeadOf(g)

\* The leg at hand is done with; the call goes on with the next one, or ends.
NextLeg(t) ==
  LET rest == thread[t].todo \ {Leg(t)}
  IN  IF rest # {}
      THEN /\ thread' = [thread EXCEPT ![t].pc = "pass", ![t].todo = rest]
           /\ UNCHANGED lock
      ELSE IF Repairs(t) /\ thread[t].set # 0
      THEN /\ thread' = [thread EXCEPT ![t].pc = "entries", ![t].todo = thread[t].legs, ![t].tries = 1]
           /\ UNCHANGED lock
      ELSE Return(t)

\* A pending leg of a committed group does not keep the others from being applied.
GiveUp(t) ==
  CASE thread[t].goal = "stage" -> Return(t)
    [] thread[t].goal = "commit" -> NextLeg(t)
    [] OTHER -> Return(t)

Pass(t) ==
  /\ At(t, "pass")
  /\ \/ /\ thread' = [thread EXCEPT ![t].pc = "apply", ![t].upto[Leg(t)] = PassEnd(t, Leg(t))]
        /\ UNCHANGED lock
     \/ "log down" \in Faults /\ GiveUp(t)
  /\ UNCHANGED <<dbVars, live, gateVars>>

NothingLeft(t) ==
  /\ marker[Leg(t)] >= thread[t].upto[Leg(t)]
  /\ blocked' = blocked \ {Leg(t)}
  /\ IF thread[t].goal = "stage" THEN Move(t, "checks") /\ UNCHANGED lock
                                 ELSE NextLeg(t)
  /\ UNCHANGED live

AppliedTo(g, p) == [live EXCEPT ![g] = IF @ < p THEN p ELSE @]

ApplyEntry(t) ==
  LET g == Leg(t)
  IN  /\ marker[g] < thread[t].upto[g]
      /\ \/ /\ live' = AppliedTo(g, marker[g] + 1)
            /\ Move(t, "mark")
            /\ UNCHANGED <<lock, blocked>>
         \/ /\ live' \in {live, AppliedTo(g, marker[g] + 1)}
            /\ \/ "graph down" \in Faults /\ GiveUp(t) /\ UNCHANGED blocked
               \/ "refused" \in Faults /\ Return(t) /\ blocked' = blocked \cup {g}

Apply(t) ==
  /\ At(t, "apply")
  /\ NothingLeft(t) \/ ApplyEntry(t)
  /\ UNCHANGED <<dbVars, unit, gated>>

Mark(t) ==
  /\ At(t, "mark")
  /\ \/ /\ marker' = [marker EXCEPT ![Leg(t)] = @ + 1]
        /\ Move(t, "apply")
        /\ UNCHANGED lock
     \/ "log down" \in Faults /\ GiveUp(t) /\ UNCHANGED marker
     \/ "write fails" \in Faults /\ Return(t) /\ UNCHANGED marker
  /\ UNCHANGED <<log, live, onTheirOwn, gateVars>>

-----------------------------------------------------------------------------
(***************************************************************************)
(* _swap_unit under the locks of all its legs: SwapApplier.apply reads the *)
(* pending entries once, then tries until the watch lets a rename through; *)
(* the markers follow one by one.                                          *)
(***************************************************************************)
\* Nothing came of it, or nobody knows: the set is left to the reconciler.
SwapPending(t) == Return(t) /\ UNCHANGED <<blocked, unit>>

BlockUnit(graphs) ==
  /\ blocked' = blocked \cup graphs
  /\ unit' = [g \in Graph |-> IF g \in graphs THEN graphs ELSE unit[g]]

UnblockUnit(graphs) ==
  /\ blocked' = blocked \ graphs
  /\ unit' = [g \in Graph |-> IF g \in graphs THEN {} ELSE unit[g]]

\* FalkorDB refused: GraphApplyError.
SwapRefused(t) == Return(t) /\ BlockUnit(thread[t].legs)

ReadEntries(t) ==
  /\ At(t, "entries")
  /\ \/ /\ thread' = [thread EXCEPT ![t].pc = "copies",
                        ![t].upto = [g \in Graph |-> IF g \in thread[t].legs THEN HeadOf(g) ELSE 0]]
        /\ UNCHANGED <<lock, blocked, unit>>
     \/ "log down" \in Faults /\ SwapPending(t)
  /\ UNCHANGED <<dbVars, live, gated>>

(***************************************************************************)
(* Watch, copy, apply to the copies.  A copy whose answer is lost is asked *)
(* for again, finds its own copy and is refused; a watch that cannot be    *)
(* set up raises an error of the driver nobody handles.                    *)
(***************************************************************************)
CopyOf(t) == [g \in Graph |-> IF g \in thread[t].legs THEN Max({live[g], thread[t].upto[g]}) ELSE 0]

StageCopies(t) ==
  /\ At(t, "copies")
  /\ \/ /\ thread' = [thread EXCEPT ![t].pc = "flip", ![t].upto = CopyOf(t)]
        /\ UNCHANGED <<lock, blocked, unit>>
     \/ "graph down" \in Faults /\ SwapPending(t)
     \/ Faults \cap {"refused", "graph down"} # {} /\ SwapRefused(t)
  /\ UNCHANGED <<dbVars, live, gated>>

FlippedOne(t) ==                \* mutant: the copies are renamed one by one and the first one failed
  [live EXCEPT ![Min(thread[t].legs)] = thread[t].upto[Min(thread[t].legs)]]

Flipped(t) == [g \in Graph |-> IF g \in thread[t].legs THEN thread[t].upto[g] ELSE live[g]]

Flip(t) ==
  /\ At(t, "flip")
  /\ \/ /\ live' = Flipped(t)
        /\ thread' = [thread EXCEPT ![t].pc = "advance", ![t].todo = thread[t].legs]
        /\ UNCHANGED <<lock, blocked, unit>>
     \/ /\ "conflict" \in Faults
        /\ IF thread[t].tries < MaxAttempts
           THEN /\ thread' = [thread EXCEPT ![t].pc = "copies", ![t].tries = @ + 1]
                /\ UNCHANGED <<lock, blocked, unit>>
           ELSE Return(t) /\ BlockUnit(thread[t].legs)
        /\ UNCHANGED live
     \/ "graph down" \in Faults /\ SwapPending(t) /\ live' \in {live, Flipped(t)}
     \/ "refused" \in Faults /\ SwapRefused(t) /\ UNCHANGED live
  /\ UNCHANGED <<dbVars, gated>>

OneRef(t, g) ==                 \* mutant: every leg's marker gets the position of the first leg
  PositionOf(thread[t].set, Min(thread[t].legs))

RefPosition(t, g) == PositionOf(thread[t].set, g)

Advance(t) ==
  LET g == Leg(t)
      rest == thread[t].todo \ {g}
  IN  /\ At(t, "advance")
      /\ \/ /\ marker' = [marker EXCEPT ![g] = Max({@, RefPosition(t, g)})]
            /\ IF rest = {}
               THEN Return(t) /\ UnblockUnit(thread[t].legs)
               ELSE /\ thread' = [thread EXCEPT ![t].todo = rest]
                    /\ UNCHANGED <<lock, blocked, unit>>
         \/ "log down" \in Faults /\ SwapPending(t) /\ UNCHANGED marker
         \/ "write fails" \in Faults /\ Return(t) /\ UNCHANGED <<marker, blocked, unit>>
      /\ UNCHANGED <<log, live, gated, onTheirOwn>>

-----------------------------------------------------------------------------
(***************************************************************************)
(* replay_graph, the fallback for a swap FalkorDB cannot do.  GraphReplay  *)
(* has its steps; here it is its effect: the graph shows its whole log.    *)
(***************************************************************************)
Replay(r, g) ==
  /\ "replay" \in Faults
  /\ At(r, "idle")
  /\ gated' = gated \cup {g}
  /\ thread' = [thread EXCEPT ![r] =
       [Idle EXCEPT !.pc = "lock", !.mode = "replay", !.at = g, !.want = {g}]]
  /\ UNCHANGED <<dbVars, live, lock, blocked, unit>>

Rebuild(r) ==
  LET g == thread[r].at
  IN  /\ At(r, "rebuild")
      /\ live' = [live EXCEPT ![g] = HeadOf(g)]
      /\ marker' = [marker EXCEPT ![g] = HeadOf(g)]
      /\ lock' = [lock EXCEPT ![g] = NoThread]
      /\ gated' = gated \ {g}
      /\ onTheirOwn' = onTheirOwn \cup {log[g][p] : p \in PendingSwap(g)}
      /\ Move(r, "release")
      /\ UNCHANGED <<log, blocked, unit>>

ReleaseReplayedLeg(r) ==
  LET legs == unit[thread[r].at]
  IN  /\ At(r, "release")
      /\ IF \A g \in legs : ~Lags(g) THEN UnblockUnit(legs) ELSE UNCHANGED <<blocked, unit>>
      /\ Return(r)
      /\ UNCHANGED <<dbVars, live, gated>>

\* The process stops and starts again; what it held in memory is gone.
Crash ==
  /\ "crash" \in Faults
  /\ \E t \in Thread : ~At(t, "idle")
  /\ lock' = [g \in Graph |-> NoThread]
  /\ blocked' = {} /\ unit' = [g \in Graph |-> {}] /\ gated' = {}
  /\ thread' = [t \in Thread |-> Idle]
  /\ UNCHANGED <<dbVars, live>>

-----------------------------------------------------------------------------
Init ==
  /\ log = [g \in Graph |-> <<>>]
  /\ marker = [g \in Graph |-> 0]
  /\ live = [g \in Graph |-> 0]
  /\ lock = [g \in Graph |-> NoThread]
  /\ blocked = {}
  /\ unit = [g \in Graph |-> {}]
  /\ gated = {}
  /\ onTheirOwn = {}
  /\ thread = [t \in Thread |-> Idle]

Calls(w) ==
  \/ \E g \in Graph : Submit(w, "single", {g})
  \/ \E mode \in {"in place", "swap"}, legs \in SUBSET Graph : Cardinality(legs) > 1 /\ Submit(w, mode, legs)

ApplyStep(t) == Pass(t) \/ Apply(t) \/ Mark(t)

SwapStep(t) == ReadEntries(t) \/ StageCopies(t) \/ Flip(t) \/ Advance(t)

Next ==
  \/ \E w \in Writer : Calls(w) \/ Stage(w) \/ Checks(w) \/ AppendLegs(w)
  \/ \E r \in Repairer, g \in Graph : CatchUp(r, g) \/ Replay(r, g)
  \/ \E r \in Repairer : ResolveFirst(r) \/ ResolveLegs(r) \/ Rebuild(r) \/ ReleaseReplayedLeg(r)
  \/ \E t \in Thread : Lock(t) \/ ApplyStep(t) \/ SwapStep(t)
  \/ Crash

Spec == Init /\ [][Next]_vars

-----------------------------------------------------------------------------
(***************************************************************************)
(* Every variable has its type, and a thread past its locks holds them     *)
(* all until its call ends: lock_all is left on every path.                *)
(***************************************************************************)
TypeOK ==
  /\ log \in [Graph -> Seq(0..MaxSets)]
  /\ marker \in [Graph -> Nat] /\ live \in [Graph -> Nat]
  /\ \A g \in Graph : marker[g] \in 0..HeadOf(g) /\ live[g] \in 0..HeadOf(g)
  /\ lock \in [Graph -> Thread \cup {NoThread}]
  /\ blocked \subseteq Graph /\ gated \subseteq Graph /\ onTheirOwn \subseteq Sets
  /\ unit \in [Graph -> SUBSET Graph]
  /\ thread \in [Thread -> State]
  /\ \A t \in Thread : Held(t) = IF thread[t].pc \in {"idle", "release"} THEN {}
                                 ELSE IF thread[t].pc = "lock" THEN Held(t) \cap thread[t].want
                                 ELSE IF thread[t].mode = "catch up" /\ ~thread[t].sure THEN {}
                                 ELSE thread[t].want

(***************************************************************************)
(* "A reader sees none or all of the set" (models.py:563): FalkorDB shows  *)
(* a swap set on every graph it has a leg on, or on none - across failed   *)
(* renames, half written markers, blocked sets, crashes and catch_up.      *)
(* A set completed by replay_graph, leg by leg in place, is on its own.    *)
(***************************************************************************)
SetsVisibleTogether ==
  \A s \in Sets \ onTheirOwn : \A g, h \in LegsOf(s) : Shown(s, g) <=> Shown(s, h)

(***************************************************************************)
(* A group is logged on a graph only when every swap set the graph takes   *)
(* part in is shown on all its graphs and marked on this one.              *)
(***************************************************************************)
SeenWhole(s, g) == g \notin PendingLegs(s) /\ \A h \in LegsOf(s) : Shown(s, h)

LoggedOver(S) ==
  \A g \in Graph : log'[g] # log[g] => \A s \in S : g \in LegsOf(s) => SeenWhole(s, g)

WholeWhenLogged == [][LoggedOver(Sets \ onTheirOwn)]_vars

(***************************************************************************)
(* The same of sets completed by replays: "a leg replayed early stays      *)
(* blocked until the last one has caught up, so no writer sees the set     *)
(* half done" (gateway.py:1307).                                           *)
(***************************************************************************)
NoWriterSeesHalfASet == [][LoggedOver(Sets)]_vars

(***************************************************************************)
(* No group of threads waits for each other's in-process locks, whatever   *)
(* graphs their sets and units overlap in (graph_locks.py).                *)
(***************************************************************************)
WaitsFor(t) ==
  IF At(t, "lock") THEN {lock[NextLock(t, thread[t].want \ Held(t))]} \ {NoThread} ELSE {}

NoLockCycle ==
  \A S \in SUBSET Thread : S # {} => \E t \in S : WaitsFor(t) \cap S = {}

(***************************************************************************)
(* Logged, applied, flipped, rebuilt and marked leg by leg, every graph    *)
(* still has the log GraphLog describes: a set's groups arrive at once,    *)
(* and a marker moves for one graph at a time, forward, within the log.    *)
(***************************************************************************)
OneLog == INSTANCE GraphLog WITH head <- [g \in Graph |-> HeadOf(g)]

ImplementsGraphLog == OneLog!Spec
=============================================================================
