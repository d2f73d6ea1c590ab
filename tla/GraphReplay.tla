------------------------------ MODULE GraphReplay ------------------------------
(***************************************************************************)
(* The startup replay: gateway.py (startup_replay and its retries,         *)
(* replay_graph), replay.py, replay_gate.py and replay_state.py.  Every    *)
(* graph is closed to writes when the process starts; the startup thread   *)
(* classifies the logged graphs by probing FalkorDB, rebuilds the ones     *)
(* that lost their content from the log, resumes interrupted rebuilds and  *)
(* releases each graph once it is dealt with.  Writers of released graphs  *)
(* run meanwhile.                                                          *)
(*                                                                         *)
(* Content is abstracted as in GraphGateway: [low, reach] is a graph to    *)
(* which the entries 1..low were applied last, over effects of entries up  *)
(* to reach.  Entries are set-semantic, so it is the graph of the log's *)
(* prefix 1..reach again once low = reach, and no prefix's graph before.   *)
(***************************************************************************)
EXTENDS Integers, FiniteSets

CONSTANTS Graph,
          Faults,      \* what the environment may do, a subset of FaultKinds
          NetsEmpty,   \* positions after which a graph holds no node
          PageSize,    \* GatewaySettings.replay_page_size
          MaxEntries,  \* bound: entries of one group
          MaxHead,     \* bound: positions of each log
          MaxCrashes,  \* bound: restarts of the process
          MaxOutages   \* bound: operations an outage cuts short

FaultKinds == {"wipe",            \* FalkorDB comes back empty with the process
               "corrupt",         \* an entry does not decode any more
               "bad checkpoint",  \* a recorded digest is not that of the log's prefix
               "refused",         \* FalkorDB answers a query with an error
               "stop"}            \* stop_replay is called

ASSUME FaultAssumption == Faults \subseteq FaultKinds
ASSUME NetsEmptyAssumption == NetsEmpty \subseteq Nat /\ 0 \in NetsEmpty
ASSUME BoundAssumption ==
  /\ PageSize \in Nat \ {0}
  /\ MaxEntries \in Nat /\ MaxHead \in Nat /\ MaxCrashes \in Nat /\ MaxOutages \in Nat

VARIABLES log,       \* per graph: head, the applied marker, the first corrupt entry
          checkpoint,\* per graph: the last recorded digest checkpoint
          content,   \* per graph: what FalkorDB holds
          sentinel,  \* per graph: the progress record in FalkorDB
          gate,      \* the process's ReplayGate
          startup,   \* the startup thread
          writer,    \* per graph: the thread that holds its lock to write
          faults     \* crashes and outages so far; graphs a rebuild was decided for under a writer

vars == <<log, checkpoint, content, sentinel, gate, startup, writer, faults>>
graphVars == <<log, checkpoint, content, sentinel>>

Log == [head : Nat, marker : Nat, corrupt : Nat]          \* corrupt = 0: every entry decodes
Checkpoint == [position : Nat, sound : BOOLEAN]           \* position = 0: none
Content == [low : Nat, reach : Nat]
Sentinel == [state : {"none", "in_progress", "failed"}, position : Nat, verified : Nat \cup {-1}]

NotVerified == -1
NoSentinel == [state |-> "none", position |-> 0, verified |-> NotVerified]
InProgress(position, verified) ==
  [state |-> "in_progress", position |-> position, verified |-> verified]

Empty == [low |-> 0, reach |-> 0]

IsEmpty(c) == c.low = c.reach /\ c.low \in NetsEmpty

\* The graph of the log's prefix 1..n.
Exactly(c, n) == c.low = c.reach /\ (c.low = n \/ (c.low \in NetsEmpty /\ n \in NetsEmpty))

\* The entries first..last are applied in order.  On a graph that lacks an
\* entry before them the result is no prefix of the log: only applying it
\* from the start helps.
Applied(c, first, last) ==
  [low   |-> IF first - 1 <= c.low \/ Exactly(c, first - 1) THEN last ELSE 0,
   reach |-> IF IsEmpty(c) \/ last > c.reach THEN last ELSE c.reach]

Lagging(g) == log[g].marker < log[g].head

Action == {"unknown", "untouched", "catch_up", "replay", "resume"}

StartupPC == {"hold",      \* startup_replay begins: about to close every graph
              "classify",  \* classifying the logged graphs
              "deal",      \* between two graphs
              "catch up",  \* _startup_catch_up waits for the graph's lock
              "lock",      \* replay_graph closed the graph and waits for its lock
              "page",      \* before a page
              "record",    \* the page is applied, the sentinel is not moved
              "verify",    \* at the checkpoint, not verified yet
              "finish",    \* through the head, the marker is not advanced
              "delete",    \* the sentinel is about to be deleted
              "ended", "gave up"}

\* Holding a graph's lock for a replay.
ReplayPC == {"page", "record", "verify", "finish", "delete"}

Run == [head : Nat, verifyAt : Nat, applied : Nat, verified : Nat \cup {-1}]
NoRun == [head |-> 0, verifyAt |-> 0, applied |-> 0, verified |-> NotVerified]

Startup == [pc : StartupPC, action : [Graph -> Action], todo : SUBSET Graph,
            graph : SUBSET Graph, run : Run]

Idle == [pc |-> "hold", action |-> [g \in Graph |-> "unknown"], todo |-> {}, graph |-> {},
         run |-> NoRun]

\* The startup thread is at pc, with g the graph it deals with.
Dealing(g, pc) == startup.pc = pc /\ startup.graph = {g}

LoggedGraphs == {g \in Graph : log[g].head > 0}

-----------------------------------------------------------------------------
(***************************************************************************)
(* replay_gate.py.                                                         *)
(***************************************************************************)
Gate == [hold : BOOLEAN, released : SUBSET Graph, incomplete : SUBSET Graph, failed : SUBSET Graph]

ClosedUnlessReleased(g) == g \in gate.incomplete \/ (gate.hold /\ g \notin gate.released)
                              \* mutant: failed graphs open with the others

Closed(g) ==
  g \in gate.incomplete \/ g \in gate.failed \/ (gate.hold /\ g \notin gate.released)

HoldAll == gate' = [gate EXCEPT !.hold = TRUE, !.released = {}]
Release(g) == gate' = [gate EXCEPT !.released = @ \cup {g}]
EndHold == gate' = [gate EXCEPT !.hold = FALSE, !.released = {}]
Begin(g) == gate' = [gate EXCEPT !.incomplete = @ \cup {g}, !.failed = @ \ {g}]
Fail(g) == gate' = [gate EXCEPT !.incomplete = @ \ {g}, !.failed = @ \cup {g}]
CompleteForgetsIncomplete(g) ==   \* mutant: complete() leaves the incomplete mark
  gate' = [gate EXCEPT !.failed = @ \ {g}, !.released = @ \cup {g}]

CompleteAndRelease(g) ==
  gate' = [gate EXCEPT !.incomplete = @ \ {g}, !.failed = @ \ {g}, !.released = @ \cup {g}]

-----------------------------------------------------------------------------
(***************************************************************************)
(* Writers: a request, the reconciler or catch_up, under the graph's lock. *)
(* GraphGateway has the whole of their steps.  The gate is checked once    *)
(* the lock is held (_stage); a graph that lags is caught up first.        *)
(***************************************************************************)
LockFree(g) == writer[g] = "idle" /\ ~(startup.graph = {g} /\ startup.pc \in ReplayPC)

WriterEnters(g) ==
  /\ LockFree(g)
  /\ ~Closed(g)
  /\ writer' = [writer EXCEPT ![g] = IF Lagging(g) THEN "apply" ELSE "staged"]
  /\ UNCHANGED <<graphVars, gate, startup, faults>>

Commit(g) ==
  /\ writer[g] = "staged"
  /\ \E n \in 1..MaxEntries :
       /\ log[g].head + n <= MaxHead
       /\ log' = [log EXCEPT ![g].head = @ + n]
  /\ writer' = [writer EXCEPT ![g] = "apply"]
  /\ UNCHANGED <<checkpoint, content, sentinel, gate, startup, faults>>

\* Rejected, or nothing to change.
WriterLeaves(g) ==
  /\ writer[g] = "staged"
  /\ writer' = [writer EXCEPT ![g] = "idle"]
  /\ UNCHANGED <<graphVars, gate, startup, faults>>

\* A pass decodes every pending entry before it applies the first.
PendingDecodes(g) == log[g].corrupt \notin log[g].marker + 1 .. log[g].head

\* Some of the pending entries, up to last, are applied (again, after a retry);
\* the marker follows once their run is complete.
AppliesPart(g, last) ==
  /\ PendingDecodes(g)
  /\ \E n \in log[g].marker + 1 .. last :
       /\ content' = [content EXCEPT ![g] = Applied(@, log[g].marker + 1, n)]
       /\ log' \in {log, [log EXCEPT ![g].marker = n]}
  /\ UNCHANGED <<checkpoint, sentinel, gate, startup, writer, faults>>

WriterAppliesPart(g) == writer[g] = "apply" /\ AppliesPart(g, log[g].head - 1)

WriterApplies(g) ==
  /\ writer[g] = "apply"
  /\ PendingDecodes(g)
  /\ content' = [content EXCEPT ![g] = Applied(@, log[g].marker + 1, log[g].head)]
  /\ writer' = [writer EXCEPT ![g] = "mark"]
  /\ UNCHANGED <<log, checkpoint, sentinel, gate, startup, faults>>

\* FalkorDB goes down, or an entry does not decode: the group stays pending.
WriterFails(g) ==
  /\ writer[g] \in {"apply", "mark"}
  /\ \/ ~PendingDecodes(g) /\ UNCHANGED faults
     \/ faults.outages < MaxOutages /\ faults' = [faults EXCEPT !.outages = @ + 1]
  /\ writer' = [writer EXCEPT ![g] = "idle"]
  /\ UNCHANGED <<graphVars, gate, startup>>

\* The marker is advanced and, when asked for, the digest is recorded.
WriterMarks(g) ==
  /\ writer[g] = "mark"
  /\ log' = [log EXCEPT ![g].marker = log[g].head]
  /\ \/ UNCHANGED checkpoint
     \/ \E sound \in {Exactly(content[g], log[g].head)}
                       \cup (IF "bad checkpoint" \in Faults THEN {FALSE} ELSE {}) :
          checkpoint' = [checkpoint EXCEPT ![g] = [position |-> log[g].head, sound |-> sound]]
  /\ writer' = [writer EXCEPT ![g] = "idle"]
  /\ UNCHANGED <<content, sentinel, gate, startup, faults>>

-----------------------------------------------------------------------------
(***************************************************************************)
(* startup_replay: hold, classify every logged graph, deal with each.      *)
(***************************************************************************)
Hold ==
  /\ startup.pc = "hold"
  /\ HoldAll
  /\ startup' = [Idle EXCEPT !.pc = "classify", !.todo = LoggedGraphs]
  /\ UNCHANGED <<graphVars, writer, faults>>

\* Whether FalkorDB shows a node; a graph between two prefixes may or may not.
HoldsNode(g) ==
  IF content[g].low = content[g].reach THEN {~IsEmpty(content[g])} ELSE BOOLEAN

\* A half applied graph seen without a node is the empty graph.
Settled(g, holdsNode) ==
  IF holdsNode \/ IsEmpty(content[g]) \/ writer[g] # "idle" THEN content
  ELSE [content EXCEPT ![g] = Empty]

\* An empty graph is what the log leaves if a checkpoint at its head says so.
NetsToEmptyUnvouched(g) == ~Lagging(g)   \* mutant: the marker is believed

NetsToEmpty(g) ==
  /\ ~Lagging(g)
  /\ checkpoint[g] = [position |-> log[g].head, sound |-> TRUE]
  /\ log[g].head \in NetsEmpty

ClassifiedByMarker(g, holdsNode) ==   \* mutant: the applied marker is believed
  IF Lagging(g) THEN IF holdsNode THEN "catch_up" ELSE "replay" ELSE "untouched"

Classified(g, holdsNode) ==
  IF holdsNode THEN IF Lagging(g) THEN "catch_up" ELSE "untouched"
  ELSE IF NetsToEmpty(g) THEN "untouched" ELSE "replay"

\* The graph is probed for nodes only when it has no sentinel.  Its lock is not
\* taken: on a retry, a writer an earlier try let in may be at work.
Classify(g) ==
  /\ startup.pc = "classify"
  /\ g \in startup.todo
  /\ startup.action[g] = "unknown"
  /\ \/ /\ sentinel[g].state # "none"
        /\ startup' = [startup EXCEPT !.action[g] = "resume"]
        /\ UNCHANGED <<content, faults>>
     \/ /\ sentinel[g].state = "none"
        /\ \E holdsNode \in HoldsNode(g) :
             /\ startup' = [startup EXCEPT !.action[g] = Classified(g, holdsNode)]
             /\ content' = Settled(g, holdsNode)
             /\ faults' = IF Classified(g, holdsNode) = "replay" /\ writer[g] # "idle"
                          THEN [faults EXCEPT !.raced = @ \cup {g}] ELSE faults
  /\ UNCHANGED <<log, checkpoint, sentinel, gate, writer>>

AllClassified ==
  /\ startup.pc = "classify"
  /\ \A g \in startup.todo : startup.action[g] # "unknown"
  /\ startup' = [startup EXCEPT !.pc = "deal"]
  /\ UNCHANGED <<graphVars, gate, writer, faults>>

Rebuild == {"replay", "resume"}

\* The next graph: the ones to rebuild come first.
NextInOrder(g) ==
  /\ startup.pc = "deal"
  /\ g \in startup.todo
  /\ startup.action[g] \notin Rebuild => \A h \in startup.todo : startup.action[h] \notin Rebuild

Untouched(g) ==
  /\ NextInOrder(g)
  /\ startup.action[g] = "untouched"
  /\ Release(g)
  /\ startup' = [startup EXCEPT !.todo = @ \ {g}]
  /\ UNCHANGED <<graphVars, writer, faults>>

CatchUp(g) ==
  /\ NextInOrder(g)
  /\ startup.action[g] = "catch_up"
  /\ startup' = [startup EXCEPT !.pc = "catch up", !.graph = {g}]
  /\ UNCHANGED <<graphVars, gate, writer, faults>>

\* _startup_catch_up under the graph's lock: it is released when caught up.
CaughtUp(g) ==
  /\ Dealing(g, "catch up")
  /\ writer[g] = "idle"
  /\ PendingDecodes(g)
  /\ content' = [content EXCEPT ![g] = IF Lagging(g) THEN Applied(@, log[g].marker + 1, log[g].head) ELSE @]
  /\ log' = [log EXCEPT ![g].marker = log[g].head]
  /\ Release(g)
  /\ startup' = [startup EXCEPT !.pc = "deal", !.todo = @ \ {g}, !.graph = {}]
  /\ UNCHANGED <<checkpoint, sentinel, writer, faults>>

\* The runs of the catch-up that are applied before it ends, or fails.
CatchUpPart(g) ==
  /\ Dealing(g, "catch up")
  /\ writer[g] = "idle"
  /\ AppliesPart(g, log[g].head)

\* FalkorDB is down or refuses an entry: the graph is reported gated, is not
\* released, and opens with the end of the hold.
StaysBehind(g) ==
  /\ Dealing(g, "catch up")
  /\ writer[g] = "idle"
  /\ \/ "refused" \in Faults /\ UNCHANGED faults
     \/ faults.outages < MaxOutages /\ faults' = [faults EXCEPT !.outages = @ + 1]
  /\ startup' = [startup EXCEPT !.pc = "deal", !.todo = @ \ {g}, !.graph = {}]
  /\ UNCHANGED <<graphVars, gate, writer>>

\* The GraphLogEntryDecodeError of a pending entry is neither a
\* GraphApplyError nor an outage: the startup replay ends with it.
CatchUpRaises(g) ==
  /\ Dealing(g, "catch up")
  /\ writer[g] = "idle"
  /\ ~PendingDecodes(g)
  /\ startup' = [Idle EXCEPT !.pc = "gave up"]
  /\ UNCHANGED <<graphVars, gate, writer, faults>>

Ended ==
  /\ startup.pc = "deal"
  /\ startup.todo = {}
  /\ EndHold
  /\ startup' = [startup EXCEPT !.pc = "ended"]
  /\ UNCHANGED <<graphVars, writer, faults>>

-----------------------------------------------------------------------------
(***************************************************************************)
(* replay_graph: close the graph, take its lock, rebuild it.               *)
(***************************************************************************)
ReplayGraph(g) ==
  /\ NextInOrder(g)
  /\ startup.action[g] \in Rebuild
  /\ Begin(g)
  /\ startup' = [startup EXCEPT !.pc = "lock", !.graph = {g}]
  /\ UNCHANGED <<graphVars, writer, faults>>

RunFromNext(g, position, verified) ==   \* mutant: resumed one entry too late
  [head |-> log[g].head, verifyAt |-> checkpoint[g].position, applied |-> position + 1,
   verified |-> verified]

RunToNextPosition(g, position, verified) ==   \* mutant: the head is taken from the position counter
  [head |-> log[g].head + 1, verifyAt |-> checkpoint[g].position, applied |-> position,
   verified |-> verified]

\* The highest checkpoint at or below the head is the last one recorded.
RunFrom(g, position, verified) ==
  [head |-> log[g].head, verifyAt |-> checkpoint[g].position, applied |-> position,
   verified |-> verified]

OneMoreOutage ==
  /\ faults.outages < MaxOutages
  /\ faults' = [faults EXCEPT !.outages = @ + 1]

\* A failed replay records itself in the graph and in the gate; the others
\* carry on.  When the answer to the record is lost the gate is not told, and
\* the startup is retried.
FailsAt(g, position) ==
  /\ sentinel' = [sentinel EXCEPT ![g].state = "failed", ![g].position = position]
  /\ \/ /\ Fail(g)
        /\ startup' = [startup EXCEPT !.pc = "deal", !.todo = @ \ {g}, !.graph = {}, !.run = NoRun]
        /\ UNCHANGED faults
     \/ OneMoreOutage /\ startup' = Idle /\ UNCHANGED gate

\* The graph's last checkpoint is not the one its sentinel says was compared.
Unverified(g) == checkpoint[g].position # 0 /\ sentinel[g].verified # checkpoint[g].position

\* _start_or_resume.  A graph recorded as failed is refused again; a run
\* past a checkpoint it was not compared with cannot be verified (no log
\* written by one gateway leads there: pages are cut at the checkpoint).
Start(g) ==
  LET seen == sentinel[g]  at == checkpoint[g].position IN
  /\ Dealing(g, "lock")
  /\ writer[g] = "idle"
  /\ \/ /\ seen.state = "none"
        /\ sentinel' = [sentinel EXCEPT ![g] = InProgress(0, NotVerified)]
        /\ startup' = [startup EXCEPT !.pc = "page", !.run = RunFrom(g, 0, NotVerified)]
        /\ UNCHANGED <<gate, faults>>
     \/ /\ seen.state = "failed"
        /\ Fail(g)
        /\ startup' = [startup EXCEPT !.pc = "deal", !.todo = @ \ {g}, !.graph = {}]
        /\ UNCHANGED <<sentinel, faults>>
     \/ /\ seen.state = "in_progress"
        /\ IF Unverified(g) /\ seen.position > at
           THEN FailsAt(g, at)
           ELSE /\ startup' = [startup EXCEPT
                     !.pc = IF Unverified(g) /\ seen.position = at THEN "verify" ELSE "page",
                     !.run = RunFrom(g, seen.position, seen.verified)]
                /\ UNCHANGED <<sentinel, gate, faults>>
  /\ UNCHANGED <<log, checkpoint, content, writer>>

Least(a, b) == IF a < b THEN a ELSE b

\* The last position of the next page: cut at the head and at the checkpoint.
PageEndUncut(run) == Least(run.applied + PageSize, run.head)   \* mutant: the checkpoint is overrun

PageEnd(run) ==
  LET end == Least(run.applied + PageSize, run.head) IN
  IF run.applied < run.verifyAt THEN Least(end, run.verifyAt) ELSE end

\* Some chunks of the page are applied.
ApplyChunks(g) ==
  /\ Dealing(g, "page")
  /\ \E n \in startup.run.applied + 1 .. PageEnd(startup.run) - 1 :
       /\ log[g].corrupt \notin startup.run.applied + 1 .. n
       /\ content' = [content EXCEPT ![g] = Applied(@, startup.run.applied + 1, n)]
  /\ UNCHANGED <<log, checkpoint, sentinel, gate, startup, writer, faults>>

\* The page is applied up to its end, or up to the entry that does not decode.
ApplyPage(g) ==
  LET run == startup.run  end == PageEnd(run)  bad == log[g].corrupt IN
  /\ Dealing(g, "page")
  /\ run.applied < run.head
  /\ IF bad \in run.applied + 1 .. end
     THEN /\ content' = [content EXCEPT ![g] =
                          IF bad = run.applied + 1 THEN @ ELSE Applied(@, run.applied + 1, bad - 1)]
          /\ FailsAt(g, bad)
     ELSE /\ content' = [content EXCEPT ![g] = Applied(@, run.applied + 1, end)]
          /\ startup' = [startup EXCEPT !.pc = "record", !.run.applied = end]
          /\ UNCHANGED <<sentinel, gate, faults>>
  /\ UNCHANGED <<log, checkpoint, writer>>

RecordPage(g) ==
  LET run == startup.run IN
  /\ Dealing(g, "record")
  /\ sentinel' = [sentinel EXCEPT ![g] = InProgress(run.applied, run.verified)]
  /\ startup' = [startup EXCEPT
       !.pc = IF run.applied = run.verifyAt /\ run.verifyAt # run.verified
              THEN "verify" ELSE "page"]
  /\ UNCHANGED <<log, checkpoint, content, gate, writer, faults>>

\* The digest is that of the checkpoint.
Matches(g) == checkpoint[g].sound /\ Exactly(content[g], checkpoint[g].position)

Verify(g) ==
  LET at == startup.run.verifyAt IN
  /\ Dealing(g, "verify")
  /\ \/ /\ Matches(g)
        /\ sentinel' = [sentinel EXCEPT ![g] = InProgress(at, at)]
        /\ startup' = [startup EXCEPT !.pc = "page", !.run.verified = at]
        /\ UNCHANGED <<gate, faults>>
     \/ /\ ~Matches(g)
        /\ FailsAt(g, at)
  /\ UNCHANGED <<log, checkpoint, content, writer>>

Finish(g) ==
  /\ Dealing(g, "page")
  /\ startup.run.applied = startup.run.head
  /\ startup' = [startup EXCEPT !.pc = "finish"]
  /\ UNCHANGED <<graphVars, gate, writer, faults>>

\* The marker only moves forward.
AdvanceMarker(g) ==
  /\ Dealing(g, "finish")
  /\ log' = [log EXCEPT ![g].marker = IF @ < startup.run.head THEN startup.run.head ELSE @]
  /\ startup' = [startup EXCEPT !.pc = "delete"]
  /\ UNCHANGED <<checkpoint, content, sentinel, gate, writer, faults>>

DeleteSentinel(g) ==
  /\ Dealing(g, "delete")
  /\ sentinel' = [sentinel EXCEPT ![g] = NoSentinel]
  /\ CompleteAndRelease(g)
  /\ startup' = [startup EXCEPT !.pc = "deal", !.todo = @ \ {g}, !.graph = {}, !.run = NoRun]
  /\ UNCHANGED <<log, checkpoint, content, writer, faults>>

-----------------------------------------------------------------------------
(***************************************************************************)
(* What cuts the startup thread short.  An outage is retried from the      *)
(* beginning (retry_through_outage); a query FalkorDB refuses and a stop   *)
(* are not.                                                                *)
(***************************************************************************)
Outage ==
  /\ startup.pc \in {"classify", "lock"} \cup ReplayPC
  /\ OneMoreOutage
  /\ startup' = Idle
  /\ UNCHANGED <<graphVars, gate, writer>>

\* FalkorDB deletes the progress record and its answer is lost: what gateway.py
\* does after the deletion, opening the gate, is not done.
DeletionUnacknowledged(g) ==
  /\ Dealing(g, "delete")
  /\ OneMoreOutage
  /\ sentinel' = [sentinel EXCEPT ![g] = NoSentinel]
  /\ startup' = Idle
  /\ UNCHANGED <<log, checkpoint, content, gate, writer>>

GiveUp ==
  /\ \/ "refused" \in Faults /\ startup.pc \in {"classify", "lock"} \cup ReplayPC
     \/ "stop" \in Faults /\ startup.pc = "page" /\ startup.run.applied < startup.run.head
  /\ startup' = [Idle EXCEPT !.pc = "gave up"]
  /\ UNCHANGED <<graphVars, gate, writer, faults>>

NewGate == [hold |-> TRUE, released |-> {}, incomplete |-> {}, failed |-> {}]

\* The process dies and is started again: every graph is closed before the
\* first request.  FalkorDB may have lost graphs, the log an entry.
Crash ==
  /\ faults.crashes < MaxCrashes
  /\ faults' = [faults EXCEPT !.crashes = @ + 1]
  /\ \E wiped \in IF "wipe" \in Faults THEN SUBSET Graph ELSE {{}} :
       /\ content' = [g \in Graph |-> IF g \in wiped THEN Empty ELSE content[g]]
       /\ sentinel' = [g \in Graph |-> IF g \in wiped THEN NoSentinel ELSE sentinel[g]]
  /\ \/ UNCHANGED log
     \/ /\ "corrupt" \in Faults
        /\ \E g \in Graph : \E p \in 1..log[g].head : log' = [log EXCEPT ![g].corrupt = p]
  /\ gate' = NewGate
  /\ startup' = Idle
  /\ writer' = [g \in Graph |-> "idle"]
  /\ UNCHANGED checkpoint

-----------------------------------------------------------------------------
Init ==
  /\ log = [g \in Graph |-> [head |-> 0, marker |-> 0, corrupt |-> 0]]
  /\ checkpoint = [g \in Graph |-> [position |-> 0, sound |-> TRUE]]
  /\ content = [g \in Graph |-> Empty]
  /\ sentinel = [g \in Graph |-> NoSentinel]
  /\ gate = NewGate
  /\ startup = Idle
  /\ writer = [g \in Graph |-> "idle"]
  /\ faults = [crashes |-> 0, outages |-> 0, raced |-> {}]

WriterStep(g) ==
  WriterEnters(g) \/ Commit(g) \/ WriterLeaves(g) \/ WriterAppliesPart(g)
  \/ WriterApplies(g) \/ WriterFails(g) \/ WriterMarks(g)

ReplayStep(g) ==
  \/ ReplayGraph(g) \/ Start(g) \/ ApplyChunks(g) \/ ApplyPage(g) \/ RecordPage(g) \/ Verify(g)
  \/ Finish(g) \/ AdvanceMarker(g) \/ DeleteSentinel(g)

StartupStep ==
  \/ Hold \/ AllClassified \/ Ended
  \/ \E g \in Graph : Classify(g) \/ Untouched(g) \/ CatchUp(g) \/ CatchUpPart(g) \/ CaughtUp(g)
                        \/ StaysBehind(g) \/ CatchUpRaises(g) \/ ReplayStep(g)

Next ==
  \/ StartupStep \/ Outage \/ GiveUp \/ Crash
  \/ \E g \in Graph : DeletionUnacknowledged(g) \/ WriterStep(g)

Spec == Init /\ [][Next]_vars

(***************************************************************************)
(* The startup thread and a writer inside its lock go on: every client     *)
(* call is bounded by a timeout.  Nothing has to be submitted, and nothing *)
(* has to fail.                                                            *)
(***************************************************************************)
WriterGoesOn(g) == WriterLeaves(g) \/ WriterApplies(g) \/ WriterFails(g) \/ WriterMarks(g)

StartupGoesOn == StartupStep /\ ~(\E g \in Graph : CatchUpPart(g) \/ ApplyChunks(g))

FairSpec == Spec /\ WF_vars(StartupGoesOn) /\ \A g \in Graph : WF_vars(WriterGoesOn(g))

-----------------------------------------------------------------------------
\* The shape of the state, markers and rebuilds never beyond their log.
TypeOK ==
  /\ log \in [Graph -> Log]
  /\ \A g \in Graph : log[g].marker <= log[g].head
  /\ startup.run.applied <= startup.run.head
  /\ checkpoint \in [Graph -> Checkpoint]
  /\ content \in [Graph -> Content]
  /\ sentinel \in [Graph -> Sentinel]
  /\ gate \in Gate
  /\ startup \in Startup
  /\ writer \in [Graph -> {"idle", "staged", "apply", "mark"}]
  /\ faults \in [crashes : 0..MaxCrashes, outages : 0..MaxOutages, raced : SUBSET Graph]

(***************************************************************************)
(* A graph that accepts writes is whole: no progress record, nothing       *)
(* missing below its marker, nothing half applied beyond it that the next  *)
(* writer would not apply again.  This is what classifying by probing      *)
(* FalkorDB "never by its applied marker" (startup_replay) is for, with    *)
(* graphs wiped, replays cut short anywhere and restarts at any point.     *)
(***************************************************************************)
OpenIsWhole ==
  \A g \in Graph : ~Closed(g) /\ LockFree(g) =>
    /\ sentinel[g].state = "none"
    /\ log[g].marker <= content[g].low \/ Exactly(content[g], log[g].marker)
    /\ content[g].reach <= log[g].head

(***************************************************************************)
(* Nothing is logged for a graph unless it holds exactly what its log says *)
(* at that moment.                                                         *)
(***************************************************************************)
LoggedOnWholeGraph ==
  [][\A g \in Graph : log'[g].head # log[g].head =>
       /\ sentinel[g].state = "none"
       /\ Exactly(content[g], log[g].head)]_vars

(***************************************************************************)
(* "A mismatch stops the replay with nothing applied past the sequence it  *)
(* names" (replay): a rebuild applies an entry past its checkpoint only if *)
(* the graph was compared with the checkpoint and found equal, in this run *)
(* or, as the sentinel says, in an earlier one.                            *)
(***************************************************************************)
NothingPastUnverified ==
  [][\A g \in Graph :
       /\ Dealing(g, "page") /\ content'[g] # content[g] /\ faults'.crashes = faults.crashes
       /\ startup.run.verifyAt # 0 /\ content'[g].low > startup.run.verifyAt
       => startup.run.verified = startup.run.verifyAt]_vars

(***************************************************************************)
(* A finished rebuild is the graph of its log: when the sentinel is about  *)
(* to go, the content is exactly the prefix the marker says.               *)
(***************************************************************************)
RebuiltIsTheLog ==
  \A g \in Graph : Dealing(g, "delete") =>
    /\ Exactly(content[g], startup.run.head)
    /\ log[g].marker = startup.run.head

(***************************************************************************)
(* A graph is recorded as failed, and stays closed for good, only for a    *)
(* cause in its log - an entry that does not decode or a checkpoint that   *)
(* never matched - or because its rebuild was decided while a writer was   *)
(* at work on it (GraphDigestMismatchError on a healthy graph).            *)
(***************************************************************************)
FailureHasACause ==
  \A g \in Graph : sentinel[g].state = "failed" =>
    log[g].corrupt # 0 \/ ~checkpoint[g].sound \/ g \in faults.raced

(***************************************************************************)
(* A graph whose rebuild fails, for its checkpoint or an entry, or is cut  *)
(* short by outages does not hold up the others: the startup replay ends,  *)
(* no rebuild is left half done, and only the failed graphs stay closed,   *)
(* with those that a rebuild cut short by an outage has left marked.  A    *)
(* pending entry that does not decode is the exception: after the rebuilds *)
(* the startup gives up on every graph it has not released.  So it does at *)
(* a query that FalkorDB refuses and at a shutdown, which are left out.    *)
(***************************************************************************)
StartupEnds ==
  <>[](/\ \A g \in Graph : sentinel[g].state # "in_progress"
       /\ \/ /\ startup.pc = "ended"
             /\ \A g \in Graph : Closed(g) =>
                  sentinel[g].state = "failed" \/ (g \in gate.incomplete /\ faults.outages # 0)
          \/ startup.pc = "gave up" /\ \E g \in Graph : ~PendingDecodes(g))

(***************************************************************************)
(* "Each graph opens for writes as soon as it is dealt with; a graph whose *)
(* replay failed (or is recorded as failed) stays closed" (startup_replay).*)
(* "A graph already dealt with by an earlier try is found healthy by the   *)
(* next one" (run_startup_replay).                                         *)
(***************************************************************************)
DealtWithIsOpen ==
  startup.pc = "ended" => \A g \in Graph : Closed(g) => sentinel[g].state = "failed"

(***************************************************************************)
(* Catching up, rebuilding and restarting never take a graph's log back:   *)
(* it is the log of GraphLog, whose marker moves forward only and within   *)
(* the positions that were logged, whatever a replay starts from.          *)
(***************************************************************************)
OneLog == INSTANCE GraphLog WITH head <- [g \in Graph |-> log[g].head],
                                 marker <- [g \in Graph |-> log[g].marker]

ImplementsGraphLog == OneLog!Spec
=============================================================================
