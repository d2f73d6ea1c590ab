----------------------------- MODULE IngestionRuns -----------------------------
(***************************************************************************)
(* ingestion_runs/dispatch.py and store.py with the tools of               *)
(* mcp_interface/ingestion_tools.py and the identity checks of             *)
(* api/ingestion_orchestration.py: a request checks an instrument's CELEX  *)
(* and short name against the graph, takes a slot, writes a run row and    *)
(* starts a worker thread; the worker runs the pipeline, completes the row *)
(* and gives the slot back; a status poll completes, as interrupted, a row *)
(* that no worker in the process holds.  `ingest-regulation` runs the same *)
(* pipeline on the caller's thread and takes neither slot nor row.         *)
(*                                                                         *)
(* The four stages are one step that fails, merges the instrument, or      *)
(* leaves its merge in the log for the gateway to apply; the graphs of the *)
(* other stages are not modelled, nor are audit rows, which are written    *)
(* with the row.  The slots are the process's memory; the rows, the graph  *)
(* and its log outlive it.                                                 *)
(***************************************************************************)
EXTENDS Naturals, FiniteSets

CONSTANTS Run,          \* requests, named by their run ids
          Poller,       \* status polls that may be in progress at the same time
          Celex, ShortName,
          Asks,         \* what may be asked for together, under each run id
          MaxInFlight,  \* the configured cap on background runs
          Faults,       \* what the environment may do, a subset of FaultKinds
          MaxCrashes,   \* bound: how often the process stops
          None

FaultKinds == {"store down",  \* the run store does not answer
               "lost ack",    \* the insert commits and reports an error
               "no thread",   \* the worker thread cannot be started
               "graph down",  \* an identity check or a stage fails, or a logged merge is not applied
               "crash"}       \* the process stops

ASSUME IngestionAssumption ==
  /\ MaxInFlight \in Nat /\ MaxCrashes \in Nat
  /\ None \notin Run \cup Celex
  /\ Asks \subseteq [Run -> [celex : Celex, name : ShortName, sync : BOOLEAN]]

VARIABLES graph,    \* the CELEX of the instrument merged under each short name, in FalkorDB
          pending,  \* the merge that is in the graph's log and not applied yet, if any
          row,      \* the status column of each run's row
          slots,    \* the runs in _in_flight
          run,      \* what the thread of each run is doing
          poll,     \* what each poll is doing
          crashes

vars == <<graph, pending, row, slots, run, poll, crashes>>

Status == {"none", "running", "succeeded", "failed",
           "interrupted"}      \* failed, with the reconciler's reason

RequestPC == {"celex", "name", "reserve", "create", "start", "free"}

WorkerPC == {"preflight", "stages", "record", "release"}

Phase == [pc : {"idle", "done"} \cup RequestPC \cup WorkerPC,
          celex : Celex \cup {None}, name : ShortName \cup {None},
          sync : BOOLEAN,
          result : {"none", "succeeded", "failed",
                    "logged"}]     \* failed, and its merge is in the log

Poll == [pc : {"idle", "slot", "complete"}, of : Run \cup {None}]

Unasked == [pc |-> "idle", celex |-> None, name |-> None, sync |-> FALSE, result |-> "none"]

NoPoll == [pc |-> "idle", of |-> None]

Merge == [celex : Celex, name : ShortName]

NoMerge == [celex |-> None, name |-> None]

At(r, pc) == run[r].pc = pc

Goto(r, pc) == run' = [run EXCEPT ![r].pc = pc]

Working(r) == run[r].pc \in WorkerPC /\ ~run[r].sync

-----------------------------------------------------------------------------
(***************************************************************************)
(* The request.  Nothing that was checked is checked again under the slot. *)
(***************************************************************************)
Made(asks) ==
  \A r \in Run : At(r, "idle") \/ asks[r] = [celex |-> run[r].celex, name |-> run[r].name, sync |-> run[r].sync]

Request(r) ==
  /\ At(r, "idle")
  /\ \E asks \in Asks :
       /\ Made(asks)
       /\ run' = [run EXCEPT ![r] = [@ EXCEPT !.pc = "celex", !.celex = asks[r].celex, !.name = asks[r].name,
                                              !.sync = asks[r].sync]]
  /\ UNCHANGED <<graph, pending, row, slots, poll, crashes>>

GraphFails(r) ==
  /\ "graph down" \in Faults
  /\ At(r, "celex") \/ At(r, "name")
  /\ Goto(r, "done")
  /\ UNCHANGED <<graph, pending, row, slots, poll, crashes>>

RejectIfCelexAlreadyIngested(r) ==
  /\ At(r, "celex")
  /\ Goto(r, IF \E n \in ShortName : graph[n] = run[r].celex THEN "done" ELSE "name")
  /\ UNCHANGED <<graph, pending, row, slots, poll, crashes>>

RejectIfShortNameClaimed(r) ==
  /\ At(r, "name")
  /\ Goto(r, IF graph[run[r].name] \notin {None, run[r].celex} THEN "done"
             ELSE IF run[r].sync THEN "preflight" ELSE "reserve")
  /\ UNCHANGED <<graph, pending, row, slots, poll, crashes>>

SameRun(r) == r \in slots           \* mutant: the registry is searched by run id

InProgress(r) == \E s \in slots : run[s].name = run[r].name

ReserveRunSlot(r) ==
  /\ At(r, "reserve")
  /\ IF InProgress(r) \/ Cardinality(slots) >= MaxInFlight
     THEN Goto(r, "done") /\ UNCHANGED slots
     ELSE Goto(r, "create") /\ slots' = slots \cup {r}
  /\ UNCHANGED <<graph, pending, row, poll, crashes>>

StartedUnrecorded(r) ==            \* mutant: a failed insert is logged and the worker started
  /\ At(r, "create")
  /\ row' = [row EXCEPT ![r] = "running"] \/ ("store down" \in Faults /\ UNCHANGED row)
  /\ Goto(r, "start")
  /\ UNCHANGED <<graph, pending, slots, poll, crashes>>

CreateRun(r) ==
  /\ At(r, "create")
  /\ \/ row' = [row EXCEPT ![r] = "running"] /\ Goto(r, "start")
     \/ "store down" \in Faults /\ Goto(r, "free") /\ UNCHANGED row
     \/ "lost ack" \in Faults /\ row' = [row EXCEPT ![r] = "running"] /\ Goto(r, "free")
  /\ UNCHANGED <<graph, pending, slots, poll, crashes>>

StartBackgroundRun(r) ==
  /\ At(r, "start")
  /\ Goto(r, "preflight") \/ ("no thread" \in Faults /\ Goto(r, "free"))
  /\ UNCHANGED <<graph, pending, row, slots, poll, crashes>>

FreeSlot(r) ==
  /\ At(r, "free")
  /\ slots' = slots \ {r}
  /\ Goto(r, "done")
  /\ UNCHANGED <<graph, pending, row, poll, crashes>>

-----------------------------------------------------------------------------
(***************************************************************************)
(* The pipeline, on the worker's thread or on the caller's.  Whatever is   *)
(* raised becomes a failed result.                                         *)
(***************************************************************************)
Finish(r, result) ==
  run' = [run EXCEPT ![r] = [@ EXCEPT !.pc = IF run[r].sync THEN "done" ELSE "record",
                                      !.result = result]]

OfItsInstrument(r) ==              \* mutant: another instrument under the name does not count
  /\ At(r, "preflight")
  /\ \/ graph[run[r].name] = run[r].celex /\ Finish(r, "succeeded")
     \/ graph[run[r].name] # run[r].celex /\ Goto(r, "stages")
  /\ UNCHANGED <<graph, pending, row, slots, poll, crashes>>

Preflight(r) ==
  /\ At(r, "preflight")
  /\ \/ graph[run[r].name] # None /\ Finish(r, "succeeded")     \* already_ingested
     \/ graph[run[r].name] = None /\ Goto(r, "stages")
     \/ "graph down" \in Faults /\ Finish(r, "failed")
  /\ UNCHANGED <<graph, pending, row, slots, poll, crashes>>

MergeOf(r) == [celex |-> run[r].celex, name |-> run[r].name]

Applied(m) == [graph EXCEPT ![m.name] = m.celex]

(***************************************************************************)
(* The merge is the last stage and writes the instrument under its short   *)
(* name and version, after what the graph still owes was applied (CatchUp).*)
(* A stage fails when its group is logged and FalkorDB does not take it.   *)
(***************************************************************************)
ExecuteCatalogStages(r) ==
  /\ At(r, "stages")
  /\ \/ /\ pending = NoMerge
        /\ graph' = Applied(MergeOf(r))
        /\ Finish(r, "succeeded") \/ ("graph down" \in Faults /\ Finish(r, "failed"))
        /\ UNCHANGED pending
     \/ /\ "graph down" \in Faults /\ pending = NoMerge      \* committed_apply_pending
        /\ pending' = MergeOf(r)
        /\ Finish(r, "logged")
        /\ UNCHANGED graph
     \/ "graph down" \in Faults /\ Finish(r, "failed") /\ UNCHANGED <<graph, pending>>
  /\ UNCHANGED <<row, slots, poll, crashes>>

\* By the reconciler, by the next writer under the graph's lock, or by a startup's replay.
CatchUp ==
  /\ pending # NoMerge
  /\ graph' = Applied(pending)
  /\ pending' = NoMerge
  /\ UNCHANGED <<row, slots, run, poll, crashes>>

Unconditionally(r) == TRUE         \* mutant: the update does not ask for the status

Completable(r) == row[r] = "running"

\* The update of one row, by its worker or by a poll; it changes nothing when it has lost.
CompleteRun(r, status) == row' = IF Completable(r) THEN [row EXCEPT ![r] = status] ELSE row

\* A failed write is logged and swallowed; the row stays running.
RecordIngestionRunOutcome(r) ==
  /\ At(r, "record")
  /\ CompleteRun(r, IF run[r].result = "succeeded" THEN "succeeded" ELSE "failed")
       \/ ("store down" \in Faults /\ UNCHANGED row)
  /\ Goto(r, "release")
  /\ UNCHANGED <<graph, pending, slots, poll, crashes>>

\* Of a thread that is over only a merge it left in the log is kept.
Over(phase) == [phase EXCEPT !.pc = "done", !.result = IF @ = "logged" THEN @ ELSE "none"]

ReleasedOnSuccess(r) ==            \* mutant: the release is no `finally`
  /\ At(r, "release")
  /\ slots' = IF run[r].result = "succeeded" THEN slots \ {r} ELSE slots
  /\ run' = [run EXCEPT ![r] = Over(@)]
  /\ UNCHANGED <<graph, pending, row, poll, crashes>>

ReleaseRunSlot(r) ==
  /\ At(r, "release")
  /\ slots' = slots \ {r}
  /\ run' = [run EXCEPT ![r] = Over(@)]
  /\ UNCHANGED <<graph, pending, row, poll, crashes>>

-----------------------------------------------------------------------------
(***************************************************************************)
(* get-ingestion-status: the row, the slot and the update are looked at    *)
(* one after the other.                                                    *)
(***************************************************************************)
GetIngestionStatus(p, r) ==
  /\ poll[p].pc = "idle"
  /\ row[r] = "running"
  /\ poll' = [poll EXCEPT ![p] = [pc |-> "slot", of |-> r]]
  /\ UNCHANGED <<graph, pending, row, slots, run, crashes>>

IsRunInFlight(r) == r \in slots

CheckInFlight(p) ==
  /\ poll[p].pc = "slot"
  /\ poll' = [poll EXCEPT ![p] = IF IsRunInFlight(poll[p].of) THEN NoPoll ELSE [@ EXCEPT !.pc = "complete"]]
  /\ UNCHANGED <<graph, pending, row, slots, run, crashes>>

ReconcileOrphanedRun(p) ==
  /\ poll[p].pc = "complete"
  /\ CompleteRun(poll[p].of, "interrupted")
  /\ poll' = [poll EXCEPT ![p] = NoPoll]
  /\ UNCHANGED <<graph, pending, slots, run, crashes>>

\* "A failed reconciliation must never become the poll's failure."
ReconcileFails(p) ==
  /\ "store down" \in Faults
  /\ poll[p].pc = "complete"
  /\ poll' = [poll EXCEPT ![p] = NoPoll]
  /\ UNCHANGED <<graph, pending, row, slots, run, crashes>>

\* Threads are daemons and slots are memory: a restart knows of neither.  The merge of one run
\* may be in the log at that moment and not in FalkorDB.
Crash ==
  /\ "crash" \in Faults /\ crashes < MaxCrashes
  /\ crashes' = crashes + 1
  /\ slots' = {}
  /\ \E q \in {None} \cup {r \in Run : At(r, "stages") /\ pending = NoMerge} :
       /\ pending' = IF q = None THEN pending ELSE MergeOf(q)
       /\ run' = [r \in Run |-> IF At(r, "idle") THEN run[r]
                                ELSE Over(IF r = q THEN [run[r] EXCEPT !.result = "logged"] ELSE run[r])]
  /\ poll' = [p \in Poller |-> NoPoll]
  /\ UNCHANGED <<graph, row>>

-----------------------------------------------------------------------------
Init ==
  /\ graph = [n \in ShortName |-> None]
  /\ pending = NoMerge
  /\ row = [r \in Run |-> "none"]
  /\ slots = {}
  /\ run = [r \in Run |-> Unasked]
  /\ poll = [p \in Poller |-> NoPoll]
  /\ crashes = 0

\* What the thread of a run does once it was asked for.
Proceed(r) ==
  \/ RejectIfCelexAlreadyIngested(r) \/ RejectIfShortNameClaimed(r) \/ GraphFails(r)
  \/ ReserveRunSlot(r) \/ CreateRun(r) \/ StartBackgroundRun(r) \/ FreeSlot(r)
  \/ Preflight(r) \/ ExecuteCatalogStages(r) \/ RecordIngestionRunOutcome(r) \/ ReleaseRunSlot(r)

Reconcile(p) == CheckInFlight(p) \/ ReconcileOrphanedRun(p) \/ ReconcileFails(p)

Next ==
  \/ \E r \in Run : Request(r) \/ Proceed(r)
  \/ \E p \in Poller : Reconcile(p) \/ \E r \in Run : GetIngestionStatus(p, r)
  \/ CatchUp
  \/ Crash

Spec == Init /\ [][Next]_vars

(***************************************************************************)
(* Every call of the pipeline has a timeout, so a thread proceeds; a       *)
(* client keeps asking for its run, and the store is not down every time   *)
(* a poll needs it.  Nobody has to make a request.                         *)
(***************************************************************************)
Fairness ==
  /\ \A r \in Run : WF_vars(Proceed(r))
  /\ \A p \in Poller :
       /\ SF_vars(\E r \in Run : GetIngestionStatus(p, r))
       /\ WF_vars(Reconcile(p)) /\ SF_vars(ReconcileOrphanedRun(p))

FairSpec == Spec /\ Fairness

-----------------------------------------------------------------------------
(***************************************************************************)
(* Types; a slot is held by a thread that is still going to free it, and   *)
(* only rows are polled.                                                   *)
(***************************************************************************)
TypeOK ==
  /\ graph \in [ShortName -> Celex \cup {None}]
  /\ pending \in Merge \cup {NoMerge}
  /\ row \in [Run -> Status]
  /\ slots \subseteq Run
  /\ run \in [Run -> Phase]
  /\ poll \in [Poller -> Poll]
  /\ crashes \in Nat
  /\ \A r \in slots : run[r].pc \in {"create", "start", "free"} \cup WorkerPC
  /\ \A p \in Poller : poll[p].pc # "idle" => poll[p].of \in Run /\ row[poll[p].of] # "none"

(***************************************************************************)
(* "Row still running and no slot held reliably means no worker is writing *)
(* it" (dispatch.py:6): a worker holds its slot from before its first step *)
(* to after its last, whatever request, poll or crash comes between, so    *)
(* that no more than MaxInFlight of them work, on different short names,   *)
(* and a run that a poll has judged interrupted is one nobody works on.    *)
(***************************************************************************)
SlotsHold ==
  /\ \A r \in Run : Working(r) => r \in slots
  /\ Cardinality({r \in Run : Working(r)}) <= MaxInFlight
  /\ \A r, s \in Run : Working(r) /\ Working(s) /\ run[r].name = run[s].name => r = s
  /\ \A r \in Run : row[r] = "interrupted" => ~Working(r)

(***************************************************************************)
(* A run has one outcome, and a recorded success has an instrument under   *)
(* its short name in the graph.                                            *)
(***************************************************************************)
OneOutcome ==
  [][\A r \in Run :
       /\ row[r] \in {"succeeded", "failed", "interrupted"} => row'[r] = row[r]
       /\ row[r] # row'[r] /\ row'[r] = "succeeded" => graph[run[r].name] # None]_vars

(***************************************************************************)
(* The slot makes one decision of what a background run does in two: it    *)
(* looks for an instrument under its short name and merges its own when    *)
(* there is none.  A merged instrument is replaced by another only where   *)
(* the slot does not reach: by or after `ingest-regulation`, which takes   *)
(* none, or after a run that ended, and freed its slot, with its merge in  *)
(* the log alone, where no preflight sees it.                              *)
(***************************************************************************)
Unslotted(r) == (run[r].sync /\ At(r, "done")) \/ run[r].result = "logged"

Waiting(r) == run[r].sync /\ (At(r, "stages") \/ run[r].result = "logged")

MergedOnce ==
  [][\A n \in ShortName : graph[n] # None /\ graph'[n] # graph[n] =>
       \E r \in Run : /\ run[r].name = n
                      /\ \/ Unslotted(r) /\ run[r].celex = graph[n]     \* it merged what is replaced
                         \/ Waiting(r) /\ run[r].celex = graph'[n]]_vars \* it replaces it

(***************************************************************************)
(* Requests, workers, polls, outages and restarts, seen from outside, keep *)
(* the ledger: "no worker is writing it" (dispatch.py:6) is also for good. *)
(***************************************************************************)
Ledger == INSTANCE RunLedger WITH
            Cap <- MaxInFlight,
            record <- row,
            working <- {<<r, run[r].name>> : r \in {q \in Run : Working(q)}},
            left <- {r \in Run : At(r, "done") /\ ~run[r].sync},
            merged <- {n \in ShortName : graph[n] # None}

KeepsLedger == Ledger!Spec

(***************************************************************************)
(* No slot is kept for good and no row stays running: every path out of a  *)
(* request or a worker frees its slot, and a row its worker could not      *)
(* complete is completed by a poll.                                        *)
(***************************************************************************)
RunsEnd == \A r \in Run : []<>(r \notin slots /\ row[r] # "running")
=============================================================================
