-------------------------- MODULE IngestionRunsProofs --------------------------
(***************************************************************************)
(* IngestionRuns: slots are held by exactly the threads that still have to *)
(* free them, a run has one outcome, what a preflight saw still holds when *)
(* its run merges, and what polls report is a ledger (RunLedger), for any  *)
(* number of requests, polls and restarts and any cap.                     *)
(***************************************************************************)
EXTENDS IngestionRuns, FiniteSetTheorems, TLAPS

(***************************************************************************)
(* The inductive invariant.  A slot belongs to the thread between its      *)
(* reservation and its release; a run with a row is past its creation, and *)
(* a row that was judged is one whose thread is gone.                      *)
(***************************************************************************)
Busy == {"create", "start", "free"} \cup WorkerPC

Asked(r) ==
  /\ ~At(r, "idle") /\ ~At(r, "done") => run[r].celex \in Celex /\ run[r].name \in ShortName
  /\ At(r, "idle") => run[r].result # "succeeded"
  /\ run[r].pc \in {"reserve", "create", "start", "free", "record", "release"} => ~run[r].sync

OwnsSlot(r) == r \in slots <=> (run[r].pc \in Busy /\ ~run[r].sync)

Reported(r) ==
  /\ At(r, "record") => run[r].result # "none"
  /\ run[r].result = "succeeded" => run[r].name \in ShortName /\ graph[run[r].name] # None

Rowed(r) ==
  /\ row[r] # "none" => ~run[r].sync /\ run[r].pc \in {"start", "free", "done"} \cup WorkerPC
  /\ row[r] = "interrupted" => At(r, "done")

RunInv == \A r \in Run : Asked(r) /\ OwnsSlot(r) /\ Reported(r) /\ Rowed(r)

SlotInv ==
  /\ IsFiniteSet(slots) /\ Cardinality(slots) <= MaxInFlight
  /\ \A r, s \in slots : run[r].name = run[s].name => r = s

PollInv == \A p \in Poller : poll[p].pc = "complete" => At(poll[p].of, "done")

IInv == TypeOK /\ RunInv /\ SlotInv /\ PollInv

LEMMA InitIInv == Init => IInv
BY IngestionAssumption, FS_EmptySet
   DEF Init, IInv, TypeOK, NoMerge, RunInv, SlotInv, PollInv, Asked, OwnsSlot, Reported, Rowed, Busy, Status, Phase,
       Poll, Unasked, NoPoll, At, RequestPC, WorkerPC

(***************************************************************************)
(* A slot set that does not grow, under names that do not change, stays    *)
(* within the cap and free of doubles.                                     *)
(***************************************************************************)
LEMMA FewerSlots ==
  ASSUME TypeOK, SlotInv, slots' \subseteq slots, \A r \in slots' : run'[r].name = run[r].name
  PROVE  SlotInv'
<1>1. IsFiniteSet(slots') /\ Cardinality(slots') <= Cardinality(slots)
  BY FS_Subset DEF SlotInv
<1>2. Cardinality(slots) \in Nat /\ Cardinality(slots') \in Nat
  BY <1>1, FS_CardinalityType DEF SlotInv
<1> QED BY <1>1, <1>2, IngestionAssumption DEF SlotInv

(***************************************************************************)
(* A step of one run leaves what is known of the others: their threads,    *)
(* rows and slots, and the instruments in the graph.                       *)
(***************************************************************************)
RunOK(r) == Asked(r) /\ OwnsSlot(r) /\ Reported(r) /\ Rowed(r)

Undisturbed(r) == run'[r] = run[r] /\ row'[r] = row[r] /\ (r \in slots' <=> r \in slots)

GraphKept == \A n \in ShortName : graph[n] # None => graph'[n] # None

LEMMA OthersKept ==
  ASSUME RunInv, GraphKept, NEW r \in Run, Undisturbed(r)
  PROVE  RunOK(r)'
<1>1. Asked(r)' /\ OwnsSlot(r)' /\ Rowed(r)'
  BY DEF RunInv, Undisturbed, Asked, OwnsSlot, Rowed, At
<1>2. Reported(r)'
  BY DEF RunInv, Undisturbed, GraphKept, Reported, At
<1> QED BY <1>1, <1>2 DEF RunOK

LEMMA OneRunSteps ==
  ASSUME IInv, GraphKept, NEW r \in Run,
         \A s \in Run \ {r} : Undisturbed(s),
         run' \in [Run -> Phase], graph' \in [ShortName -> Celex \cup {None}], row' \in [Run -> Status],
         pending' \in Merge \cup {NoMerge},
         slots' \in SUBSET Run, UNCHANGED <<poll, crashes>>,
         row[r] # "none" => row'[r] # "none",
         At(r, "done") => run'[r] = run[r] /\ row'[r] = row[r],
         RunOK(r)', SlotInv'
  PROVE  IInv'
<1>1. RunInv'
  <2>1. \A s \in Run \ {r} : RunOK(s)'
    BY OthersKept DEF IInv
  <2> QED BY <2>1 DEF RunInv, RunOK
<1>2. TypeOK'
  <2>1. \A s \in slots' : run'[s].pc \in {"create", "start", "free"} \cup WorkerPC
    BY <1>1 DEF RunInv, OwnsSlot, Busy
  <2>2. \A p \in Poller : poll'[p].pc # "idle" => poll'[p].of \in Run /\ row'[poll'[p].of] # "none"
    BY DEF IInv, TypeOK, Undisturbed
  <2> QED BY <2>1, <2>2 DEF IInv, TypeOK
<1>3. PollInv'
  <2> SUFFICES ASSUME NEW p \in Poller, poll'[p].pc = "complete"
               PROVE  run'[poll'[p].of].pc = "done"
    BY DEF PollInv, At
  <2>1. poll'[p] = poll[p] /\ poll[p].of \in Run /\ run[poll[p].of].pc = "done"
    BY DEF IInv, TypeOK, PollInv, At
  <2> QED BY <2>1 DEF Undisturbed, At
<1> QED BY <1>1, <1>2, <1>3 DEF IInv

(***************************************************************************)
(* Most steps of a thread change its own record alone.                     *)
(***************************************************************************)
LEMMA ThreadSteps ==
  ASSUME IInv, NEW r \in Run, NEW phase \in Phase, run' = [run EXCEPT ![r] = phase],
         UNCHANGED <<graph, pending, row, slots, poll, crashes>>,
         ~At(r, "done"), RunOK(r)', r \in slots => phase.name = run[r].name
  PROVE  IInv'
<1>1. run' \in [Run -> Phase] /\ GraphKept /\ \A s \in Run \ {r} : Undisturbed(s)
  BY DEF IInv, TypeOK, GraphKept, Undisturbed
<1>2. SlotInv'
  <2>1. \A s \in slots' : run'[s].name = run[s].name
    BY DEF IInv, TypeOK
  <2> QED BY <2>1, FewerSlots DEF IInv
<1> QED BY <1>1, <1>2, OneRunSteps DEF IInv, TypeOK

(***************************************************************************)
(* The steps of a request that change nothing but its thread.              *)
(***************************************************************************)
Moves(r) ==
  Request(r) \/ RejectIfCelexAlreadyIngested(r) \/ RejectIfShortNameClaimed(r) \/ GraphFails(r) \/ StartBackgroundRun(r)

LEMMA RequestSteps ==
  ASSUME IInv, NEW r \in Run, Moves(r)  PROVE IInv'
<1> USE DEF IInv, TypeOK, RunInv, RunOK, Asked, OwnsSlot, Reported, Rowed, Busy, At
<1>1. run[r] \in Phase /\ r \in DOMAIN run
  OBVIOUS
<1>2. CASE Request(r)
  <2>1. PICK asks \in Asks :
          run' = [run EXCEPT ![r] = [@ EXCEPT !.pc = "celex", !.celex = asks[r].celex, !.name = asks[r].name,
                                             !.sync = asks[r].sync]]
    BY <1>2 DEF Request
  <2> DEFINE q == asks[r]
  <2> DEFINE phase == [run[r] EXCEPT !.pc = "celex", !.celex = q.celex, !.name = q.name, !.sync = q.sync]
  <2>2. q \in [celex : Celex, name : ShortName, sync : BOOLEAN]
    BY IngestionAssumption
  <2>3. phase \in Phase
    BY <1>1, <2>2 DEF Phase, RequestPC
  <2>4. run' = [run EXCEPT ![r] = phase] /\ ~At(r, "done") /\ UNCHANGED <<graph, pending, row, slots, poll, crashes>>
    BY <1>2, <2>1 DEF Request
  <2>5. phase.pc = "celex" /\ phase.celex \in Celex /\ phase.name \in ShortName /\ phase.result = run[r].result
    BY <1>1, <2>2 DEF Phase
  <2>6. r \notin slots /\ row[r] = "none" /\ run[r].result # "succeeded"
    BY <1>2 DEF Request, WorkerPC
  <2>7. RunOK(r)'
    BY <2>4, <2>5, <2>6 DEF WorkerPC
  <2> QED BY <2>3, <2>4, <2>6, <2>7, ThreadSteps
<1>3. ASSUME NEW pc, pc \in {"done", "name", "preflight", "reserve"}, Goto(r, pc), At(r, "celex") \/ At(r, "name"),
             UNCHANGED <<graph, pending, row, slots, poll, crashes>>, pc = "reserve" => ~run[r].sync,
             pc = "preflight" => run[r].sync
      PROVE  IInv'
  <2> DEFINE phase == [run[r] EXCEPT !.pc = pc]
  <2>1. phase \in Phase
    BY <1>1, <1>3 DEF Phase, RequestPC, WorkerPC
  <2>2. run' = [run EXCEPT ![r] = phase] /\ ~At(r, "done")
    BY <1>3 DEF Goto
  <2>3. phase.pc = pc /\ phase = [run[r] EXCEPT !.pc = pc]
    BY <1>1 DEF Phase
  <2>4. r \notin slots /\ row[r] = "none" /\ run[r].celex \in Celex /\ run[r].name \in ShortName
    BY <1>3 DEF WorkerPC
  <2>5. phase.celex = run[r].celex /\ phase.name = run[r].name /\ phase.sync = run[r].sync
        /\ phase.result = run[r].result
    BY <1>1 DEF Phase
  <2>6. RunOK(r)'
    BY <1>1, <1>3, <2>2, <2>3, <2>4, <2>5 DEF WorkerPC
  <2> QED BY <1>3, <2>1, <2>2, <2>4, <2>6, ThreadSteps
<1>4. CASE RejectIfCelexAlreadyIngested(r)
  BY <1>3, <1>4 DEF RejectIfCelexAlreadyIngested
<1>5. CASE RejectIfShortNameClaimed(r)
  BY <1>1, <1>3, <1>5 DEF RejectIfShortNameClaimed, Phase
<1>6. CASE GraphFails(r)
  BY <1>3, <1>6 DEF GraphFails
<1>7. CASE StartBackgroundRun(r)
  <2>1. PICK pc \in {"preflight", "free"} : Goto(r, pc)
    BY <1>7 DEF StartBackgroundRun
  <2> DEFINE phase == [run[r] EXCEPT !.pc = pc]
  <2>2. phase \in Phase
    BY <1>1, <2>1 DEF Phase, RequestPC, WorkerPC
  <2>3. run' = [run EXCEPT ![r] = phase] /\ ~At(r, "done") /\ UNCHANGED <<graph, pending, row, slots, poll, crashes>>
    BY <1>7, <2>1 DEF Goto, StartBackgroundRun
  <2>4. /\ phase.pc = pc /\ phase.celex = run[r].celex /\ phase.name = run[r].name
        /\ phase.sync = run[r].sync /\ phase.result = run[r].result
    BY <1>1 DEF Phase
  <2>5. RunOK(r)'
    BY <1>1, <1>7, <2>3, <2>4 DEF WorkerPC, StartBackgroundRun
  <2> QED BY <2>2, <2>3, <2>4, <2>5, ThreadSteps
<1> QED BY <1>2, <1>4, <1>5, <1>6, <1>7 DEF Moves

(***************************************************************************)
(* The steps that take a slot, give it back, or write a row.               *)
(***************************************************************************)
LEMMA Changed ==
  ASSUME IInv, NEW r \in Run, NEW pc \in {"done", "create", "start", "free", "release"}, Goto(r, pc)
  PROVE  /\ run' \in [Run -> Phase]
         /\ \A s \in Run \ {r} : run'[s] = run[s]
         /\ run'[r].pc = pc /\ run'[r].celex = run[r].celex /\ run'[r].name = run[r].name
         /\ run'[r].sync = run[r].sync /\ run'[r].result = run[r].result
BY DEF IInv, TypeOK, Goto, Phase, RequestPC, WorkerPC

LEMMA ReserveStep ==
  ASSUME IInv, NEW r \in Run, ReserveRunSlot(r)  PROVE IInv'
<1> USE DEF IInv, TypeOK, RunInv, RunOK, Asked, OwnsSlot, Reported, Rowed, Busy, At
<1>1. r \notin slots /\ row[r] = "none" /\ ~run[r].sync
  BY DEF ReserveRunSlot, WorkerPC
<1>2. CASE InProgress(r) \/ Cardinality(slots) >= MaxInFlight
  <2>1. Goto(r, "done") /\ UNCHANGED <<graph, pending, row, slots, poll, crashes>>
    BY <1>2 DEF ReserveRunSlot
  <2>2. RunOK(r)' /\ GraphKept /\ \A s \in Run \ {r} : Undisturbed(s)
    BY <1>1, <2>1, Changed DEF ReserveRunSlot, WorkerPC, GraphKept, Undisturbed
  <2>3. SlotInv'
    BY <1>1, <2>1, Changed, FewerSlots
  <2> QED BY <1>1, <2>1, <2>2, <2>3, Changed, OneRunSteps DEF ReserveRunSlot
<1>3. CASE ~InProgress(r) /\ ~(Cardinality(slots) >= MaxInFlight)
  <2>1. Goto(r, "create") /\ slots' = slots \cup {r} /\ UNCHANGED <<graph, pending, row, poll, crashes>>
    BY <1>3 DEF ReserveRunSlot
  <2>2. RunOK(r)' /\ GraphKept /\ \A s \in Run \ {r} : Undisturbed(s)
    BY <1>1, <2>1, Changed DEF ReserveRunSlot, WorkerPC, GraphKept, Undisturbed
  <2>3. IsFiniteSet(slots') /\ Cardinality(slots') = Cardinality(slots) + 1
    BY <1>1, <2>1, FS_AddElement DEF SlotInv
  <2>4. Cardinality(slots) \in Nat
    BY FS_CardinalityType DEF SlotInv
  <2>5. \A s, t \in slots' : run'[s].name = run'[t].name => s = t
    BY <1>1, <1>3, <2>1, Changed DEF InProgress, SlotInv
  <2>6. SlotInv'
    BY <1>3, <2>3, <2>4, <2>5, IngestionAssumption DEF SlotInv
  <2> QED BY <1>1, <2>1, <2>2, <2>6, Changed, OneRunSteps DEF ReserveRunSlot
<1> QED BY <1>2, <1>3

LEMMA CreateStep ==
  ASSUME IInv, NEW r \in Run, CreateRun(r)  PROVE IInv'
<1> USE DEF IInv, TypeOK, RunInv, RunOK, Asked, OwnsSlot, Reported, Rowed, Busy, At
<1>1. PICK pc \in {"start", "free"} :
        /\ Goto(r, pc)
        /\ row' = [row EXCEPT ![r] = "running"] \/ row' = row
  BY DEF CreateRun
<1>2. UNCHANGED <<graph, pending, slots, poll, crashes>> /\ run[r].pc = "create" /\ ~run[r].sync /\ r \in slots
  BY DEF CreateRun
<1>3. row' \in [Run -> Status] /\ (\A s \in Run \ {r} : row'[s] = row[s]) /\ row'[r] \in {row[r], "running"}
  BY <1>1 DEF Status
<1>4. RunOK(r)'
  BY <1>1, <1>2, <1>3, Changed DEF WorkerPC
<1>5. GraphKept /\ \A s \in Run \ {r} : Undisturbed(s)
  BY <1>1, <1>2, <1>3, Changed DEF GraphKept, Undisturbed
<1>6. SlotInv'
  BY <1>1, <1>2, Changed, FewerSlots
<1> QED BY <1>1, <1>2, <1>3, <1>4, <1>5, <1>6, Changed, OneRunSteps

LEMMA Ended ==
  ASSUME IInv, NEW r \in Run, run' = [run EXCEPT ![r] = Over(@)]
  PROVE  /\ run' \in [Run -> Phase]
         /\ \A s \in Run \ {r} : run'[s] = run[s]
         /\ run'[r].pc = "done" /\ run'[r].celex = run[r].celex /\ run'[r].name = run[r].name
         /\ run'[r].sync = run[r].sync /\ run'[r].result = IF run[r].result = "logged" THEN "logged" ELSE "none"
BY DEF IInv, TypeOK, Over, Phase

LEMMA FreeStep ==
  ASSUME IInv, NEW r \in Run, FreeSlot(r) \/ ReleaseRunSlot(r)  PROVE IInv'
<1> USE DEF IInv, TypeOK, RunInv, RunOK, Asked, OwnsSlot, Reported, Rowed, Busy, At
<1>1. /\ run[r].pc \in {"free", "release"} /\ ~run[r].sync
      /\ slots' = slots \ {r} /\ UNCHANGED <<graph, pending, row, poll, crashes>>
  BY DEF FreeSlot, ReleaseRunSlot
<1>2. /\ run' \in [Run -> Phase] /\ \A s \in Run \ {r} : run'[s] = run[s]
      /\ run'[r].pc = "done" /\ run'[r].celex = run[r].celex /\ run'[r].name = run[r].name
      /\ run'[r].sync = run[r].sync /\ (run'[r].result = "succeeded" => run[r].result = "succeeded")
  <2>1. CASE FreeSlot(r)
    BY <2>1, Changed DEF FreeSlot
  <2>2. CASE ReleaseRunSlot(r)
    BY <2>2, Ended DEF ReleaseRunSlot
  <2> QED BY <2>1, <2>2
<1>3. RunOK(r)'
  BY <1>1, <1>2 DEF WorkerPC
<1>4. GraphKept /\ \A s \in Run \ {r} : Undisturbed(s)
  BY <1>1, <1>2 DEF GraphKept, Undisturbed
<1>5. SlotInv'
  BY <1>1, <1>2, FewerSlots
<1> QED BY <1>1, <1>2, <1>3, <1>4, <1>5, OneRunSteps

LEMMA RecordStep ==
  ASSUME IInv, NEW r \in Run, RecordIngestionRunOutcome(r)  PROVE IInv'
<1> USE DEF IInv, TypeOK, RunInv, RunOK, Asked, OwnsSlot, Reported, Rowed, Busy, At
<1> DEFINE outcome == IF run[r].result = "succeeded" THEN "succeeded" ELSE "failed"
<1>1. outcome \in {"succeeded", "failed"}
  OBVIOUS
<1>2. /\ run[r].pc = "record" /\ ~run[r].sync /\ r \in slots /\ Goto(r, "release")
      /\ UNCHANGED <<graph, pending, slots, poll, crashes>>
      /\ row' = row \/ (row[r] = "running" /\ row' = [row EXCEPT ![r] = outcome])
  BY DEF RecordIngestionRunOutcome, CompleteRun, Completable, WorkerPC
<1>3. /\ row' \in [Run -> Status] /\ (\A s \in Run \ {r} : row'[s] = row[s])
      /\ row'[r] = row[r] \/ (row[r] = "running" /\ row'[r] \in {"succeeded", "failed"})
  BY <1>1, <1>2 DEF Status
<1>4. RunOK(r)'
  BY <1>2, <1>3, Changed DEF WorkerPC
<1>5. GraphKept /\ \A s \in Run \ {r} : Undisturbed(s)
  BY <1>2, <1>3, Changed DEF GraphKept, Undisturbed
<1>6. SlotInv'
  BY <1>2, Changed, FewerSlots
<1> QED BY <1>2, <1>3, <1>4, <1>5, <1>6, Changed, OneRunSteps

(***************************************************************************)
(* The pipeline.  A stage that succeeds leaves an instrument in the graph. *)
(***************************************************************************)
LEMMA Finished ==
  ASSUME IInv, NEW r \in Run, NEW result \in {"succeeded", "failed", "logged"}, Finish(r, result)
  PROVE  /\ run' \in [Run -> Phase]
         /\ \A s \in Run \ {r} : run'[s] = run[s]
         /\ run'[r].pc = IF run[r].sync THEN "done" ELSE "record"
         /\ run'[r].celex = run[r].celex /\ run'[r].name = run[r].name
         /\ run'[r].sync = run[r].sync /\ run'[r].result = result
BY DEF IInv, TypeOK, Finish, Phase, WorkerPC

LEMMA FinishStep ==
  ASSUME IInv, NEW r \in Run, NEW result \in {"succeeded", "failed", "logged"}, Finish(r, result),
         At(r, "preflight") \/ At(r, "stages"), UNCHANGED <<row, slots, poll, crashes>>,
         graph' \in [ShortName -> Celex \cup {None}], GraphKept, pending' \in Merge \cup {NoMerge},
         result = "succeeded" => graph'[run[r].name] # None
  PROVE  IInv'
<1> USE DEF IInv, TypeOK, RunInv, RunOK, Asked, OwnsSlot, Reported, Rowed, Busy, At
<1>1. RunOK(r)'
  BY Finished DEF WorkerPC
<1>2. \A s \in Run \ {r} : Undisturbed(s)
  BY Finished DEF Undisturbed
<1>3. SlotInv'
  BY Finished, FewerSlots
<1> QED BY <1>1, <1>2, <1>3, Finished, OneRunSteps

LEMMA PipelineStep ==
  ASSUME IInv, NEW r \in Run, Preflight(r) \/ ExecuteCatalogStages(r)  PROVE IInv'
<1> USE DEF IInv, TypeOK, At
<1>1. run[r] \in Phase /\ run[r].celex \in Celex /\ run[r].name \in ShortName
  BY DEF RunInv, Asked, Preflight, ExecuteCatalogStages
<1>2. CASE Preflight(r) /\ Goto(r, "stages")
  <2> DEFINE phase == [run[r] EXCEPT !.pc = "stages"]
  <2>1. phase \in Phase
    BY <1>1 DEF Phase, WorkerPC
  <2>2. run' = [run EXCEPT ![r] = phase] /\ UNCHANGED <<graph, pending, row, slots, poll, crashes>>
    BY <1>2 DEF Goto, Preflight
  <2>3. /\ phase.pc = "stages" /\ phase.celex = run[r].celex /\ phase.name = run[r].name
        /\ phase.sync = run[r].sync /\ phase.result = run[r].result
    BY <1>1 DEF Phase
  <2>4. RunOK(r)'
    BY <1>1, <1>2, <2>2, <2>3 DEF Preflight, RunInv, RunOK, Asked, OwnsSlot, Reported, Rowed, Busy, WorkerPC
  <2> QED BY <1>2, <2>1, <2>2, <2>3, <2>4, ThreadSteps DEF Preflight
<1>3. CASE Preflight(r) /\ \E result \in {"succeeded", "failed"} :
             Finish(r, result) /\ (result = "succeeded" => graph[run[r].name] # None)
  BY <1>3, FinishStep DEF Preflight, GraphKept
<1>4. CASE ExecuteCatalogStages(r)
  <2>1. PICK result \in {"succeeded", "failed", "logged"} :
          /\ Finish(r, result)
          /\ \/ graph' = [graph EXCEPT ![run[r].name] = run[r].celex]
             \/ graph' = graph /\ result # "succeeded"
    BY <1>4 DEF ExecuteCatalogStages, Applied, MergeOf
  <2>2. graph' \in [ShortName -> Celex \cup {None}] /\ GraphKept
    BY <1>1, <2>1, IngestionAssumption DEF GraphKept
  <2>3. result = "succeeded" => graph'[run[r].name] # None
    BY <1>1, <2>1, IngestionAssumption
  <2>4. pending' \in Merge \cup {NoMerge}
    <3>1. MergeOf(r) \in Merge
      BY <1>1 DEF MergeOf, Merge
    <3>2. pending' = pending \/ pending' = MergeOf(r)
      BY <1>4 DEF ExecuteCatalogStages
    <3> QED BY <3>1, <3>2
  <2> QED BY <1>4, <2>1, <2>2, <2>3, <2>4, FinishStep DEF ExecuteCatalogStages
<1> QED BY <1>2, <1>3, <1>4 DEF Preflight

(***************************************************************************)
(* A merge the gateway applies on its own disturbs no run.                 *)
(***************************************************************************)
LEMMA PendingTyped ==
  ASSUME IInv, pending # NoMerge
  PROVE  pending.name \in ShortName /\ pending.celex \in Celex /\ pending.celex # None
BY IngestionAssumption DEF IInv, TypeOK, Merge

LEMMA CatchUpStep ==
  ASSUME IInv, CatchUp  PROVE IInv'
<1>1. UNCHANGED <<row, slots, run, poll, crashes>> /\ pending' = NoMerge
      /\ graph' = [graph EXCEPT ![pending.name] = pending.celex]
  BY DEF CatchUp, Applied
<1>2. graph' \in [ShortName -> Celex \cup {None}] /\ GraphKept
  BY <1>1, PendingTyped DEF CatchUp, IInv, TypeOK, GraphKept
<1>3. TypeOK'
  BY <1>1, <1>2 DEF IInv, TypeOK
<1>4. RunInv'
  BY <1>1, <1>2, OthersKept DEF IInv, RunInv, RunOK, Undisturbed
<1>5. SlotInv' /\ PollInv'
  BY <1>1 DEF IInv, SlotInv, PollInv, At
<1> QED BY <1>3, <1>4, <1>5 DEF IInv

(***************************************************************************)
(* The polls and the restart.  A poll that finds a row without a slot has  *)
(* found a run whose thread is gone, and no thread comes back.             *)
(***************************************************************************)
LEMMA PollStep ==
  ASSUME IInv, NEW p \in Poller,
         Reconcile(p) \/ \E r \in Run : GetIngestionStatus(p, r)
  PROVE  IInv'
<1> USE DEF IInv, TypeOK
<1>1. UNCHANGED <<graph, pending, slots, run, crashes>>
  BY DEF Reconcile, GetIngestionStatus, CheckInFlight, ReconcileOrphanedRun, ReconcileFails
<1>2. SlotInv'
  BY <1>1, FewerSlots
<1>3. CASE row' = row
  <2>1. RunInv'
    BY <1>1, <1>3 DEF RunInv, Asked, OwnsSlot, Reported, Rowed, At
  <2>2. \E q \in Poll : poll' = [poll EXCEPT ![p] = q]
    <3>1. \A r \in Run : [pc |-> "slot", of |-> r] \in Poll /\ NoPoll \in Poll
                         /\ [poll[p] EXCEPT !.pc = "complete"] \in Poll
      BY DEF Poll, NoPoll
    <3> QED BY <3>1 DEF Reconcile, GetIngestionStatus, CheckInFlight, ReconcileOrphanedRun, ReconcileFails
  <2>3. poll[p].pc = "slot" /\ poll[p].of \notin slots => run[poll[p].of].pc = "done"
    BY DEF RunInv, OwnsSlot, Rowed, Busy, WorkerPC
  <2>4. \A q \in Poller : /\ poll'[q].pc # "idle" => poll'[q].of \in Run /\ row[poll'[q].of] # "none"
                          /\ poll'[q].pc = "complete" => run[poll'[q].of].pc = "done"
    <3>1. CASE \E r \in Run : GetIngestionStatus(p, r)
      BY <3>1 DEF GetIngestionStatus, PollInv, At
    <3>2. CASE CheckInFlight(p)
      <4>1. \A q \in Poller \ {p} : poll'[q] = poll[q]
        BY <3>2 DEF CheckInFlight
      <4>2. poll'[p].pc = "idle"
            \/ (poll[p].of \notin slots /\ poll'[p].of = poll[p].of /\ poll[p].pc = "slot")
        BY <3>2 DEF CheckInFlight, IsRunInFlight, NoPoll, Poll
      <4> QED BY <2>3, <4>1, <4>2 DEF PollInv, At
    <3>3. CASE ReconcileOrphanedRun(p) \/ ReconcileFails(p)
      <4>1. poll' = [poll EXCEPT ![p] = NoPoll]
        BY <3>3 DEF ReconcileOrphanedRun, ReconcileFails
      <4>2. \A q \in Poller : poll'[q] = poll[q] \/ poll'[q].pc = "idle"
        BY <4>1 DEF NoPoll
      <4> QED BY <4>2 DEF PollInv, At
    <3> QED BY <3>1, <3>2, <3>3 DEF Reconcile
  <2> QED BY <1>1, <1>2, <1>3, <2>1, <2>2, <2>4 DEF PollInv, At
<1>4. CASE row' # row
  <2> DEFINE r == poll[p].of
  <2>1. ReconcileOrphanedRun(p)
    BY <1>4 DEF Reconcile, GetIngestionStatus, CheckInFlight, ReconcileFails
  <2>2. r \in Run /\ run[r].pc = "done" /\ row[r] = "running" /\ row' = [row EXCEPT ![r] = "interrupted"]
    BY <1>4, <2>1 DEF ReconcileOrphanedRun, CompleteRun, Completable, PollInv, At
  <2>3. row' \in [Run -> Status] /\ \A s \in Run : row'[s] = row[s] \/ (s = r /\ row'[s] = "interrupted")
    BY <2>2 DEF Status
  <2>4. RunInv'
    BY <1>1, <2>2, <2>3 DEF RunInv, Asked, OwnsSlot, Reported, Rowed, At
  <2>5. poll' \in [Poller -> Poll] /\ \A q \in Poller : poll'[q].pc # "idle" => poll'[q] = poll[q]
    BY <2>1 DEF ReconcileOrphanedRun, Poll, NoPoll
  <2>6. PollInv'
    BY <1>1, <2>5 DEF PollInv, At
  <2>7. \A q \in Poller : poll'[q].pc # "idle" => poll'[q].of \in Run /\ row'[poll'[q].of] # "none"
    BY <2>2, <2>3, <2>5
  <2> QED BY <1>1, <1>2, <2>3, <2>4, <2>5, <2>6, <2>7
<1> QED BY <1>3, <1>4

LEMMA Crashed ==
  ASSUME IInv, Crash
  PROVE  /\ run' \in [Run -> Phase] /\ pending' \in Merge \cup {NoMerge}
         /\ \A r \in Run : /\ run'[r].pc = IF run[r].pc = "idle" THEN "idle" ELSE "done"
                           /\ run'[r].celex = run[r].celex /\ run'[r].name = run[r].name
                           /\ run'[r].sync = run[r].sync /\ run'[r].result \in {"none", "logged", run[r].result}
                           /\ run[r].pc = "idle" => run'[r] = run[r]
                           /\ run[r].pc # "idle" => run'[r].result # "succeeded"
                           /\ run[r].result = "logged" => run'[r].result = "logged"
                           /\ run'[r].result = "logged" => run[r].result = "logged" \/ run'[r].pc = "done"
         /\ pending' = pending \/ \E q \in Run : /\ At(q, "stages") /\ pending = NoMerge /\ pending' = MergeOf(q)
                                                 /\ run'[q].result = "logged"
<1> USE DEF IInv, TypeOK, At
<1>1. PICK q \in {None} \cup {r \in Run : At(r, "stages") /\ pending = NoMerge} :
        /\ pending' = IF q = None THEN pending ELSE MergeOf(q)
        /\ run' = [r \in Run |-> IF At(r, "idle") THEN run[r]
                                 ELSE Over(IF r = q THEN [run[r] EXCEPT !.result = "logged"] ELSE run[r])]
  BY DEF Crash
<1>2. \A r \in Run : /\ run'[r] \in Phase
                     /\ run'[r].pc = IF run[r].pc = "idle" THEN "idle" ELSE "done"
                     /\ run'[r].celex = run[r].celex /\ run'[r].name = run[r].name
                     /\ run'[r].sync = run[r].sync
                     /\ run[r].pc = "idle" => run'[r] = run[r]
                     /\ run[r].pc # "idle" => run'[r].result = IF r = q \/ run[r].result = "logged" THEN "logged" ELSE "none"
  <2> SUFFICES ASSUME NEW r \in Run
               PROVE  /\ run'[r] \in Phase
                      /\ run'[r].pc = IF run[r].pc = "idle" THEN "idle" ELSE "done"
                      /\ run'[r].celex = run[r].celex /\ run'[r].name = run[r].name
                      /\ run'[r].sync = run[r].sync
                      /\ run[r].pc = "idle" => run'[r] = run[r]
                      /\ run[r].pc # "idle" =>
                           run'[r].result = IF r = q \/ run[r].result = "logged" THEN "logged" ELSE "none"
    OBVIOUS
  <2>1. run[r] \in Phase
    OBVIOUS
  <2>2. CASE run[r].pc = "idle"
    BY <1>1, <2>1, <2>2
  <2>3. CASE run[r].pc # "idle" /\ r = q
    <3>1. run'[r] = Over([run[r] EXCEPT !.result = "logged"])
      BY <1>1, <2>3
    <3> QED BY <2>1, <2>3, <3>1 DEF Over, Phase
  <2>4. CASE run[r].pc # "idle" /\ r # q
    <3>1. run'[r] = Over(run[r])
      BY <1>1, <2>4
    <3> QED BY <2>1, <2>4, <3>1 DEF Over, Phase
  <2> QED BY <2>2, <2>3, <2>4
<1>3. run' \in [Run -> Phase]
  BY <1>1, <1>2
<1>4. CASE q = None
  BY <1>1, <1>2, <1>3, <1>4
<1>5. CASE q # None
  <2>1. q \in Run /\ run[q].pc = "stages" /\ pending = NoMerge /\ pending' = MergeOf(q)
    BY <1>1, <1>5
  <2>2. pending' \in Merge
    BY <2>1 DEF MergeOf, Merge, RunInv, Asked
  <2> QED BY <1>2, <1>3, <2>1, <2>2
<1> QED BY <1>4, <1>5

LEMMA CrashStep ==
  ASSUME IInv, Crash  PROVE IInv'
<1> USE DEF IInv, TypeOK
<1>1. /\ slots' = {} /\ UNCHANGED <<graph, row>> /\ crashes' = crashes + 1
      /\ poll' = [p \in Poller |-> NoPoll]
  BY DEF Crash
<1>2. run' \in [Run -> Phase] /\ pending' \in Merge \cup {NoMerge}
  BY Crashed
<1>3. \A r \in Run : /\ run'[r].pc \in {"idle", "done"} /\ (run'[r].pc = "idle" <=> run[r].pc = "idle")
                     /\ run'[r].celex = run[r].celex /\ run'[r].name = run[r].name
                     /\ run'[r].sync = run[r].sync
                     /\ (run'[r].result = "succeeded" => run[r].result = "succeeded")
  BY Crashed
<1>4. RunInv'
  BY <1>1, <1>3 DEF RunInv, Asked, OwnsSlot, Reported, Rowed, Busy, At, WorkerPC
<1>5. SlotInv'
  BY <1>1, FewerSlots
<1>6. poll' \in [Poller -> Poll] /\ \A p \in Poller : poll'[p].pc = "idle"
  BY <1>1 DEF NoPoll, Poll
<1> QED BY <1>1, <1>2, <1>4, <1>5, <1>6 DEF PollInv

LEMMA StutterStep ==
  ASSUME IInv, UNCHANGED vars  PROVE IInv'
<1> USE DEF IInv, vars
<1>1. TypeOK'
  BY DEF TypeOK
<1>2. RunInv'
  BY DEF RunInv, Asked, OwnsSlot, Reported, Rowed, At
<1>3. SlotInv' /\ PollInv'
  BY DEF SlotInv, PollInv, At
<1> QED BY <1>1, <1>2, <1>3

LEMMA StepIInv ==
  ASSUME IInv, [Next]_vars  PROVE IInv'
<1>1. ASSUME NEW r \in Run, Request(r) \/ Proceed(r)  PROVE IInv'
  BY <1>1, RequestSteps, ReserveStep, CreateStep, FreeStep, RecordStep, PipelineStep DEF Moves, Proceed
<1>2. ASSUME NEW p \in Poller, Reconcile(p) \/ \E r \in Run : GetIngestionStatus(p, r)  PROVE IInv'
  BY <1>2, PollStep
<1> QED BY <1>1, <1>2, CatchUpStep, CrashStep, StutterStep DEF Next

-----------------------------------------------------------------------------
(***************************************************************************)
(* Theorems.                                                               *)
(***************************************************************************)
LEMMA IInvHolds == Spec => []IInv
<1>1. IInv /\ [Next]_vars => IInv'
  BY StepIInv
<1> QED BY InitIInv, <1>1, PTL DEF Spec

\* Types hold, and who may hold a slot (dispatch.py's reserve and release).
THEOREM TypeCorrect == Spec => []TypeOK
<1>1. IInv => TypeOK
  BY DEF IInv
<1> QED BY IInvHolds, <1>1, PTL

(***************************************************************************)
(* A worker holds its slot while it works, workers are within the cap and  *)
(* on different short names, and nobody works on a run judged interrupted. *)
(***************************************************************************)
THEOREM SlotsAreHeld == Spec => []SlotsHold
<1>1. IInv => SlotsHold
  <2> SUFFICES ASSUME IInv  PROVE SlotsHold
    OBVIOUS
  <2>1. \A r \in Run : Working(r) => r \in slots
    BY DEF IInv, RunInv, OwnsSlot, Busy, Working
  <2>2. Cardinality({r \in Run : Working(r)}) <= MaxInFlight
    <3> DEFINE W == {r \in Run : Working(r)}
    <3>1. W \subseteq slots
      BY <2>1
    <3>2. IsFiniteSet(W) /\ Cardinality(W) <= Cardinality(slots)
      BY <3>1, FS_Subset DEF IInv, SlotInv
    <3>3. Cardinality(W) \in Nat /\ Cardinality(slots) \in Nat
      BY <3>2, FS_CardinalityType DEF IInv, SlotInv
    <3> QED BY <3>2, <3>3, IngestionAssumption DEF IInv, SlotInv
  <2>3. \A r, s \in Run : Working(r) /\ Working(s) /\ run[r].name = run[s].name => r = s
    BY <2>1 DEF IInv, SlotInv
  <2>4. \A r \in Run : row[r] = "interrupted" => ~Working(r)
    BY DEF IInv, RunInv, Rowed, At, Working, WorkerPC
  <2> QED BY <2>1, <2>2, <2>3, <2>4 DEF SlotsHold
<1> QED BY IInvHolds, <1>1, PTL

(***************************************************************************)
(* The conditional update gives every run at most one outcome, and a       *)
(* success is recorded after the instrument is in the graph.               *)
(***************************************************************************)
THEOREM OutcomesAreFinal == Spec => OneOutcome
<1> DEFINE Step == \A r \in Run :
              /\ row[r] \in {"succeeded", "failed", "interrupted"} => row'[r] = row[r]
              /\ row[r] # row'[r] /\ row'[r] = "succeeded" => graph[run[r].name] # None
<1>1. IInv /\ [Next]_vars => [Step]_vars
  <2> SUFFICES ASSUME IInv, Next  PROVE Step
    OBVIOUS
  <2> USE DEF IInv, TypeOK
  <2>1. CASE row' = row
    BY <2>1
  <2>2. ASSUME NEW r \in Run, CreateRun(r)  PROVE Step
    <3>1. row[r] = "none"
      BY <2>2 DEF RunInv, Rowed, At, CreateRun, WorkerPC
    <3>2. \A s \in Run : row'[s] = row[s] \/ (s = r /\ row'[s] = "running")
      BY <2>2 DEF CreateRun
    <3> QED BY <3>1, <3>2
  <2>3. ASSUME NEW r \in Run, RecordIngestionRunOutcome(r)  PROVE Step
    <3>1. \A s \in Run : row'[s] = row[s] \/ /\ s = r /\ row[s] = "running"
                                             /\ row'[s] = IF run[r].result = "succeeded" THEN "succeeded" ELSE "failed"
      BY <2>3 DEF RecordIngestionRunOutcome, CompleteRun, Completable
    <3> QED BY <3>1 DEF RunInv, Reported
  <2>4. ASSUME NEW p \in Poller, ReconcileOrphanedRun(p)  PROVE Step
    <3>1. \A s \in Run : row'[s] = row[s] \/ (row[s] = "running" /\ row'[s] = "interrupted")
      BY <2>4 DEF ReconcileOrphanedRun, CompleteRun, Completable
    <3> QED BY <3>1
  <2>5. row' = row \/ (\E r \in Run : CreateRun(r) \/ RecordIngestionRunOutcome(r))
                   \/ \E p \in Poller : ReconcileOrphanedRun(p)
    BY DEF Next, Request, Proceed, RejectIfCelexAlreadyIngested, RejectIfShortNameClaimed, GraphFails,
           ReserveRunSlot, StartBackgroundRun, FreeSlot, Preflight, ExecuteCatalogStages, ReleaseRunSlot,
           Reconcile, CheckInFlight, ReconcileFails, GetIngestionStatus, CatchUp, Crash
  <2> QED BY <2>1, <2>2, <2>3, <2>4, <2>5
<1> QED BY IInvHolds, <1>1, PTL DEF Spec, OneOutcome

-----------------------------------------------------------------------------
(***************************************************************************)
(* What a background run saw in its preflight is still so when it merges,  *)
(* and when its merge is applied later: the graph has no instrument under  *)
(* its short name, or one that a run without a slot put there.  The slot   *)
(* keeps every other writer away, and a writer applies what is left in the *)
(* log before its own.                                                     *)
(***************************************************************************)
ByUnslotted(n) == \E s \in Run : Unslotted(s) /\ run[s].name = n /\ run[s].celex = graph[n]

Fresh(n) == graph[n] # None => ByUnslotted(n)

StagesInv == \A r \in Run : At(r, "stages") /\ ~run[r].sync => Fresh(run[r].name)

LoggedInv == \A r \in Run : run[r].result = "logged" => run[r].pc \in {"record", "release", "done"}

PendingInv ==
  pending # NoMerge =>
    \E s \in Run : /\ run[s].result = "logged" /\ run[s].name = pending.name /\ run[s].celex = pending.celex
                   /\ run[s].sync \/ Fresh(pending.name)

MergeInv == StagesInv /\ LoggedInv /\ PendingInv

(***************************************************************************)
(* A merge is left in the log by a thread that goes no further, and a      *)
(* thread that is over stays what it was.                                  *)
(***************************************************************************)
Early(r) ==
  \/ Request(r) \/ RejectIfCelexAlreadyIngested(r) \/ RejectIfShortNameClaimed(r) \/ GraphFails(r)
  \/ ReserveRunSlot(r) \/ CreateRun(r) \/ StartBackgroundRun(r) \/ FreeSlot(r)

LEMMA EarlySteps ==
  ASSUME IInv, NEW r \in Run, Early(r)
  PROVE  /\ run[r].pc \in {"idle", "start", "free"} \cup RequestPC
         /\ run'[r].pc \in {"preflight", "done"} \cup RequestPC /\ run'[r].result = run[r].result
         /\ \A s \in Run \ {r} : run'[s] = run[s]
<1> USE DEF IInv, TypeOK, At
<1>1. run[r].pc \in {"idle", "start", "free"} \cup RequestPC
  BY DEF Early, Request, RejectIfCelexAlreadyIngested, RejectIfShortNameClaimed, GraphFails, ReserveRunSlot,
         CreateRun, StartBackgroundRun, FreeSlot, RequestPC
<1>2. CASE Request(r)
  BY <1>1, <1>2 DEF Request, Phase, RequestPC
<1>3. CASE \E pc \in {"preflight", "done"} \cup RequestPC : Goto(r, pc)
  BY <1>1, <1>3 DEF Goto, Phase
<1>4. Early(r) => Request(r) \/ \E pc \in {"preflight", "done"} \cup RequestPC : Goto(r, pc)
  BY DEF Early, RejectIfCelexAlreadyIngested, RejectIfShortNameClaimed, GraphFails, ReserveRunSlot,
         CreateRun, StartBackgroundRun, FreeSlot, RequestPC
<1> QED BY <1>2, <1>3, <1>4

Same(s) ==
  /\ run'[s].name = run[s].name /\ run'[s].celex = run[s].celex /\ run'[s].sync = run[s].sync
  /\ run[s].result = "logged" => run'[s].result = "logged"
  /\ At(s, "done") => At(s, "done")'

LEMMA OutForGood ==
  ASSUME IInv, LoggedInv, [Next]_vars
  PROVE  LoggedInv' /\ \A s \in Run : Unslotted(s) => Same(s)
<1> USE DEF LoggedInv, Unslotted, Same, At
<1>1. ASSUME NEW r \in Run, Early(r)
      PROVE  LoggedInv' /\ \A s \in Run : Unslotted(s) => Same(s)
  <2>1. run[r].result # "logged" /\ run[r].pc # "done"
    BY <1>1, EarlySteps DEF RequestPC
  <2> QED BY <1>1, <2>1, EarlySteps
<1>2. ASSUME NEW r \in Run, Preflight(r) \/ ExecuteCatalogStages(r)
      PROVE  LoggedInv' /\ \A s \in Run : Unslotted(s) => Same(s)
  <2>1. run[r].result # "logged" /\ run[r].pc # "done" /\ run[r].sync \in BOOLEAN
    BY <1>2 DEF Preflight, ExecuteCatalogStages, IInv, TypeOK, Phase
  <2>2. CASE Goto(r, "stages")
    BY <2>1, <2>2 DEF Goto, IInv, TypeOK, Phase
  <2>3. ASSUME NEW result \in {"succeeded", "failed", "logged"}, Finish(r, result)
        PROVE  LoggedInv' /\ \A s \in Run : Unslotted(s) => Same(s)
    BY <2>1, <2>3, Finished
  <2> QED BY <1>2, <2>2, <2>3 DEF Preflight, ExecuteCatalogStages
<1>3. ASSUME NEW r \in Run, RecordIngestionRunOutcome(r)
      PROVE  LoggedInv' /\ \A s \in Run : Unslotted(s) => Same(s)
  <2>1. run[r].pc = "record" /\ Goto(r, "release")
    BY <1>3 DEF RecordIngestionRunOutcome
  <2>2. /\ \A s \in Run \ {r} : run'[s] = run[s]
        /\ run'[r].pc = "release" /\ run'[r].celex = run[r].celex /\ run'[r].name = run[r].name
        /\ run'[r].sync = run[r].sync /\ run'[r].result = run[r].result
    BY <2>1, Changed
  <2> QED BY <2>1, <2>2
<1>4. ASSUME NEW r \in Run, ReleaseRunSlot(r)
      PROVE  LoggedInv' /\ \A s \in Run : Unslotted(s) => Same(s)
  BY <1>4, Ended DEF ReleaseRunSlot
<1>5. CASE run' = run
  BY <1>5
<1>6. CASE Crash
  BY <1>6, Crashed
<1>7. CASE \E p \in Poller : Reconcile(p) \/ \E r \in Run : GetIngestionStatus(p, r)
  BY <1>5, <1>7 DEF Reconcile, CheckInFlight, ReconcileOrphanedRun, ReconcileFails, GetIngestionStatus
<1>8. CASE CatchUp \/ UNCHANGED vars
  BY <1>5, <1>8 DEF CatchUp, vars
<1> QED BY <1>1, <1>2, <1>3, <1>4, <1>6, <1>7, <1>8 DEF Next, Proceed, Early

(***************************************************************************)
(* The graph changes in the stages of one run, which writes its instrument *)
(* under its short name and is then past its stages, or when a merge that  *)
(* was left in the log is applied; nobody merges over one that was left.   *)
(***************************************************************************)
Merges(r) ==
  /\ At(r, "stages") /\ run[r].name \in ShortName /\ run[r].celex \in Celex
  /\ pending = NoMerge /\ pending' = NoMerge
  /\ graph' = [graph EXCEPT ![run[r].name] = run[r].celex]
  /\ run'[r].pc = IF run[r].sync THEN "done" ELSE "record"
  /\ run'[r].name = run[r].name /\ run'[r].celex = run[r].celex /\ run'[r].sync = run[r].sync
  /\ \A s \in Run \ {r} : run'[s] = run[s]

LEMMA OnlyStagesMerge ==
  ASSUME IInv, [Next]_vars, graph' # graph
  PROVE  CatchUp \/ \E r \in Run : Merges(r)
<1> SUFFICES ASSUME ~CatchUp  PROVE \E r \in Run : Merges(r)
  OBVIOUS
<1>1. PICK r \in Run : ExecuteCatalogStages(r)
  BY DEF Next, vars, Request, Proceed, RejectIfCelexAlreadyIngested, RejectIfShortNameClaimed, GraphFails,
         ReserveRunSlot, CreateRun, StartBackgroundRun, FreeSlot, Preflight, RecordIngestionRunOutcome,
         ReleaseRunSlot, Reconcile, CheckInFlight, ReconcileOrphanedRun, ReconcileFails, GetIngestionStatus, Crash
<1>2. PICK result \in {"succeeded", "failed", "logged"} : Finish(r, result)
  BY <1>1 DEF ExecuteCatalogStages
<1>3. /\ graph' = [graph EXCEPT ![run[r].name] = run[r].celex] /\ At(r, "stages")
      /\ pending = NoMerge /\ pending' = NoMerge
  BY <1>1 DEF ExecuteCatalogStages, Applied, MergeOf
<1>4. run[r].name \in ShortName /\ run[r].celex \in Celex
  BY <1>3 DEF IInv, RunInv, Asked, At
<1> QED BY <1>2, <1>3, <1>4, Finished DEF Merges

(***************************************************************************)
(* A merge is left in the log by a run in its stages, with the graph as it *)
(* was.                                                                    *)
(***************************************************************************)
LEMMA OnlyStagesLeave ==
  ASSUME IInv, [Next]_vars, pending' # pending, pending' # NoMerge
  PROVE  /\ graph' = graph
         /\ \E r \in Run : /\ At(r, "stages") /\ pending' = MergeOf(r) /\ run'[r].result = "logged"
                           /\ run'[r].name = run[r].name /\ run'[r].celex = run[r].celex
                           /\ run'[r].sync = run[r].sync
<1>1. Crash \/ \E r \in Run : ExecuteCatalogStages(r)
  BY DEF Next, vars, Request, Proceed, RejectIfCelexAlreadyIngested, RejectIfShortNameClaimed, GraphFails,
         ReserveRunSlot, CreateRun, StartBackgroundRun, FreeSlot, Preflight, RecordIngestionRunOutcome,
         ReleaseRunSlot, Reconcile, CheckInFlight, ReconcileOrphanedRun, ReconcileFails, GetIngestionStatus, CatchUp
<1>2. CASE Crash
  <2>1. graph' = graph
    BY <1>2 DEF Crash
  <2> QED BY <1>2, <2>1, Crashed
<1>3. ASSUME NEW r \in Run, ExecuteCatalogStages(r)
      PROVE  /\ graph' = graph
             /\ At(r, "stages") /\ pending' = MergeOf(r) /\ run'[r].result = "logged"
             /\ run'[r].name = run[r].name /\ run'[r].celex = run[r].celex /\ run'[r].sync = run[r].sync
  <2>1. graph' = graph /\ At(r, "stages") /\ pending' = MergeOf(r) /\ Finish(r, "logged")
    BY <1>3 DEF ExecuteCatalogStages
  <2> QED BY <2>1, Finished
<1> QED BY <1>1, <1>2, <1>3

(***************************************************************************)
(* A run enters its stages from a preflight that found no instrument.      *)
(***************************************************************************)
LEMMA EntersStages ==
  ASSUME IInv, [Next]_vars, NEW r \in Run, At(r, "stages")', run'[r] # run[r]
  PROVE  graph[run'[r].name] = None /\ graph' = graph
<1> USE DEF At
<1>1. CASE Preflight(r)
  <2>1. CASE Goto(r, "stages") /\ graph[run[r].name] = None
    <3>1. run'[r] = [run[r] EXCEPT !.pc = "stages"] /\ run[r] \in Phase
      BY <2>1 DEF Goto, IInv, TypeOK
    <3> QED BY <1>1, <2>1, <3>1 DEF Preflight, Phase
  <2>2. ASSUME NEW result \in {"succeeded", "failed", "logged"}, Finish(r, result)  PROVE FALSE
    BY <2>2, Finished
  <2> QED BY <1>1, <2>1, <2>2 DEF Preflight
<1>2. ASSUME NEW s \in Run, Early(s)  PROVE FALSE
  BY <1>2, EarlySteps DEF RequestPC
<1>3. ASSUME NEW s \in Run, ExecuteCatalogStages(s)  PROVE FALSE
  <2>1. ASSUME NEW result \in {"succeeded", "failed", "logged"}, Finish(s, result)  PROVE FALSE
    BY <2>1, Finished
  <2> QED BY <1>3, <2>1 DEF ExecuteCatalogStages
<1>4. ASSUME NEW s \in Run, RecordIngestionRunOutcome(s) \/ ReleaseRunSlot(s)  PROVE FALSE
  BY <1>4, Changed, Ended DEF RecordIngestionRunOutcome, ReleaseRunSlot
<1>5. ASSUME NEW s \in Run \ {r}, Preflight(s)  PROVE FALSE
  <2>1. ASSUME NEW result \in {"succeeded", "failed", "logged"}, Finish(s, result)  PROVE FALSE
    BY <1>5, <2>1, Finished
  <2> QED BY <1>5, <2>1 DEF Preflight, Goto, IInv, TypeOK
<1>6. run' # run /\ ~CatchUp /\ ~\E p \in Poller : Reconcile(p) \/ \E s \in Run : GetIngestionStatus(p, s)
  BY DEF CatchUp, Reconcile, CheckInFlight, ReconcileOrphanedRun, ReconcileFails, GetIngestionStatus
<1>7. ~Crash
  BY Crashed
<1> QED BY <1>1, <1>2, <1>3, <1>4, <1>5, <1>6, <1>7 DEF Next, Proceed, Early, vars

(***************************************************************************)
(* What explains an instrument goes on explaining it.                      *)
(***************************************************************************)
LEMMA FreshKept ==
  ASSUME IInv, LoggedInv, [Next]_vars, NEW n \in ShortName, graph'[n] = graph[n], Fresh(n)
  PROVE  graph'[n] # None => \E s \in Run : Unslotted(s)' /\ run'[s].name = n /\ run'[s].celex = graph'[n]
<1> SUFFICES ASSUME graph[n] # None
             PROVE  \E s \in Run : Unslotted(s)' /\ run'[s].name = n /\ run'[s].celex = graph'[n]
  OBVIOUS
<1>1. PICK s \in Run : Unslotted(s) /\ run[s].name = n /\ run[s].celex = graph[n]
  BY DEF Fresh, ByUnslotted
<1>2. Same(s)
  BY <1>1, OutForGood
<1> QED BY <1>1, <1>2 DEF Same, Unslotted, At

LEMMA StagesInvStep ==
  ASSUME IInv, MergeInv, [Next]_vars, NEW r \in Run, At(r, "stages")', ~run'[r].sync,
         NEW n \in ShortName, n = run'[r].name
  PROVE  graph'[n] # None => \E s \in Run : Unslotted(s)' /\ run'[s].name = n /\ run'[s].celex = graph'[n]
<1>1. CASE run'[r] # run[r]
  BY <1>1, EntersStages
<1>2. CASE run'[r] = run[r] /\ graph'[n] = graph[n]
  <2>1. Fresh(n)
    BY <1>2 DEF MergeInv, StagesInv, At
  <2> QED BY <1>2, <2>1, FreshKept DEF MergeInv
<1>3. CASE run'[r] = run[r] /\ graph'[n] # graph[n]
  <2>1. CASE CatchUp
    <3>1. PICK s \in Run : run[s].result = "logged" /\ run[s].name = pending.name /\ run[s].celex = pending.celex
      BY <2>1 DEF CatchUp, MergeInv, PendingInv
    <3>2. pending.name = n /\ graph'[n] = pending.celex
      BY <1>3, <2>1, PendingTyped DEF CatchUp, Applied, IInv, TypeOK
    <3>3. run' = run
      BY <2>1 DEF CatchUp
    <3> QED BY <3>1, <3>2, <3>3 DEF Unslotted
  <2>2. ASSUME NEW w \in Run, Merges(w)
        PROVE  \E s \in Run : Unslotted(s)' /\ run'[s].name = n /\ run'[s].celex = graph'[n]
    <3>1. w # r /\ run[w].name = n /\ graph'[n] = run[w].celex
      BY <1>3, <2>2 DEF Merges, At, IInv, TypeOK
    <3>2. run[w].sync
      <4> SUFFICES ASSUME ~run[w].sync  PROVE FALSE
        OBVIOUS
      <4>1. w \in slots /\ r \in slots
        BY <1>3, <2>2 DEF Merges, IInv, RunInv, OwnsSlot, Busy, WorkerPC, At
      <4> QED BY <1>3, <3>1, <4>1 DEF IInv, SlotInv
    <3>3. run'[w].sync /\ run'[w].name = n /\ run'[w].pc = "done" /\ graph'[n] = run'[w].celex
      BY <2>2, <3>1, <3>2 DEF Merges
    <3> QED BY <3>3 DEF Unslotted, At
  <2> QED BY <1>3, <2>1, <2>2, OnlyStagesMerge
<1> QED BY <1>1, <1>2, <1>3

LEMMA PendingInvStep ==
  ASSUME IInv, MergeInv, [Next]_vars, pending' # NoMerge, NEW n \in ShortName, n = pending'.name
  PROVE  \E s \in Run :
           /\ run'[s].result = "logged" /\ run'[s].name = n /\ run'[s].celex = pending'.celex
           /\ run'[s].sync \/ (graph'[n] # None =>
                                 \E t \in Run : Unslotted(t)' /\ run'[t].name = n /\ run'[t].celex = graph'[n])
<1>1. CASE pending' = pending
  <2>1. PICK s \in Run : /\ run[s].result = "logged" /\ run[s].name = n /\ run[s].celex = pending.celex
                         /\ run[s].sync \/ Fresh(n)
    BY <1>1 DEF MergeInv, PendingInv
  <2>2. Same(s)
    BY <2>1, OutForGood DEF MergeInv, Unslotted
  <2>3. graph' = graph
    <3>1. ~CatchUp /\ \A w \in Run : ~Merges(w)
      BY <1>1 DEF CatchUp, Merges
    <3> QED BY <3>1, OnlyStagesMerge
  <2>4. CASE run[s].sync
    BY <1>1, <2>1, <2>2, <2>4 DEF Same
  <2>5. CASE Fresh(n)
    <3>1. graph'[n] # None => \E t \in Run : Unslotted(t)' /\ run'[t].name = n /\ run'[t].celex = graph'[n]
      BY <2>3, <2>5, FreshKept DEF MergeInv
    <3> QED BY <1>1, <2>1, <2>2, <3>1 DEF Same
  <2> QED BY <2>1, <2>4, <2>5
<1>2. CASE pending' # pending
  <2>1. PICK r \in Run : /\ At(r, "stages") /\ pending' = MergeOf(r) /\ run'[r].result = "logged"
                         /\ run'[r].name = run[r].name /\ run'[r].celex = run[r].celex
                         /\ run'[r].sync = run[r].sync /\ graph' = graph
    BY <1>2, OnlyStagesLeave
  <2>2. run[r].name = n /\ run'[r].celex = pending'.celex
    BY <2>1 DEF MergeOf
  <2>3. run[r].sync \in BOOLEAN
    BY DEF IInv, TypeOK, Phase
  <2>4. CASE run[r].sync
    BY <2>1, <2>2, <2>4
  <2>5. CASE ~run[r].sync
    <3>1. Fresh(n)
      BY <2>1, <2>2, <2>5 DEF MergeInv, StagesInv
    <3>2. graph'[n] # None => \E t \in Run : Unslotted(t)' /\ run'[t].name = n /\ run'[t].celex = graph'[n]
      BY <2>1, <3>1, FreshKept DEF MergeInv
    <3> QED BY <2>1, <2>2, <3>2
  <2> QED BY <2>3, <2>4, <2>5
<1> QED BY <1>1, <1>2

LEMMA MergeInvStep ==
  ASSUME IInv, IInv', MergeInv, [Next]_vars
  PROVE  MergeInv'
<1>1. LoggedInv'
  BY OutForGood DEF MergeInv
<1>2. StagesInv'
  <2> SUFFICES ASSUME NEW r \in Run, At(r, "stages")', ~run'[r].sync  PROVE Fresh(run[r].name)'
    BY DEF StagesInv
  <2>1. run'[r].name \in ShortName
    BY DEF IInv, RunInv, Asked, At
  <2> PICK n \in ShortName : n = run'[r].name
    BY <2>1
  <2>2. graph'[n] # None => \E s \in Run : Unslotted(s)' /\ run'[s].name = n /\ run'[s].celex = graph'[n]
    BY StagesInvStep
  <2> QED BY <2>2 DEF Fresh, ByUnslotted
<1>3. PendingInv'
  <2> SUFFICES ASSUME pending' # NoMerge
               PROVE  \E s \in Run : /\ run'[s].result = "logged" /\ run'[s].name = pending'.name
                                     /\ run'[s].celex = pending'.celex
                                     /\ run'[s].sync \/ Fresh(pending.name)'
    BY DEF PendingInv, NoMerge
  <2>1. pending'.name \in ShortName
    BY DEF IInv, TypeOK, Merge
  <2> PICK n \in ShortName : n = pending'.name
    BY <2>1
  <2>2. (graph'[n] # None => \E t \in Run : Unslotted(t)' /\ run'[t].name = n /\ run'[t].celex = graph'[n])
          => Fresh(pending.name)'
    BY DEF Fresh, ByUnslotted
  <2> QED BY <2>2, PendingInvStep
<1> QED BY <1>1, <1>2, <1>3 DEF MergeInv

(***************************************************************************)
(* A run in the background never replaces the instrument of another one    *)
(* that held its slot until it had seen its merge applied: between its     *)
(* preflight and its merge only a run that took no slot, or a merge left   *)
(* in the log by one that had ended, can have written under its name.      *)
(***************************************************************************)
THEOREM NamesAreMergedOnce == Spec => MergedOnce
<1> DEFINE Step == \A n \in ShortName : graph[n] # None /\ graph'[n] # graph[n] =>
              \E r \in Run : /\ run[r].name = n
                             /\ \/ Unslotted(r) /\ run[r].celex = graph[n]
                                \/ Waiting(r) /\ run[r].celex = graph'[n]
<1>1. Init => MergeInv
  BY DEF Init, MergeInv, StagesInv, LoggedInv, PendingInv, At, Unasked
<1>2. IInv /\ IInv' /\ MergeInv /\ [Next]_vars => MergeInv'
  BY MergeInvStep
<1>3. IInv /\ MergeInv /\ [Next]_vars => [Step]_vars
  <2> SUFFICES ASSUME IInv, MergeInv, [Next]_vars, NEW n \in ShortName, graph[n] # None, graph'[n] # graph[n]
               PROVE  \E r \in Run : /\ run[r].name = n
                                     /\ \/ Unslotted(r) /\ run[r].celex = graph[n]
                                        \/ Waiting(r) /\ run[r].celex = graph'[n]
    OBVIOUS
  <2>1. ASSUME NEW w \in Run, Merges(w)
        PROVE  \E r \in Run : /\ run[r].name = n
                              /\ \/ Unslotted(r) /\ run[r].celex = graph[n]
                                 \/ Waiting(r) /\ run[r].celex = graph'[n]
    <3>1. run[w].name = n /\ At(w, "stages") /\ graph'[n] = run[w].celex
      BY <2>1 DEF Merges, IInv, TypeOK
    <3>2. CASE run[w].sync
      BY <3>1, <3>2 DEF Waiting
    <3>3. CASE ~run[w].sync
      BY <3>1, <3>3 DEF MergeInv, StagesInv, Fresh, ByUnslotted
    <3> QED BY <3>2, <3>3
  <2>2. CASE CatchUp
    <3>1. n = pending.name /\ graph'[n] = pending.celex
      BY <2>2, PendingTyped DEF CatchUp, Applied, IInv, TypeOK
    <3>2. PICK s \in Run : /\ run[s].result = "logged" /\ run[s].name = n /\ run[s].celex = graph'[n]
                           /\ run[s].sync \/ Fresh(n)
      BY <2>2, <3>1 DEF CatchUp, MergeInv, PendingInv
    <3>3. CASE run[s].sync
      BY <3>2, <3>3 DEF Waiting
    <3>4. CASE Fresh(n)
      BY <3>4 DEF Fresh, ByUnslotted
    <3> QED BY <3>2, <3>3, <3>4
  <2> QED BY <2>1, <2>2, OnlyStagesMerge
<1> QED BY IInvHolds, <1>1, <1>2, <1>3, PTL DEF Spec, MergedOnce

-----------------------------------------------------------------------------
(***************************************************************************)
(* The refinement of RunLedger.  A worker finds its row running from its   *)
(* start until it completes it: the poll that could have closed the row    *)
(* before has seen the slot.                                               *)
(***************************************************************************)
RowRuns(r) ==
  run[r].pc \in {"start", "preflight", "stages", "record"} /\ ~run[r].sync => row[r] = "running"

RowInv == \A r \in Run : RowRuns(r)

AtWork == {r \in Run : Working(r)}

Workers == {<<r, run[r].name>> : r \in {q \in Run : Working(q)}}

Gone == {r \in Run : At(r, "done") /\ ~run[r].sync}

Merged == {n \in ShortName : graph[n] # None}

(***************************************************************************)
(* What the step of one thread shows of itself.                            *)
(***************************************************************************)
LEMMA ThreadView ==
  ASSUME IInv, IInv', NEW r \in Run, \A s \in Run \ {r} : run'[s] = run[s]
  PROVE  /\ Working(r)' = Working(r) /\ run'[r].name = run[r].name => Workers' = Workers
         /\ ~Working(r)' /\ ~Working(r) => Workers' = Workers
         /\ Working(r)' /\ ~Working(r) => Workers' = Workers \cup {<<r, run'[r].name>>}
         /\ ~Working(r)' => Workers' = {w \in Workers : w[1] \notin {r}}
         /\ (r \in Gone <=> r \in Gone') => Gone' = Gone
         /\ r \in Gone' => Gone' = Gone \cup {r}
<1> USE DEF Working
<1>1. /\ \A w : w \in Workers <=> \E s \in Run : Working(s) /\ w = <<s, run[s].name>>
      /\ \A w : w \in Workers' <=> \E s \in Run : Working(s)' /\ w = <<s, run'[s].name>>
  BY DEF Workers
<1>2. Working(r)' = Working(r) /\ run'[r].name = run[r].name => Workers' = Workers
  <2> SUFFICES ASSUME Working(r)' = Working(r), run'[r].name = run[r].name  PROVE Workers' = Workers
    OBVIOUS
  <2>1. \A s \in Run : (Working(s)' <=> Working(s)) /\ run'[s].name = run[s].name
    OBVIOUS
  <2>2. \A w : w \in Workers' <=> w \in Workers
    BY <1>1, <2>1
  <2> QED BY <2>2 DEF Workers
<1>3. ~Working(r)' => Workers' = {w \in Workers : w[1] \notin {r}}
  <2> SUFFICES ASSUME ~Working(r)'  PROVE Workers' = {w \in Workers : w[1] \notin {r}}
    OBVIOUS
  <2>1. \A s \in Run \ {r} : (Working(s)' <=> Working(s)) /\ run'[s].name = run[s].name
    OBVIOUS
  <2>2. \A w : w \in Workers' <=> w \in Workers /\ w[1] # r
    BY <1>1, <2>1
  <2> QED BY <2>2 DEF Workers
<1>4. ~Working(r)' /\ ~Working(r) => Workers' = Workers
  <2> SUFFICES ASSUME ~Working(r)', ~Working(r)  PROVE Workers' = Workers
    OBVIOUS
  <2>1. \A w \in Workers : w[1] # r
    BY <1>1
  <2> QED BY <1>3, <2>1 DEF Workers
<1>5. Working(r)' /\ ~Working(r) => Workers' = Workers \cup {<<r, run'[r].name>>}
  <2> SUFFICES ASSUME Working(r)', ~Working(r)  PROVE Workers' = Workers \cup {<<r, run'[r].name>>}
    OBVIOUS
  <2>1. \A s \in Run \ {r} : (Working(s)' <=> Working(s)) /\ run'[s].name = run[s].name
    OBVIOUS
  <2>2. \A w : w \in Workers' <=> w \in Workers \/ w = <<r, run'[r].name>>
    BY <1>1, <2>1
  <2> QED BY <2>2 DEF Workers
<1>6. \A s \in Run \ {r} : s \in Gone' <=> s \in Gone
  BY DEF Gone, At
<1>7. Gone \subseteq Run /\ Gone' \subseteq Run
  BY DEF Gone
<1>8. (r \in Gone <=> r \in Gone') => Gone' = Gone
  <2>1. (r \in Gone <=> r \in Gone') => \A s : s \in Gone' <=> s \in Gone
    BY <1>6, <1>7
  <2> QED BY <2>1 DEF Gone
<1>9. r \in Gone' => Gone' = Gone \cup {r}
  <2>1. r \in Gone' => \A s : s \in Gone' <=> s \in Gone \/ s = r
    BY <1>6, <1>7
  <2> QED BY <2>1 DEF Gone
<1> QED BY <1>2, <1>3, <1>4, <1>5, <1>8, <1>9

(***************************************************************************)
(* The steps that only move a thread: no worker begins or ends.            *)
(***************************************************************************)
LEMMA LeavesAlone ==
  ASSUME IInv, IInv', NEW r \in Run, \A s \in Run \ {r} : run'[s] = run[s], UNCHANGED <<row, graph>>,
         ~At(r, "done"),
         Working(r) => run'[r].name = run[r].name /\ run'[r].sync = run[r].sync,
         (Working(r)' <=> Working(r)) \/ At(r, "done")'
  PROVE  [Ledger!Next]_(Ledger!ledgerVars)
<1>1. Merged' = Merged /\ row' = row
  BY DEF Merged
<1>2. CASE At(r, "done")' /\ ~run'[r].sync
  <2>1. ~Working(r)' /\ r \in Gone' /\ r \notin Gone
    BY <1>2 DEF Working, WorkerPC, Gone, At
  <2>2. Workers' = {w \in Workers : w[1] \notin {r}} /\ Gone' = Gone \cup {r}
    BY <2>1, ThreadView
  <2>3. Ledger!Leave({r})
    BY <1>1, <2>1, <2>2 DEF Ledger!Leave, Workers, Gone, Merged
  <2> QED BY <2>3 DEF Ledger!Next
<1>3. CASE ~(At(r, "done")' /\ ~run'[r].sync)
  <2>1. r \notin Gone /\ r \notin Gone'
    BY <1>3 DEF Gone, At
  <2>2. Working(r)' <=> Working(r)
    BY <1>3 DEF Working, At, WorkerPC
  <2>3. Workers' = Workers
    BY <2>2, ThreadView DEF Working
  <2>4. Gone' = Gone
    BY <2>1, ThreadView
  <2> QED BY <1>1, <2>3, <2>4 DEF Ledger!ledgerVars, Workers, Gone, Merged
<1> QED BY <1>2, <1>3

LEMMA RequestRefines ==
  ASSUME IInv, IInv', NEW r \in Run, Moves(r) \/ ReserveRunSlot(r) \/ FreeSlot(r), ~(At(r, "start") /\ Goto(r, "preflight"))
  PROVE  [Ledger!Next]_(Ledger!ledgerVars)
<1> USE DEF IInv, TypeOK, At
<1>1. ~Working(r)
  BY DEF Working, WorkerPC, Moves, Request, RejectIfCelexAlreadyIngested, RejectIfShortNameClaimed, GraphFails,
         StartBackgroundRun, ReserveRunSlot, FreeSlot
<1>2. /\ \A s \in Run \ {r} : run'[s] = run[s]
      /\ UNCHANGED <<row, graph>> /\ ~At(r, "done")
  BY DEF Moves, Request, RejectIfCelexAlreadyIngested, RejectIfShortNameClaimed, GraphFails,
         StartBackgroundRun, ReserveRunSlot, FreeSlot, Goto
<1>3. ~Working(r)'
  <2>1. CASE Request(r)
    BY <2>1 DEF Request, Working, WorkerPC, Phase
  <2>2. CASE RejectIfShortNameClaimed(r)
    BY <2>2 DEF RejectIfShortNameClaimed, Goto, Working, WorkerPC, Phase
  <2>3. CASE RejectIfCelexAlreadyIngested(r) \/ GraphFails(r) \/ ReserveRunSlot(r) \/ FreeSlot(r)
    <3>1. \E pc \in {"done", "name", "create"} : Goto(r, pc)
      BY <2>3 DEF RejectIfCelexAlreadyIngested, GraphFails, ReserveRunSlot, FreeSlot
    <3> QED BY <3>1 DEF Goto, Working, WorkerPC, Phase
  <2>4. CASE StartBackgroundRun(r)
    BY <2>4 DEF StartBackgroundRun, Goto, Working, WorkerPC, Phase
  <2> QED BY <2>1, <2>2, <2>3, <2>4 DEF Moves
<1> QED BY <1>1, <1>2, <1>3, LeavesAlone

LEMMA RecordsRun ==
  ASSUME IInv, IInv', NEW r \in Run, CreateRun(r)
  PROVE  [Ledger!Next]_(Ledger!ledgerVars)
<1> USE DEF IInv, TypeOK, At
<1>1. PICK pc \in {"start", "free"} : Goto(r, pc)
  BY DEF CreateRun
<1>2. /\ run[r].pc = "create" /\ row[r] = "none" /\ graph' = graph
      /\ row' = [row EXCEPT ![r] = "running"] \/ row' = row
  BY DEF CreateRun, RunInv, Rowed, WorkerPC
<1>3. (\A s \in Run \ {r} : run'[s] = run[s]) /\ ~Working(r) /\ ~Working(r)' /\ r \notin Gone /\ r \notin Gone'
  BY <1>1, <1>2, Changed DEF Working, WorkerPC, Gone
<1>4. Workers' = Workers /\ Gone' = Gone /\ Merged' = Merged
  BY <1>2, <1>3, ThreadView DEF Merged
<1>5. CASE row' = row
  BY <1>4, <1>5 DEF Ledger!ledgerVars, Workers, Gone, Merged
<1>6. CASE row' = [row EXCEPT ![r] = "running"]
  <2>1. Ledger!Record(r)
    BY <1>2, <1>3, <1>4, <1>6 DEF Ledger!Record, Workers, Gone, Merged
  <2> QED BY <2>1 DEF Ledger!Next
<1> QED BY <1>2, <1>5, <1>6

(***************************************************************************)
(* There is a worker for fewer runs than may be in flight, because the run *)
(* that is about to start holds a slot without one.                        *)
(***************************************************************************)
LEMMA RoomForOne ==
  ASSUME IInv, NEW r \in slots, ~Working(r)
  PROVE  Cardinality(Workers) < MaxInFlight
<1> DEFINE f == [s \in AtWork |-> <<s, run[s].name>>]
<1>1. AtWork \subseteq slots \ {r}
  BY DEF AtWork, IInv, TypeOK, RunInv, OwnsSlot, Busy, Working
<1>2. IsFiniteSet(slots \ {r}) /\ Cardinality(slots \ {r}) = Cardinality(slots) - 1
  BY FS_RemoveElement DEF IInv, SlotInv
<1>3. IsFiniteSet(AtWork) /\ Cardinality(AtWork) <= Cardinality(slots) - 1
  BY <1>1, <1>2, FS_Subset
<1>4. f \in Surjection(AtWork, Workers)
  BY DEF Surjection, AtWork, Workers
<1>5. IsFiniteSet(Workers) /\ Cardinality(Workers) <= Cardinality(AtWork)
  BY <1>3, <1>4, FS_Surjection
<1>6. Cardinality(Workers) \in Nat /\ Cardinality(AtWork) \in Nat /\ Cardinality(slots) \in Nat
  BY <1>3, <1>5, FS_CardinalityType DEF IInv, SlotInv
<1> QED BY <1>3, <1>5, <1>6, IngestionAssumption DEF IInv, SlotInv

LEMMA StartsWorker ==
  ASSUME IInv, IInv', RowInv, NEW r \in Run, StartBackgroundRun(r), Goto(r, "preflight")
  PROVE  [Ledger!Next]_(Ledger!ledgerVars)
<1> USE DEF IInv, TypeOK, At
<1> PICK n : n = run[r].name
  OBVIOUS
<1>1. run[r].pc = "start" /\ ~run[r].sync /\ r \in slots /\ UNCHANGED <<graph, row>>
  BY DEF StartBackgroundRun, RunInv, Asked, OwnsSlot, Busy
<1>2. /\ run'[r].pc = "preflight" /\ run'[r].name = n /\ ~run'[r].sync
      /\ \A s \in Run \ {r} : run'[s] = run[s]
  BY <1>1 DEF Goto, Phase
<1>3. ~Working(r) /\ Working(r)' /\ r \notin Gone /\ r \notin Gone'
  BY <1>1, <1>2 DEF Working, WorkerPC, Gone
<1>4. Workers' = Workers \cup {<<r, n>>}
  BY <1>2, <1>3, ThreadView
<1>5. Gone' = Gone /\ Merged' = Merged
  BY <1>1, <1>2, <1>3, ThreadView DEF Merged
<1>6. row[r] = "running"
  BY <1>1 DEF RowInv, RowRuns
<1>7. \A w \in Workers : w[1] # r /\ w[2] # n
  <2> SUFFICES ASSUME NEW s \in Run, Working(s)  PROVE s # r /\ run[s].name # n
    BY DEF Workers
  <2>1. s \in slots /\ s # r
    BY <1>3 DEF RunInv, OwnsSlot, Busy, Working
  <2> QED BY <1>1, <2>1 DEF SlotInv
<1>8. n \in ShortName
  BY <1>1 DEF RunInv, Asked
<1>9. Cardinality(Workers) < MaxInFlight
  BY <1>1, <1>3, RoomForOne
<1>10. Ledger!Start(r, n)
  <2>1. Ledger!Cardinality(Workers) = Cardinality(Workers)
    BY DEF Ledger!Cardinality, Cardinality
  <2> QED BY <1>1, <1>3, <1>4, <1>5, <1>6, <1>7, <1>9, <2>1 DEF Ledger!Start, Ledger!AtWork, Workers, Gone, Merged
<1> QED BY <1>8, <1>10 DEF Ledger!Next

(***************************************************************************)
(* The worker, or the thread of a request that is served without one.      *)
(***************************************************************************)
LEMMA FinishedView ==
  ASSUME IInv, IInv', NEW r \in Run, NEW result \in {"succeeded", "failed", "logged"}, Finish(r, result),
         At(r, "preflight") \/ At(r, "stages")
  PROVE  Workers' = Workers /\ Gone' = Gone
<1> USE DEF At
<1>1. /\ \A s \in Run \ {r} : run'[s] = run[s]
      /\ run'[r].name = run[r].name /\ run'[r].sync = run[r].sync
      /\ run'[r].pc = IF run[r].sync THEN "done" ELSE "record"
  BY Finished
<1>2. run[r].sync \in BOOLEAN
  BY DEF IInv, TypeOK, Phase
<1>3. /\ Working(r)' <=> Working(r)
      /\ r \notin Gone /\ r \notin Gone'
  BY <1>1, <1>2 DEF Working, WorkerPC, Gone
<1>4. Workers' = Workers
  BY <1>1, <1>3, ThreadView DEF Working
<1> QED BY <1>1, <1>3, <1>4, ThreadView

LEMMA PipelineRefines ==
  ASSUME IInv, IInv', NEW r \in Run, Preflight(r) \/ ExecuteCatalogStages(r)
  PROVE  [Ledger!Next]_(Ledger!ledgerVars)
<1> USE DEF At
<1>1. row' = row
  BY DEF Preflight, ExecuteCatalogStages
<1>2. CASE Preflight(r) /\ Goto(r, "stages")
  <2>1. run[r].pc = "preflight" /\ graph' = graph /\ run[r] \in Phase /\ run' = [run EXCEPT ![r].pc = "stages"]
    BY <1>2 DEF Preflight, Goto, IInv, TypeOK
  <2>2. /\ \A s \in Run \ {r} : run'[s] = run[s]
        /\ run'[r].pc = "stages" /\ run'[r].name = run[r].name /\ run'[r].sync = run[r].sync
    BY <2>1 DEF IInv, TypeOK, Phase
  <2>3. Working(r)' <=> Working(r)
    BY <2>1, <2>2 DEF Working, WorkerPC
  <2> QED BY <1>1, <2>1, <2>2, <2>3, LeavesAlone
<1>3. CASE Preflight(r) /\ \E result \in {"succeeded", "failed"} : Finish(r, result)
  <2>1. Workers' = Workers /\ Gone' = Gone
    BY <1>3, FinishedView DEF Preflight
  <2>2. graph' = graph
    BY <1>3 DEF Preflight
  <2> QED BY <1>1, <2>1, <2>2 DEF Ledger!ledgerVars, Workers, Gone
<1>4. CASE ExecuteCatalogStages(r)
  <2>1. Workers' = Workers /\ Gone' = Gone
    BY <1>4, FinishedView DEF ExecuteCatalogStages
  <2>2. CASE graph' = graph
    BY <1>1, <2>1, <2>2 DEF Ledger!ledgerVars, Workers, Gone
  <2>3. CASE graph' # graph
    <3> PICK n : n = run[r].name
      OBVIOUS
    <3>1. n \in ShortName /\ run[r].celex # None
      BY <1>4, IngestionAssumption DEF ExecuteCatalogStages, IInv, RunInv, Asked
    <3>2. graph' = [graph EXCEPT ![n] = run[r].celex] /\ graph \in [ShortName -> Celex \cup {None}]
      BY <1>4, <2>3 DEF ExecuteCatalogStages, Applied, MergeOf, IInv, TypeOK
    <3>3. Merged' = Merged \cup {n}
      BY <3>1, <3>2 DEF Merged
    <3>4. Ledger!Merge(n)
      BY <1>1, <2>1, <3>3 DEF Ledger!Merge, Workers, Gone, Merged
    <3> QED BY <3>1, <3>4 DEF Ledger!Next
  <2> QED BY <2>2, <2>3
<1> QED BY <1>2, <1>3, <1>4 DEF Preflight

LEMMA RecordRefines ==
  ASSUME IInv, IInv', NEW r \in Run, RecordIngestionRunOutcome(r)
  PROVE  [Ledger!Next]_(Ledger!ledgerVars)
<1> USE DEF At
<1>1. run[r].pc = "record" /\ ~run[r].sync /\ graph' = graph /\ Goto(r, "release")
  BY DEF RecordIngestionRunOutcome, IInv, RunInv, Asked
<1>2. /\ \A s \in Run \ {r} : run'[s] = run[s]
      /\ run'[r].pc = "release" /\ run'[r].name = run[r].name /\ run'[r].sync = run[r].sync
  BY <1>1, Changed
<1>3. Working(r) /\ Working(r)' /\ r \notin Gone /\ r \notin Gone'
  BY <1>1, <1>2 DEF Working, WorkerPC, Gone
<1>4. Workers' = Workers
  BY <1>2, <1>3, ThreadView DEF Working
<1>5. Gone' = Gone /\ Merged' = Merged
  BY <1>1, <1>2, <1>3, ThreadView DEF Merged
<1>6. CASE row' = row
  BY <1>4, <1>5, <1>6 DEF Ledger!ledgerVars, Workers, Gone, Merged
<1>7. CASE row' # row
  <2> PICK n, result : n = run[r].name /\ result = IF run[r].result = "succeeded" THEN "succeeded" ELSE "failed"
    OBVIOUS
  <2>1. row[r] = "running" /\ row' = [row EXCEPT ![r] = result]
    BY <1>7 DEF RecordIngestionRunOutcome, CompleteRun, Completable
  <2>2. result \in {"succeeded", "failed"} /\ (result = "succeeded" => n \in ShortName /\ graph[n] # None)
    BY <1>1 DEF IInv, TypeOK, RunInv, Reported, Phase
  <2>3. n \in ShortName
    BY <1>1 DEF IInv, RunInv, Asked
  <2>4. <<r, n>> \in Workers
    BY <1>3 DEF Workers
  <2>5. result = "succeeded" => n \in Merged
    BY <2>2 DEF Merged
  <2>6. Ledger!Close(r, n, result)
    BY <1>4, <1>5, <2>1, <2>4, <2>5 DEF Ledger!Close, Workers, Gone, Merged
  <2> QED BY <2>2, <2>3, <2>6 DEF Ledger!Next
<1> QED BY <1>6, <1>7

LEMMA ReleaseRefines ==
  ASSUME IInv, IInv', NEW r \in Run, ReleaseRunSlot(r)
  PROVE  [Ledger!Next]_(Ledger!ledgerVars)
<1>1. run[r].pc = "release" /\ UNCHANGED <<row, graph>> /\ run' = [run EXCEPT ![r] = Over(@)]
  BY DEF ReleaseRunSlot, At
<1>2. /\ \A s \in Run \ {r} : run'[s] = run[s]
      /\ run'[r].pc = "done" /\ run'[r].name = run[r].name /\ run'[r].sync = run[r].sync
  BY <1>1, Ended
<1> QED BY <1>1, <1>2, LeavesAlone DEF At

(***************************************************************************)
(* The polls and the restart.                                              *)
(***************************************************************************)
LEMMA PollRefines ==
  ASSUME IInv, NEW p \in Poller, Reconcile(p) \/ \E r \in Run : GetIngestionStatus(p, r)
  PROVE  [Ledger!Next]_(Ledger!ledgerVars)
<1>1. UNCHANGED <<graph, run>>
  BY DEF Reconcile, GetIngestionStatus, CheckInFlight, ReconcileOrphanedRun, ReconcileFails
<1>2. Workers' = Workers /\ Gone' = Gone /\ Merged' = Merged
  BY <1>1 DEF Workers, Gone, Merged, Working, At
<1>3. CASE row' = row
  BY <1>2, <1>3 DEF Ledger!ledgerVars, Workers, Gone, Merged
<1>4. CASE row' # row
  <2> PICK r : r = poll[p].of
    OBVIOUS
  <2>1. ReconcileOrphanedRun(p)
    BY <1>4 DEF Reconcile, GetIngestionStatus, CheckInFlight, ReconcileFails
  <2>2. r \in Run /\ run[r].pc = "done" /\ row[r] = "running" /\ row' = [row EXCEPT ![r] = "interrupted"]
    BY <1>4, <2>1 DEF ReconcileOrphanedRun, CompleteRun, Completable, IInv, TypeOK, PollInv, At
  <2>3. r \in Gone
    BY <2>2 DEF IInv, RunInv, Rowed, Gone, At
  <2>4. Ledger!Interrupt(r)
    BY <1>2, <2>2, <2>3 DEF Ledger!Interrupt, Workers, Gone, Merged
  <2> QED BY <2>2, <2>4 DEF Ledger!Next
<1> QED BY <1>3, <1>4

LEMMA CatchUpRefines ==
  ASSUME IInv, CatchUp
  PROVE  [Ledger!Next]_(Ledger!ledgerVars)
<1> PICK n : n = pending.name
  OBVIOUS
<1>1. run' = run /\ row' = row /\ n \in ShortName /\ pending.celex # None
      /\ graph' = [graph EXCEPT ![n] = pending.celex] /\ graph \in [ShortName -> Celex \cup {None}]
  BY PendingTyped DEF CatchUp, Applied, IInv, TypeOK
<1>2. Workers' = Workers /\ Gone' = Gone
  BY <1>1 DEF Workers, Gone, Working, At
<1>3. Merged' = Merged \cup {n}
  BY <1>1 DEF Merged
<1>4. Ledger!Merge(n)
  BY <1>1, <1>2, <1>3 DEF Ledger!Merge, Workers, Gone, Merged
<1> QED BY <1>1, <1>4 DEF Ledger!Next

LEMMA CrashRefines ==
  ASSUME IInv, Crash
  PROVE  [Ledger!Next]_(Ledger!ledgerVars)
<1> PICK runs : runs = {r \in Run : ~At(r, "idle") /\ ~At(r, "done") /\ ~run[r].sync}
  OBVIOUS
<1>1. \A r \in Run : /\ run'[r].pc = IF run[r].pc = "idle" THEN "idle" ELSE "done"
                     /\ run'[r].sync = run[r].sync
  BY Crashed
<1>2. runs \cap Gone = {} /\ runs \in SUBSET Run
  BY DEF Gone, At
<1>3. \A r : r \in Gone' <=> r \in Gone \/ r \in runs
  BY <1>1 DEF Gone, At
<1>4. Gone' = Gone \cup runs
  BY <1>3 DEF Gone
<1>5. \A w \in Workers : w[1] \in runs
  BY DEF Workers, Working, WorkerPC, At
<1>6. Workers' = {}
  <2>1. \A r \in Run : ~Working(r)'
    BY <1>1 DEF Working, WorkerPC
  <2> QED BY <2>1 DEF Workers
<1>7. Workers' = {w \in Workers : w[1] \notin runs}
  BY <1>5, <1>6
<1>8. row' = row /\ Merged' = Merged
  BY DEF Crash, Merged
<1>9. Ledger!Leave(runs)
  BY <1>2, <1>4, <1>7, <1>8 DEF Ledger!Leave, Workers, Gone, Merged
<1> QED BY <1>2, <1>9 DEF Ledger!Next

(***************************************************************************)
(* A row starts running with the insert that its thread waits for, and is  *)
(* closed by its worker's last write or after its thread is gone.          *)
(***************************************************************************)
LEMMA RowInvStep ==
  ASSUME IInv, RowInv, [Next]_vars
  PROVE  RowInv'
<1> USE DEF IInv, TypeOK, At
<1> DEFINE Recorded == {"start", "preflight", "stages", "record"}
<1>1. ASSUME NEW r \in Run, \A s \in Run \ {r} : run'[s] = run[s] /\ row'[s] = row[s], RowRuns(r)'
      PROVE  RowInv'
  BY <1>1 DEF RowInv, RowRuns
<1>2. ASSUME NEW r \in Run, NEW pc \in {"done", "free", "release", "name", "reserve"}, Goto(r, pc),
             \A s \in Run \ {r} : row'[s] = row[s]
      PROVE  RowInv'
  <2>1. run'[r].pc = pc /\ \A s \in Run \ {r} : run'[s] = run[s]
    BY <1>2 DEF Goto, Phase
  <2> QED BY <1>1, <1>2, <2>1 DEF RowRuns
<1>3. ASSUME NEW r \in Run, Request(r) \/ RejectIfCelexAlreadyIngested(r) \/ GraphFails(r) \/ FreeSlot(r) \/ ReleaseRunSlot(r)
      PROVE  RowInv'
  <2>1. CASE Request(r)
    <3>1. run'[r].pc = "celex" /\ \A s \in Run \ {r} : run'[s] = run[s] /\ row'[s] = row[s]
      BY <2>1 DEF Request, Phase
    <3> QED BY <1>1, <3>1 DEF RowRuns
  <2>2. CASE ReleaseRunSlot(r)
    <3>1. run'[r].pc = "done" /\ \A s \in Run \ {r} : run'[s] = run[s] /\ row'[s] = row[s]
      BY <2>2, Ended DEF ReleaseRunSlot
    <3> QED BY <1>1, <3>1 DEF RowRuns
  <2> QED BY <1>2, <1>3, <2>1, <2>2 DEF RejectIfCelexAlreadyIngested, GraphFails, FreeSlot
<1>4. ASSUME NEW r \in Run, RejectIfShortNameClaimed(r)  PROVE RowInv'
  <2>1. CASE Goto(r, "done") \/ Goto(r, "reserve")
    BY <1>2, <1>4, <2>1 DEF RejectIfShortNameClaimed
  <2>2. CASE Goto(r, "preflight") /\ run[r].sync
    <3>1. run'[r].sync /\ \A s \in Run \ {r} : run'[s] = run[s] /\ row'[s] = row[s]
      BY <1>4, <2>2 DEF RejectIfShortNameClaimed, Goto, Phase
    <3> QED BY <1>1, <3>1 DEF RowRuns
  <2> QED BY <1>4, <2>1, <2>2 DEF RejectIfShortNameClaimed
<1>5. ASSUME NEW r \in Run, ReserveRunSlot(r)  PROVE RowInv'
  <2>1. PICK pc \in {"done", "create"} : Goto(r, pc)
    BY <1>5 DEF ReserveRunSlot
  <2>2. run'[r].pc = pc /\ \A s \in Run \ {r} : run'[s] = run[s] /\ row'[s] = row[s]
    BY <1>5, <2>1 DEF ReserveRunSlot, Goto, Phase
  <2> QED BY <1>1, <2>2 DEF RowRuns
<1>6. ASSUME NEW r \in Run, CreateRun(r)  PROVE RowInv'
  <2>1. \A s \in Run \ {r} : row'[s] = row[s]
    BY <1>6 DEF CreateRun
  <2>2. CASE Goto(r, "free")
    BY <1>2, <2>1, <2>2
  <2>3. CASE ~Goto(r, "free")
    <3>1. row'[r] = "running" /\ \A s \in Run \ {r} : run'[s] = run[s]
      BY <1>6, <2>3 DEF CreateRun, Goto
    <3> QED BY <1>1, <2>1, <3>1 DEF RowRuns
  <2> QED BY <2>2, <2>3
<1>7. ASSUME NEW r \in Run, StartBackgroundRun(r) \/ Preflight(r) \/ ExecuteCatalogStages(r)  PROVE RowInv'
  <2>1. row' = row /\ run[r].pc \in Recorded /\ \A s \in Run \ {r} : run'[s] = run[s]
    BY <1>7 DEF StartBackgroundRun, Preflight, ExecuteCatalogStages, Goto, Finish
  <2>2. run'[r].sync = run[r].sync
    <3>1. CASE \E result \in {"succeeded", "failed", "logged"} : Finish(r, result)
      BY <3>1, Finished
    <3>2. CASE \E pc \in {"preflight", "free", "stages"} : Goto(r, pc)
      BY <3>2 DEF Goto, Phase
    <3> QED BY <1>7, <3>1, <3>2 DEF StartBackgroundRun, Preflight, ExecuteCatalogStages
  <2>3. RowRuns(r)'
    BY <2>1, <2>2 DEF RowInv, RowRuns
  <2> QED BY <1>1, <2>1, <2>3
<1>8. ASSUME NEW r \in Run, RecordIngestionRunOutcome(r)  PROVE RowInv'
  <2>1. Goto(r, "release") /\ \A s \in Run \ {r} : row'[s] = row[s]
    BY <1>8 DEF RecordIngestionRunOutcome, CompleteRun
  <2> QED BY <1>2, <2>1
<1>9. ASSUME NEW p \in Poller, Reconcile(p) \/ \E r \in Run : GetIngestionStatus(p, r)  PROVE RowInv'
  <2>1. run' = run
    BY <1>9 DEF Reconcile, GetIngestionStatus, CheckInFlight, ReconcileOrphanedRun, ReconcileFails
  <2>2. CASE row' = row
    BY <2>1, <2>2 DEF RowInv, RowRuns
  <2>3. CASE row' # row
    <3>1. ReconcileOrphanedRun(p)
      BY <1>9, <2>3 DEF Reconcile, GetIngestionStatus, CheckInFlight, ReconcileFails
    <3>2. run[poll[p].of].pc = "done" /\ \A s \in Run : s # poll[p].of => row'[s] = row[s]
      BY <3>1 DEF ReconcileOrphanedRun, CompleteRun, PollInv
    <3> QED BY <2>1, <3>2 DEF RowInv, RowRuns
  <2> QED BY <2>2, <2>3
<1>10. CASE Crash
  <2>1. \A r \in Run : run'[r].pc \in {"idle", "done"}
    BY <1>10, Crashed
  <2> QED BY <2>1 DEF RowInv, RowRuns
<1>11. CASE CatchUp \/ UNCHANGED vars
  BY <1>11 DEF CatchUp, vars, RowInv, RowRuns
<1> QED BY <1>3, <1>4, <1>5, <1>6, <1>7, <1>8, <1>9, <1>10, <1>11 DEF Next, Proceed

(***************************************************************************)
(* Every step of a request, a worker, a poll or a restart is a step of the *)
(* ledger or none: what get-ingestion-status reports is what a client may  *)
(* rely on, for any number of runs, polls and restarts.                    *)
(***************************************************************************)
THEOREM RunsKeepLedger == Spec => KeepsLedger
<1>1. Init => RowInv
  BY DEF Init, RowInv, RowRuns, Unasked
<1>2. IInv /\ RowInv /\ [Next]_vars => RowInv'
  BY RowInvStep
<1>3. Init => Ledger!Init
  <2> SUFFICES ASSUME Init  PROVE Ledger!Init
    OBVIOUS
  <2>1. \A r \in Run : ~Working(r) /\ ~At(r, "done")
    BY DEF Init, Unasked, Working, WorkerPC, At
  <2>2. Workers = {} /\ Gone = {}
    BY <2>1 DEF Workers, Gone
  <2>3. Merged = {}
    BY DEF Init, Merged
  <2> QED BY <2>2, <2>3 DEF Init, Ledger!Init, Workers, Gone, Merged
<1>4. IInv /\ IInv' /\ RowInv /\ [Next]_vars => [Ledger!Next]_(Ledger!ledgerVars)
  <2> SUFFICES ASSUME IInv, IInv', RowInv, [Next]_vars  PROVE [Ledger!Next]_(Ledger!ledgerVars)
    OBVIOUS
  <2>1. ASSUME NEW r \in Run, Request(r) \/ Proceed(r)  PROVE [Ledger!Next]_(Ledger!ledgerVars)
    <3>1. CASE Moves(r) \/ ReserveRunSlot(r) \/ FreeSlot(r)
      <4>1. CASE At(r, "start") /\ Goto(r, "preflight")
        <5>1. StartBackgroundRun(r)
          BY <3>1, <4>1 DEF Moves, Request, RejectIfCelexAlreadyIngested, RejectIfShortNameClaimed, GraphFails,
                            ReserveRunSlot, FreeSlot, At
        <5> QED BY <4>1, <5>1, StartsWorker
      <4>2. CASE ~(At(r, "start") /\ Goto(r, "preflight"))
        BY <3>1, <4>2, RequestRefines
      <4> QED BY <4>1, <4>2
    <3>2. CASE Preflight(r) \/ ExecuteCatalogStages(r)
      BY <3>2, PipelineRefines
    <3>3. CASE CreateRun(r)
      BY <3>3, RecordsRun
    <3>4. CASE RecordIngestionRunOutcome(r)
      BY <3>4, RecordRefines
    <3>5. CASE ReleaseRunSlot(r)
      BY <3>5, ReleaseRefines
    <3> QED BY <2>1, <3>1, <3>2, <3>3, <3>4, <3>5 DEF Proceed, Moves
  <2>2. ASSUME NEW p \in Poller, Reconcile(p) \/ \E r \in Run : GetIngestionStatus(p, r)
        PROVE  [Ledger!Next]_(Ledger!ledgerVars)
    BY <2>2, PollRefines
  <2>3. CASE Crash
    BY <2>3, CrashRefines
  <2>4. CASE CatchUp
    BY <2>4, CatchUpRefines
  <2>5. CASE UNCHANGED vars
    BY <2>5 DEF vars, Ledger!ledgerVars, Working, At
  <2> QED BY <2>1, <2>2, <2>3, <2>4, <2>5 DEF Next
<1> QED BY IInvHolds, <1>1, <1>2, <1>3, <1>4, PTL DEF Spec, KeepsLedger, Ledger!Spec
=============================================================================
