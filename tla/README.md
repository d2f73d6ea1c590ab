# Verification of the policy system

TLA+ modules, TLC configurations and TLAPS proofs kept beside the policy
system's code. `PROJECT.json` maps every definition that models code to the
lines it translates and lists the runs, the mutants, the findings, the
hazards and the theorems. Paths below are relative to
`src/ps-service/src/ps_service/` unless they start with `src/`.

1. [The system](#1-the-system): components, state, operations, interactions
2. [The modules](#2-the-modules): how each corresponds to the code
3. [The runs](#3-the-runs): what each shows, its bounds, the fairness
4. [What is proved](#4-what-is-proved)
5. [Where code and documentation disagree](#5-where-code-and-documentation-disagree)
6. [What is not modelled](#6-what-is-not-modelled)
7. [Plan](#7-plan)

To run: `tlc -workers 2 -config GraphGateway.cfg MCGraphGateway.tla`,
`tlapm GraphGatewayProofs.tla`.

## 1. The system

The policy system ingests regulations, maps them with a language model into a
graph of obligations, roles and capabilities, merges them into one policy
graph, and lets officers govern that graph through drafts, approvals and
signed clean-up actions. One process, ps-service, serves REST and MCP; it keeps
graphs in FalkorDB and everything else in one Postgres database (`ps_state`).

The correctness problem at its centre: **FalkorDB is a volatile projection, the
mutation log in Postgres is the record.** Every change of every graph goes
through the graph gateway, which appends it to the log, applies it to FalkorDB
and records how far it has applied. FalkorDB may be down, slow, restarted empty
or half written; Postgres may refuse or lose a connection at any statement; the
process may stop between any two steps; request threads, a background thread
and a startup thread share the same graphs. Everything else submits to the
gateway and inherits its promises. This is why the gateway comes first here.

### Components

| Component | State | Operations | Talks to | What makes it correct |
| --- | --- | --- | --- | --- |
| mutation log (`graph_gateway/store.py`, `migrations/`) | tables `entries`, `groups`, `applied_markers`, `digest_checkpoints`; advisory lock per graph | append one group or several, in an own or the caller's transaction; advance the marker; record a checkpoint; reads | Postgres | positions without gaps, groups and swap sets whole, marker within the log, insert-only |
| graph gateway (`graph_gateway/gateway.py`) | in-process lock per graph, `_blocked`, `_blocked_units` | submit, submit in a transaction, submit to several graphs, replace, swap sets, catch_up, recover, replay | log, FalkorDB, reconciler, replay gate | the marker never claims more than the graph holds; nothing is accepted over unapplied entries; checkpoints exact |
| reconciler (`graph_gateway/reconciler.py`) | `_pending`, `_thread`, `_stop_event` | register, the loop, stop | gateway.catch_up | a pending graph is retried until it is applied; shutdown ends the thread |
| startup replay and gate (`replay.py`, `replay_gate.py`, `replay_state.py`, `startup_retry.py`) | gate sets in memory, progress record in FalkorDB | hold, classify, rebuild, resume, verify, release, retry | log, FalkorDB, every writer | a graph opens only when it is whole; a rebuild is exactly its log |
| swap sets (`swap.py`, `graph_locks.py`) | staged graph copies, blocked units | stage, flip, advance the markers, discard | log, FalkorDB | all graphs of a set change at once, no deadlock |
| drift check (`drift.py`, `digest.py`) | none | compare a graph with its head checkpoint | log, FalkorDB | no false alarm, no missed check reported as ok |
| ingestion runs (`ingestion_runs/`, `mcp_interface/ingestion_tools.py`) | slots in memory, run rows | check the identity, reserve, create, work, complete, poll and reconcile, release | Postgres, the pipeline | one terminal outcome per run, no slot lost, cap respected |
| passkey approvals (`passkey_signing/`) | pending approvals, signing credentials | request, enrol, sign, refuse, revoke | Postgres, executors | an approval runs at most once, never after revocation or expiry |
| policy lifecycle (`policy_lifecycle/`) | status of the nodes of a policy tree, who governs a capability | create, fork, edit, propose, approve, reject, revert, deprecate | gateway, audit | one governor per capability, moved only to an approved successor; nothing retired without one; audit rows true |
| graph cleanup (`graph_cleanup/`) | none of its own | preview, sign, merge, split, unmerge, release | approvals, gateway, audit | what was signed is what is written, or nothing |
| access roles (`authz/`) | role assignments | bootstrap, grant, revoke, check | Postgres, audit | never without an owner, one bootstrap |
| audit (`audit/`) | hash chain of events | record, read | every component's transaction | committed with what it describes; chain unbroken |
| change monitor (`change_monitor/`) | progress markers in the graph | poll, re-ingest, link the succession | pipeline, gateway | a re-ingestion resumes where it stopped; succession last |
| pipeline (`ingestion/`, `domain_mapper/`, `company_merge/`, `llm_interface/`) | none of its own | fetch, extract, derive, merge | language model, gateway | writes are gateway groups |
| export, restore, curated sources, runtime configuration, invitations | small tables | their request handlers | Postgres, gateway, HTTP | one transaction each |
| migrations, dependency health, gating probes, logging, metrics, auth, API, MCP | tracking table; flags and queues in memory | start-up and per-request plumbing | everything | serialised migrations; one probe at a time; log lines in order |

### How the core interacts

```
 request thread ── lock(graph) ─┐                 ┌── Postgres: graph_log.*  (truth)
 reconciler ───── catch_up ─────┼─ GraphGateway ──┤
 startup thread ─ replay ───────┘   │   ▲         └── FalkorDB: one graph per name (projection)
                                    │   └ ReplayGate: closed graphs refuse writes
                                    └ register(graph) → GraphReconciler thread
```

A submission takes the graph's in-process lock, checks the gate, `_blocked` and
the marker, brings the graph up to date, filters what would change nothing,
appends, applies, advances the marker, and records a digest when asked. When the
apply fails for good the group stays committed and "apply pending": the
reconciler, the next writer, an operator or the next start applies it.

### What is hard

* **Two stores without a common transaction.** Every step between the append
  and the marker can be the last one of the process.
* **Re-applying.** A timed-out query may have taken effect; a retry, the next
  writer or the next process starts again from the marker, over a graph that is
  ahead of it or half way through a run.
* **Unknown outcomes.** A connection lost during a commit leaves a transaction
  that Postgres decides later, with or without the caller.
* **Threads that look at each other.** The reconciler drops a graph after its
  pass, retires when nothing is pending and is started lazily; the startup
  thread classifies graphs whose writers may be running.
* **A wiped or half rebuilt FalkorDB.** The marker lives in Postgres and does
  not know; only the content, the progress record and checkpoints tell.
* Elsewhere: values read before a decision and used after it (policy
  transitions, approvals, revocation, run polling), and steps in two stores
  (succession, approve then deprecate).

`PROJECT.json` lists these hazards with their lines and the properties that
cover them; section 7 has those of the components that are not modelled.

## 2. The modules

| Module | What it is |
| --- | --- |
| `GraphLog` | abstract specification: last position and marker per graph, both only grow, marker within the log |
| `GraphLogStore` | the tables, transactions, advisory locks and triggers; implements `GraphLog` |
| `GraphGateway` | the write path of one graph, catch-up, crashes; implements `GraphLog` |
| `GraphReconciler` | the background thread: pending set, start, retirement, backoff, stop |
| `GraphReplay` | startup: gate, classification, rebuild, retries, with writers running; implements `GraphLog` |
| `SwapSets` | groups over several graphs: in place, or flipped together; catch-up of a set, blocked units; implements `GraphLog` |
| `PolicyLifecycle` | overlapping calls on policies: drafts, proposals, approvals, governance, audit rows |
| `ApprovalToken` | abstract specification: a single-use token |
| `Approvals` | signing, executors, revocation and reconciliation; implements `ApprovalToken` |
| `RunLedger` | abstract specification: what a client is told of a run |
| `IngestionRuns` | slots, run rows, workers, polls; implements `RunLedger` |
| `MC*` | model values, requests and symmetry of each for TLC |
| `*Proofs` | theorems and proofs |

### GraphLogStore (`store.py`, `migrations/0001`, `0002`)

A session is one database transaction. Its record follows
`_append_in_transaction`: *locking* (advisory lock of the next graph), *locked*
(isolation checked), *numbered* (last position read, group row inserted),
*appended* (entry rows inserted). Rows are private until `Commit`, which
publishes all of them. `BeginStandalone` is `append_group_standalone` and
`append_groups_standalone` (the ascending graph order is its guard);
`BeginInCallersTransaction` is `append_group` at any isolation level. `Visible`
is what a statement sees at that level: this is what makes the isolation check
matter. The primary key and the two triggers are guards that set `refused`
instead of being trusted. `Rollback` covers every way a transaction ends without
its groups. `AdvanceAppliedPosition` is the conditional upsert.

Abstracted: payloads, audit links, entry content; uuids are numbers handed out
in order. Digest checkpoints are in `GraphGateway`, which decides when one is
recorded.

### GraphGateway (`gateway.py`, `retry.py`, `staged_submission.py`, `applier.py`)

One graph, any number of writers and operators and the reconciler. A thread's
`pc` names the method it is in: `stage` and `checks` (`_stage`), `append`,
`staged` and `complete` (`StagedSubmission`), `pass`, `run`, `mark`
(`_apply_pending` and `apply_entries`), `checkpoint`, `standing` (`catch_up`),
`discard` (the end of the reconciler's pass over the graph). `goal` says for
whom `_apply_pending` runs, since its callers treat a failure differently
(`GiveUp`). `tries` is the retry budget of `GraphCallGuard`.

Of the log only `head` is kept: `GraphLogStore` shows that positions run from 1
without a gap. `inDoubt` is the transaction whose connection died while the
server was committing; `Decide` ends it at any later time. It still holds the
graph's advisory lock, so no append passes it.

FalkorDB's content is three numbers' worth: `low` (1..low applied), `reach`
(some of low+1..reach applied too) and `skewed` (an entry was applied without
its predecessors). Entries are set-semantic - merges and deletes by identity -
so applying low+1..reach again in order gives exactly the graph of the prefix;
this assumption is what the planned `GraphContent` is to check against
`applier.py`. A failed run (`RunFailed`) may have had any part of its effect.

`Faults` selects what may go wrong: FalkorDB or Postgres not answering, a
refused write, a lost acknowledgement, a refused query, a crash. A failure is a
disjunct of the step it interrupts.

### GraphReconciler (`reconciler.py`)

`pending`, `slot` (`_thread`) and the program counter of every thread object
created. `EndPass` is the line `attempt = attempt + 1 if self._has_pending()
else 1`, including that `_has_pending` clears `_thread` while the loop goes on.
A pass takes its snapshot when the wait ends and visits the graphs in any order
(the code sorts; no property depends on it). `dead` is a thread ended by an
exception outside `_reconcile`'s try, `unstarted` a thread whose `start` raised.
`MaxAttempt` is the last attempt whose backoff `initial * multiplier **
(attempt - 1)` is a finite float: 1024 with the default multiplier 2.0, small
in the runs. What one `catch_up` does is in `GraphGateway`; here it succeeds or
fails.

### GraphReplay (`gateway.py` startup_replay and replay_graph, `replay.py`, `replay_gate.py`, `replay_state.py`, `startup_retry.py`)

The gate is its three sets and the hold. The startup thread goes through
`hold`, `classify` (one action per graph, without the graph's lock, as in the
code), `deal`, and per graph either a release, a catch-up or a rebuild: `lock`,
`page`, `record`, `verify`, `finish`, `delete`. Pages are cut at the head and at
the checkpoint (`PageEnd`). The progress record (`sentinel`) lives in FalkorDB
and is wiped with it; the marker and the checkpoint live in Postgres and are
not. An outage sends the thread back to `hold` (`retry_through_outage`), an
error it does not name ends it (`CatchUpRaises`, `GiveUp`). Writers of open
graphs run meanwhile, abstracted to enter, commit, apply (in parts), mark,
fail. `NetsEmpty` are the positions after which the log's graph has no nodes,
so that "empty" and "wiped" are not told apart more easily than in the code.
A catch-up may fail half way: `CatchUpPart` has applied and marked some of the
runs, or applied one and not marked it, before `StaysBehind` lets the graph go.
Two outages have an effect that outlives them, because FalkorDB does what it is
told and the answer is lost: `DeletionUnacknowledged` deletes the progress
record, and a lost answer in `FailsAt` leaves the failed record written while the
gate is not told and the startup is tried again. `faults.raced` marks a graph
whose rebuild was decided on while its writer was inside the lock (only a retry
can do that); the properties that such a rebuild breaks except it by name.

Abstracted: the writers' own failure handling (it is in `GraphGateway`), and a
missing log entry, which stands with an undecodable one.

### SwapSets (`gateway.py` submit_multi_graph_group and _with_unit, `swap.py`, `swap_port.py`, `graph_locks.py`)

Writers submit to one graph or several; a repairer is the reconciler's thread
or an operator, in turn. A call takes the in-process locks of its graphs one by
one (`Lock`, in the order of `lock_all`), stages leg by leg (`Stage`, `Checks`),
appends all legs in one transaction and applies: in place leg by leg
(`ApplyStep`), or as a swap (`SwapStep`: `entries`, `copies`, `flip`,
`advance`). `ResolveFirst` and `ResolveLegs` are `_resolve_unit`, called without
locks and again under them; `Resolved` starts over when the unit grew. `unit` is
`_blocked_units`. `live` is the last position a graph shows: the flip moves it
on all legs in one step, an apply in place on one. `Replay` is `replay_graph`
with its leg's release.

Abstracted: retries inside one graph's apply, checkpoints and lost
acknowledgements (they are in `GraphGateway`), groups of more than one entry,
and the names of the copies. A commit in doubt is left out on purpose: section 5
says what it does to a set.

### PolicyLifecycle (`service.py`, `graph_writer.py`, `rules.py`, `graph_submission.py`)

Each call goes through the reads of its method in their order (`backfill`,
`read`, `exists`, `claims`, `tree`, `repoint`), the audit row, and the write:
`guard`, `position`, `governors` are the guarded write of a claim or a repoint,
`cascade` the read of the tree, `stamp` and `after` the catch-up checks around
the submission. `Raise` is the exception path: a transition whose applied row
stands records a failed one. An approval that took over its prior's
capabilities goes on with the prior's deprecation (`FindApprovedPrior`), a
second transition of the same call.

Of the gateway it keeps what `GraphGateway` shows, run by run. `SubmitGroup`
compares the expected position on a caught-up graph and logs the group; the call
then holds the graph's lock (`apply`) and applies and marks one run of the group
after another (`ApplyRun`). `NextRuns` says which run may come next, in the order
the group is built in: an approval first deletes
the prior's edges (`DeleteEdges`), then merges the successor's (`UpsertEdges`),
then writes the statuses (`WritePolicy`, `WriteItem`, `WriteFields`). `pending`
is what is left of the one group that is not applied whole, and every read of
another call may fall between two runs. `ApplyFails` ends a call in the middle,
with the run at hand applied or not, and never marked; `CatchUp` (the
reconciler, or the next writer) goes on with the next run of what was left.
While a call is in `apply`, the lock keeps out submissions, the catch-up and
`read_log_position` (`Locked` in `ReadPosition`).

The MCP tools are synchronous functions run on worker threads, so calls overlap
at every read; nothing serialises them but the gateway's lock. `Start` are
graphs earlier calls may have left.

Abstracted: titles, fields, versions; old edges' stamps; the `SUPERSEDED_BY` edge
of a fork, a run of its own in the code (`Prior` is a constant); the batches a
run of more than `batch_size` entries is cut into; which roles make a `Manager`
or an `Override` actor.

### ApprovalToken, Approvals (`passkey_signing/`, `graph_cleanup/service.py`, `executors.py`, `group_builders.py`, `graph_submission.py`)

`ApprovalToken` is what a user is promised: an approval is *open*, then
*signed*, *refused* or *void*, once; a signed one may run, once. `Approvals`
implements it (`ImplementsToken`) with rows, passkeys, requests and a log.

A request is an enrolment, a signature, a revocation or a reconciliation. The
handlers of a signature are `async` functions without an `await`: each runs from
one statement of the store to the next, and two requests meet in Postgres. Its
states follow `post_sign_verify` (`credential`, `mark`, `count`), the executor
(`role`, `replan`, `audit`), the guarded write (`guard`, `position`, `state`,
`stamp`, `submit`, `failed`) and the outcome. `revoking` and `locked` are the
one transaction of `revocation.py`, whose update waits for, and holds, the rows
it touches. An approval created while its officer's revocation is open escapes
the update if the revocation commits first: the history variable `late` names
these, and `SignedWithLivePasskey` excepts them and no others. The transaction's
DELETE sees the passkeys there are at that statement (`doomed`); one enrolled
between it and the commit survives the revocation. A row is `settled` once
`RECONCILE_GRACE` has passed: by then no
executor of that approval is running, which the grace exists for.

The graph is the state a digest is taken of: which pair is merged (and by which
approval), `counts`, the edges whose number the guard compares again, and `rest`,
what the digest covers and the guard does not. `Pinned` is the first two.
`EditNodes` is everybody else. A group is pending, or its commit in doubt
(`doubt`), as in the gateway. The guard reads FalkorDB after the log's position:
the history variable `behind` has the approvals whose guard did so while a group
was pending, that is, compared a state the group was yet to change.

Abstracted: codes, challenges, WebAuthn and signature counters (valid, or an
error); the planners that compute a digest and a group. The merge of a pair and
its reversal stand for the action kinds; all executors share the control
modelled here.

### RunLedger, IngestionRuns (`ingestion_runs/dispatch.py`, `store.py`, `mcp_interface/ingestion_tools.py`, `api/ingestion_orchestration.py`)

A request checks the identity (`celex`, `name`), takes a slot (`reserve`),
inserts its row (`create`) and starts its worker (`start`); every failure frees
the slot. The worker checks again (`preflight`), runs the stages, records the
outcome, releases. `sync` requests are the tool that runs the pipeline on the
caller's thread, without slot or row. A poll reads a running row, looks for the
slot, and completes the row conditionally (`ReconcileOrphanedRun`). A crash
forgets slots, workers and polls; rows and graph stay.

`RunLedger` is what a client may rely on: a run is recorded running, its worker
starts on a recorded run, within the cap and alone under its short name, and the
record is closed by that worker (as succeeded only over a merged instrument) or,
once nobody works on the run and nobody will again, as interrupted. The mapping
(`Ledger`) reads `record` off the rows, `working` and `left` off the program
counters and `merged` off the graph; slots are how the code keeps it and do not
appear in it.

The pipeline's stages are one step, since a run writes the graph in the last one
alone (`ExecuteCatalogStages`). It fails, merges the instrument, or leaves the
merge in the log (`pending`: `committed_apply_pending`). In that case the run is
recorded as failed and frees its slot as any other, while the gateway owes the
graph an instrument that no preflight can see; `CatchUp` applies it at any later
time. `Over` says which runs nobody works on any more. `Asks` is the set of the
plans, what each run may ask for.

### How the modules fit

`GraphLogStore`, `GraphGateway`, `SwapSets` and `GraphReplay` implement
`GraphLog`, each through an `INSTANCE` with a refinement mapping
(`ImplementsGraphLog`): the store maps its rows to the last position per graph,
the gateway maps its one graph, the other two their logs. So what the write
paths rely on (positions only grow, marker within the log) is what the store
provides, and none of them does to log or marker what the log does not allow: a
swap set's append is one step of several heads, a startup, rebuilt or retried,
never takes a marker back. `GraphReconciler` takes over from `GraphGateway` where the
latter only has `registered`; `GraphReplay` uses the gateway's content
abstraction (without `skewed`: there a graph that lacks an entry has `low = 0`).
`SwapSets` repeats of the gateway what a set needs and adds the other graphs.
`PolicyLifecycle` and `Approvals` rest on the gateway's promises and compose
with it through four facts: a submission is logged, and applied run by run, under
the graph's lock; it compares the position it was given; nothing is logged over
an unapplied group; and what is not applied of a committed group is pending.

## 3. The runs

Runs that hold:

| Run | Shows | Bounds |
| --- | --- | --- |
| `log_store` | with concurrent appenders, swap sets, any isolation level, rollbacks and lost acknowledgements the log stays gap-free, swap sets whole, triggers never fire, no deadlock on advisory locks; refines `GraphLog` | 2 graphs, 2 sessions, 2 entries per group, 2 positions per graph, 3 ids |
| `gateway` | with every fault but a lost acknowledgement, at every step: the marker is truthful, `applied` is durable, checkpoints are exact, nothing is accepted over unapplied entries, preconditions hold when the group is logged | 2 writers, reconciler, groups of up to 2 entries, 2 positions, 2 tries |
| `gateway_liveness` | with lost acknowledgements: every call ends and gives the lock back; a registered lagging graph is applied or blocked (up to the race of section 5); refines `GraphLog` | 1 writer, 1 operator, reconciler, 1 try, 2 positions; FalkorDB down, a refused query |
| `reconciler` | a pending graph is always served, leaves unless its thread was lost, and stop ends every thread | 2 graphs, 2 thread objects, 3 failures, 3 registrations, last finite backoff 3 |
| `replay` | one graph, every fault: opens only whole, a finished rebuild is its log, nothing is logged on a graph that lacks something or applied past an unmatched checkpoint, failures have a cause; refines `GraphLog` | 5 positions, pages of 2, 3 restarts, 2 outages |
| `replay_two_graphs` | one graph written while the other is rebuilt or the startup retried; startup ends, leaves no rebuild half done, and closes only failed graphs and those an outage cut off from the gate - or gave up because of a pending entry that does not decode | 2 graphs, 2 positions, pages of 1, 1 restart, 1 outage; graphs wiped, entries that do not decode, bad checkpoints |
| `swap_sets` | a set is shown on all its graphs or on none, nothing is logged on a leg of a half-done set, no cycle of in-process locks, locks given back on every path; refines `GraphLog` | 1 writer, 1 repairer, 2 graphs, 2 swap sets, 2 positions, 2 tries, 2 resolutions of a unit, every fault |
| `policy_lifecycle` | a capability has at most one governor as long as no call failed to apply the group it logged; its edge goes only when an approved successor's is there or in the log, half-applied groups included; nothing is retired alone, applied audit rows are true | 2 overlapping calls by 2 actors (one a manager); a policy, its fork and another one; 1 capability, standard and control; 5 start graphs; every fault |
| `approvals` | an approval is a single-use token (refines `ApprovalToken`), what it logs is logged on the state that was signed (the part its guard compares, unless the guard read FalkorDB while a group was pending), a revoked passkey signs nothing that was there when its revocation began, outcomes are true | 2 requests at a time, a merge and its reversal, 2 passkeys, 2 officers, 1 edit by others, every fault |
| `ingestion_runs` | workers hold their slots, one outcome per run, no outcome over a live worker, no background run replaces another one's instrument unless that one took no slot or had ended with its merge in the log alone, no slot or running row stays for good; refines `RunLedger` | 2 plans of 3 requests over 2 instruments: 3 under one name, one of them synchronous, and 3 in the background under 3 names; 2 slots, 1 poll, 1 crash, every fault |

Two runs end in a counterexample, `policy_two_governors` and
`replay_left_closed`: see section 5.

Why the bounds are enough. The log's hazards need two appenders on one graph, or
two sets over two graphs; three ids allow a swap set of two, or three groups
after each other. The gateway's hazards need a pending group, a second writer
that comes upon it and a reconciler; two positions give "applied, not marked",
"half applied" and "marker behind by two". Two tries are the first that may be
retried. The replay needs a checkpoint in the middle of a page, a second page
and a head beyond it (5 positions, pages of 2), and two restarts to resume a
resumed rebuild. Groups of two entries appear where the cut of a page or a
group matters. A swap set needs two legs, one of which the repairer was asked
for, and a second set that overtakes the resolution of the first. A policy's
hazards are between two calls; its second call may come after the first one's
end, and the start graphs stand for the calls before both. An approval is
consumed by at most one of two requests, and a revocation deletes the passkey
of one of them half way; the reversal is the second approval
that sees the first one's effect. Two slots and three requests make the cap
refuse one; in the other plan two instruments are asked for under one name, with
and without a slot, which is enough for a merge that was left in the log to meet
the preflight of the next run. `replay_two_graphs` has `corrupt` and no refused
query or shutdown: with these the startup gives up (`GiveUp`), which is
documented and tells nothing of the graphs. `gateway`
leaves out lost acknowledgements because its last two
properties need that (section 5); that the other three hold with them too is
proved. The proofs of section 4 lift all but the liveness properties to every
value of the constants.

Every property has a mutant in `PROJECT.json`: a plausible bug in a mapped
definition (a lock not waited for, a marker advanced too early, a page not cut
at the checkpoint, a comparison left out before the write, ...) under which TLC
finds the property violated. The mutated operators stand in the modules, marked
`mutant`.

Fairness. `GraphGateway!Scheduling`: a running thread takes its next step (weak;
client calls have timeouts), a thread waiting for a `threading.Lock` gets it
eventually (strong: the lock has no queue, but the operating system does not
pass a waiter over for ever), and Postgres decides an abandoned transaction.
Nothing makes a caller call or an environment recover. `EventuallyApplied`
speaks of recovery, so it states `Recovery` - a step tried again and again
succeeds at some time - as its own hypothesis. `GraphReconciler!FairSpec`: a
thread goes on (the wait has a timeout). `GraphReplay!FairSpec`: the startup
thread and a writer inside its lock go on; `ApplyChunks` and
`CatchUpPart` (partial progress in a page, or in a catch-up) are excluded, so that
neither is "in progress" for ever; outages and
crashes are bounded, which is the meaning of "ends" there.
`IngestionRuns!FairSpec`: a worker goes on (the pipeline's calls have timeouts),
and, since the code leaves rows of a crashed process to the client's polls, a
client keeps asking for a running row and the store is not down at each of its
completions (strong fairness of the two actions of a poll). `SwapSets`,
`PolicyLifecycle` and `Approvals` state safety only.

Deadlock is checked in the gateway runs. It is not in the others, which may
stop: `log_store` has no ids left, `reconciler` has stopped, `GraphReplay` has
ended or given up with every graph closed, `swap_sets`, `policy_lifecycle`,
`approvals` and `ingestion_runs` have used up their calls.

`TypeOK` of each module also bounds what a record may hold in each step (no
range that starts at 0, no marker beyond its log, a slot for each worker). It is
proved for every module (`TypeCorrect`); the runs whose budget of time goes to
deeper properties do not check it again.

## 4. What is proved

With TLAPS, for every value of the constants that meets the modules' named
assumptions: constant sets are disjoint where the code's objects are distinct
(`ThreadAssumption`, `SessionAssumption`, `WorkerAssumption`), bounds are
naturals, graphs are finitely many and their names ordered (`GraphAssumption`,
`SwapAssumption`), the start graphs of the
policy module are sound (`StartAssumption`).

**GraphLogStoreProofs.** The inductive invariant is `TypeOK /\ GapFree /\
AppendInv /\ NeverRefused /\ MarkerWithinLog`. `GapFree` alone is not
inductive: a transaction could hold rows numbered from a stale position.
`AppendInv` says why none does. A session past *locked* owns its graph's lock
and runs at READ COMMITTED (`UnderLock`), so committed rows plus its own are
contiguous and its group row starts right after them (`Numbered`); no position
occurs twice (`OneRowPerPosition`); ids are unique and rows belong to groups
(`GroupIdsUnique`, `RowsOfGroups`). From it: `LogIsGapFree`, `GroupsStayWhole`,
`StoreNeverRefused` (locking alone makes the keys and triggers idle),
`MarkersWithinLog`, `LogOnlyGrows`, `StoreImplementsGraphLog`.

A second invariant, `SetInv`, follows a transaction over several graphs: each of
its graphs has a group or a draft left, its groups carry one swap set
(`LegsKnown`), and what it has locked comes before what it still wants
(`InOrder`). From it: `SetsCommitWhole`, and `AppendsDoNotDeadlock` - of several
waiting transactions the one that waits for the greatest graph waits for a
transaction that waits for none of them. That a greatest graph exists is where
finitely many graphs are needed (`GreatestGraph`).

**GraphGatewayProofs.** `TypeOK /\ MarkerTruthful /\ CheckpointsExact /\
ApplyInv`. `MarkerTruthful` needs to know what a thread in the middle of
`_apply_pending` believes: that it holds the lock, that the run it is in starts
right after the marker, ends within the log, and, once applied, lies within
`low`. That is `UnderLock`; `OwnState` ties what a thread knows (its goal, its
group's range, its outcome) to the log. The lemmas have one fact per way a step
changes a thread (return, stay, start), then one lemma per action. From it:
`TypeCorrect`, `MarkerIsTruthful`, `AppliedIsDurable`, `CheckpointsAreExact`,
`LockProtects`, `GatewayImplementsGraphLog` - all with every fault, any number
of threads, any retry budget.

A second invariant, `OrderInv`, holds when acknowledgements are not lost (a
hypothesis of the theorems): from the lag check to the append the lock keeps the
graph caught up, unblocked and at the expected position. From it:
`NothingAcceptedOutOfTurn` and `PreconditionsHold`. With lost acknowledgements
both fail (section 5), so the hypothesis is needed.

**GraphReconcilerProofs.** `TypeOK` with two facts about the backoff and the
slot, and `PendingIsServed`: a graph is never pending with nobody left to serve
it, because register and retirement take the same lock. Theorems `TypeCorrect`
and `Served`, for any number of graphs and threads.

**PolicyLifecycleProofs.** `TypeOK /\ CallInv /\ GraphInv`. `GovernedOnce` is
about the graph; why it stays true is about the calls. `CallInv` says of every
call what its reads have earned it: only a call that asked for a capability
carries a claim (`Claims`), a call past `guard` holds the lock (`Holds`), a
second transition follows an approved first one (`Follows`), an applied row
backs what was written (`Rows`, `Backed`), and - the heart of it, `Fresh` - the
governors a call has decided on are still those of the graph unless the log has
moved past the position it will be compared with, in which case the write is
refused, or some call failed or crashed with its group not applied whole
(`lagged`). `GraphInv` adds what the pending group and the statuses allow. Its
`PendingInv` carries a group through its runs: as long as no call failed, the one
that logged it holds the lock, and what it still has to move is governed by the
policy it is taken from, or by none (`InWay`), so that no run of it makes a second
governor. `GovernedOnce` is conditional on `lagged` because it has to be:
`policy_two_governors` is the counterexample without. The other theorems hold
with half-applied groups too. `GovernanceOnlyMovesOn` is about `Assured`, the
edges in FalkorDB and those the pending group still has to write: in FalkorDB
alone a repointed capability has no governor between two runs, and keeps none
while the group stays half applied (section 5); what never happens is that the
successor's edge is lost too. Theorems:
`OneGovernor`, `GovernanceOnlyMovesOn`, `NothingRetiredAlone`,
`RowsAreTrue`, `TypeCorrect`, for any number of calls, policies and
capabilities.

**ApprovalsProofs.** `TypeOK /\ CallInv /\ RowInv /\ GraphInv`. A request that
executes holds a signed row (`Executes`) and no other request executes the same
one (`Sole`): the conditional update is the only way in. `Compared` says that
from the comparison to the submission the guarded part of the state - that of the
graph with what is pending applied - is the signed one, unless the position the
request carries is stale or its guard read FalkorDB while a group was pending
(`behind`); `Knows` ties what a request will write as an
outcome to the log. `RowInv` and `GraphInv` tie the rows to the groups logged
for them. From it: `ApprovalsAreTokens` (the refinement of `ApprovalToken`),
`SignedStateIsLogged`, `OutcomesAreTrue`, `TypeCorrect`, for any number of
requests, approvals and passkeys. `SignedStateIsLogged` speaks of the guarded
part and makes the exception of `behind`; the rest of what a digest covers is
compared once, when the ceremony ends, and may change before the group is logged.

`SignedWithLivePasskey` needs one more invariant, `PasskeyInv`: of a request about
to consume an approval, the passkey it looked up is still there, or the approval
is no longer pending, or it is `late` (`Live`); while a revocation is open,
it has locked every pending approval of its officer that is not late (`Taken`)
and the passkeys it takes are that officer's (`Doomed`).
What makes it inductive is that a passkey leaves only with the pending approvals
of its holder, in one transaction, and that an approval, once not pending,
never is again (`ForGood`, `PasskeysKept`). From it: `RevokedPasskeysSignNothing`,
in whatever statement of its ceremony the revocation meets the request.

**IngestionRunsProofs.** `TypeOK /\ RunInv /\ SlotInv /\ PollInv`. `RunInv` says
what a run's step knows: what it asked (`Asked`), that it owns its slot from
`reserve` to the release (`OwnsSlot`), that its report agrees with its row
(`Reported`, `Rowed`). `PollInv` is why a poll cannot overwrite a result: the
slot is looked up after the row was read, and a worker gives its slot back only
after it has written. Theorems `SlotsAreHeld`, `OutcomesAreFinal`,
`TypeCorrect`, for any number of runs, slots, polls and crashes.

Two further invariants rest on it. `MergeInv`: where a background run is at its
stages (`StagesInv`), and where its merge is in the log alone (`PendingInv`), there
is no instrument under its name, or one put there by a run that took no slot or
that had ended with its merge logged (`Fresh`); any other writer of that name
would hold a slot beside it, and a run leaves its merge in the log only to end
(`LoggedInv`). From it: `NamesAreMergedOnce`, with these two exceptions by name.
`RowInv`: from its start to its last
write a worker's row is running; without it a worker could start on a run that
the ledger has closed. `RunsKeepLedger` is the refinement: `ThreadView` says
what the step of one thread shows of itself, then one lemma per kind of step
(`RequestRefines`, `RecordsRun`, `StartsWorker`, `PipelineRefines`, ...) names
the ledger's step; `RoomForOne` counts workers against slots.

**SwapSetsProofs.** `TypeOK /\ LogInv /\ SetsVisibleTogether /\ ThreadInv`.
`LogInv`: a set has one place in a log, and nothing is logged over a pending
swap group, so the pending leg of a set is the head of its graph. `ThreadInv`
says of every thread which steps are its own (`Shape`), which locks it holds at
each (`Locks`), what it has checked under them (`Knows`: what it is about to
append on does not lag, the legs it is about to flip are those of a pending
set) and how far its pass goes (`Passes`). `SetsVisibleTogether` survives the
markers' being advanced one by one because what is marked is shown, and an apply
in place because its graphs have no pending leg. From it: `NoneOrAll`,
`LoggedAfterWholeSets`, `NobodyWaitsInACircle` (the argument of
`AppendsDoNotDeadlock`, over the in-process locks), `LocksGivenBack`.
`SwapSetsImplementGraphLog` maps each step to one of the log: a step moves at
most one graph's marker, to a position of its log and never back
(`MovesOneMarker`), or appends to all graphs of a group and moves no marker
(`AppendsTogether`).

**GraphReplayProofs.** `IInv` is `TypeOK`, `GraphInv` and `Opening` of every
graph, `StartupInv` and `RunInv`. None of the properties is inductive: that an
open graph is whole depends on what the startup thread found, possibly before
the last outage and under another process. `GraphInv` is what holds of a graph
whoever looks at it: `Rebuilding` says what a progress record is worth (the
content reaches at least its position, lies between it and the end of its page,
and is past the checkpoint only if compared with it), which is what a resumed
rebuild stands on after a crash; `Writing` what a writer's step has earned it;
`Found` that without a record the graph is empty or whole. What a catch-up leaves
half way is worth no less (`PartApplied`). `Opening` is why the
gate may be opened: a graph still to do is not released, an action decided on
still fits the graph, and a graph done with is whole or shut. `RunInv` ties the
run in memory to the record, the head and the checkpoint it read: they do not
move, because the graph is closed and its lock is held. Each of these has a
lemma per action. From it: `OpenGraphsAreWhole`, `RebuildsAreTheLog`,
`LogsOnWholeGraphs`, `ComparedBeforeGoingOn`, `FailuresHaveACause`,
`TypeCorrect`, for any number of graphs, outages and restarts, any page size
and any log. `ReplayImplementsGraphLog`: of the startup's and the writers' steps
only a commit appends (`CommitAppends`), the others move at most one marker,
upwards and within the log (`MovesOneMarker`), whichever pages a rebuild did
again.

Only model-checked: everything temporal beyond action properties (`CallsEnd`,
`EventuallyApplied`, `GraphsLeaveUnlessLost`, `StopEndsEveryThread`,
`StartupEnds`, `RunsEnd`), since liveness under fairness is out of the prover's
reach.

## 5. Where code and documentation disagree

With a run:

* `policy_two_governors` - a claim of a capability reads the log's position
  first and the governors after it, from the graph. A group that is committed
  and not yet applied is in the first and not in the second; once the
  reconciler has applied it the claim is compared with a position that includes
  it and accepted. The capability has two governors, which the guard's
  docstring says cannot happen; the catch-up check before it only asks whether
  the graph was behind when the call began. The same docstring
  says "never ... zero", which is not kept either (`graph_writer.py:423`): the old edge is
  deleted by one run and the new one merged by the next, each applied and marked
  alone (`applier.py:117`), so that the capability has no governor in between, and
  none for as long as the group stays half applied. `GovernanceMoves` is what
  holds.

* `replay_left_closed` - `replay_graph` marks a graph incomplete before its rebuild
  and clears the mark (`gateway.py:547`) only when the rebuild returned. If the
  answer to the rebuild's last call, the deletion of the progress record, is
  lost, the startup replay is tried again; the graph is now whole and without a
  record, so it is *untouched*, is only released, and `release` "stays closed if
  its replay is incomplete" (`replay_gate.py:92`). The hold ends, the report lists
  no gated graph, and the graph refuses every write until the next restart.
  `gateway.py:634` says "a graph already dealt with by an earlier try is found
  healthy by the next one". `StartupEnds` excepts such a graph.

Met while modelling, visible as outcomes of the actions named, without a run:

* `reconciler.py:127` - the pass discards a graph it found caught up even if the
  graph was registered again in the meantime; the new group stays unapplied
  until the next write, operator call or restart (`GraphGateway!Discard`; the
  exception `EventuallyApplied` names).
* `reconciler.py:128` - `_has_pending` at the end of a pass clears `_thread`, the
  loop goes on, and a registration in between starts a second thread beside the
  first; `reconciler.py:101` says stop returns True if the thread ended, and
  then answers for the one `_thread` names, or for none.
* `reconciler.py:132` - the backoff power is computed before it is capped;
  attempt 1025 (about 8.5 hours of outage at the 30 s cap) overflows outside
  the try, the thread dies with `_thread` still set, and none is ever started
  again. `GraphsLeaveUnlessLost` excepts such a thread.
* `gateway.py:616` - a retry of the startup replay classifies graphs already
  released; a graph whose writer has logged but not applied its first entry
  looks wiped, is rebuilt over its own content, and may be recorded as failed
  (`FailureHasACause` excepts a graph in `faults.raced`).
* `gateway.py:701` - one pending entry that does not decode, in a graph that
  still holds nodes, ends the startup replay and keeps every graph closed that it
  has not released yet, though "each graph opens for writes as soon as it is dealt
  with". `StartupEnds` excepts this outcome by name.
* `replay.py:118` - a lost answer to the write of a failed record leaves it written
  and the gate untold; the next try of the startup reads it and closes the graph
  (`FailsAt`).
* `ingestion/graph_submission.py:107` says of a merge whose apply is pending that "a
  re-run is idempotent". It is, of the same instrument. A run of another one under
  that name, started after the slot was freed, finds nothing in its preflight
  (`api/ingestion_orchestration.py:1143`), and its merge, which checks nothing
  (`company_merge/graph_writer.py:241`), replaces the instrument the gateway
  has applied meanwhile. `MergedOnce` excepts a run that ended with its merge logged.
* `gateway.py:1425` - `gateway.py:1307` says of a leg replayed early that it stays
  blocked "so no writer sees the set half done"; a catch-up of that leg finds
  nothing left and ends its block (`SwapSets!NothingLeft`). After a restart, or
  when the set was left pending without a block, there is none to begin with.
  The sentence is `SwapSets!NoWriterSeesHalfASet`, no property of a run.
* `store.py:702` says of a failed commit "nothing was committed"; a lost
  acknowledgement (`store.py:728`, `Commit(s, FALSE)`, `InDoubt`) reports the
  same error for groups that are, or will be, committed.
* `gateway.py:280` says the same of `submit_group`; a refused marker write
  (`gateway.py:1411`, `Mark`) raises the same error for a group that is logged
  and applied.
* `gateway.py:281` says `GraphApplyError` means the graph is blocked; an error of
  the read before the append (`gateway.py:1070`, `Checks`) raises it with
  nothing logged and nothing blocked.
* `models.py:446` says preconditions hold "when the group is logged"; they are
  evaluated before the append (`gateway.py:1067`), and a transaction in doubt
  may be decided in between. This is why `gateway` excludes "ack lost".
* `passkey_signing/router.py:976` explains a lost `mark_signed` also by an
  expired approval; the update (`store.py:200`) compares only the status.

What the code does that a reader may not expect, in the components modelled:

* *Swap sets.* A commit in doubt decided after the call makes a set pending on
  legs of which one may have been written since, so it becomes visible leg by
  leg. `_unblock_unit` gets only the legs still pending, so `_blocked_units` of
  the others goes stale. A copy whose answer was lost is retried, finds its own
  copy and is refused (`swap.py:154`), which blocks the set. An error while
  the watch is set up leaves `_swap_unit` unhandled. A graph wiped and replayed
  first at startup opens while its set's other leg is pending.
* *Policies.* An approve and a reject that overlap overwrite each other
  (`graph_writer.py:286`, `312`: no precondition). A draft edit authorised
  before a proposal or an approval lands leaves a draft node below it
  (`service.py:1904`, `2011`). Two forks of one policy can be approved one after
  the other. Two creates of one title overlap. A group committed but pending,
  or applied before a later step failed, has a `failed` audit row
  (`service.py:17`).
* *Approvals.* An enrolment that has read its pending row inserts its passkey
  after a revocation has committed (`revocation.py:274`), or between the
  revocation's DELETE and its commit (`revocation.py:289`), and keeps it; a request
  for approval created between the voiding and its commit stays open. A lost acknowledgement
  records `graph_write_failed` for a merge that is committed. A reconciliation
  may call a merge reversed meanwhile interrupted, or call it applied by another
  approval's merge of the same pair; two of them may overwrite each other. A
  signature counter that cannot be stored leaves a signed approval that never
  runs. The guarded writes of graph cleanup read in the same order as
  `policy_two_governors` (`group_builders.py:196`, `376`, `516`, `641`, `776`).
* *Ingestion.* The identity is checked before the slot, and the slot looks at
  the short name: two requests can ingest one CELEX number under two names
  (`mcp_interface/ingestion_tools.py:370`). A request that waited finds another
  instrument under its name and version and reports success
  (`api/ingestion_orchestration.py:1551`); it leaves that instrument there
  (`MergedOnce`). The synchronous tool takes no slot and may overlap a background
  run of its name: whichever merges last replaces the other's instrument.

## 6. What is not modelled

* **Several processes.** The in-process locks, the gate, the slots and the
  reconciliation grace assume one replica (the chart deploys one). During an
  overlap of two pods only the advisory lock and the position trigger protect
  the log, and nothing protects FalkorDB.
* **Collisions of advisory locks.** The lock is keyed by a 32-bit hash of the
  graph's name (`store.py:75`, `1152`). Two graphs whose names collide share a lock:
  positions are as safe, but the ascending order of the names is then no order of
  the locks, and two swap sets might wait for each other until Postgres aborts one.
  The models have one lock per graph.
* **Graph content**: primitives, Cypher, the no-op filter, digests. Content is
  how far a graph reflects its log; that applying a run again converges is an
  assumption.
* **FalkorDB emptied or restored while the process runs.** Wipes come with a
  restart, which is when the code looks for them.
* **Graph cleanup beyond its control**: the planners, previews and group
  builders compute data (which nodes, edges and digests); `Approvals` models
  what every executor does around them.
* **Access roles, change monitor, drift check, dependency health.** They have
  state of their own and their hazards are below; they come after the parts
  that write the graph.
* **Pipeline, service surface, schema, start-up wiring, tools.** Most of the
  repository's lines: calls of a language model, parsing, similarity, request
  and response shapes, HTTP, rendering, configuration. They keep no state
  between calls and do nothing concurrently that the modules do not have; a
  small model cannot tell their data apart. The share of the repository's lines
  the map covers stays small for this reason. `PROJECT.json` names each
  component with its reason.

## 7. Plan

Done: `GraphLog`, `GraphLogStore`, `GraphGateway`, `GraphReconciler`,
`GraphReplay`, `SwapSets`, `PolicyLifecycle`, `ApprovalToken`, `Approvals`,
`RunLedger`, `IngestionRuns`, with their proofs.

Left, what the other parts rest on first:

1. `GraphContent` - the primitives on small graphs as functions: re-applying a
   run converges, the no-op filter drops only what changes nothing. TLC only. It
   discharges the assumption on graph content.
2. `AccessRoles`, `Succession`, `DriftCheck` - small modules: never without an
   owner, resumed at the right step, no false alarm.

Hazards of these parts that `PROJECT.json` does not list:

| Module | Where | What can go wrong |
|---|---|---|
| GraphReplay | `graph_gateway/gateway.py:522` | `replay_graph` on a graph recorded as failed: `begin` forgets the failure |
| GraphReplay | `graph_gateway/startup_retry.py:55` | the uncapped backoff power overflows, as in the reconciler |
| GraphReplay | `graph_gateway/gateway.py:597` | a query FalkorDB refuses during one rebuild ends the startup with the hold on (documented; `GiveUp`) |
| DriftCheck | `graph_gateway/drift.py:218` | the live digest is read without the lock: a replay or a write between the two looks at the baseline |
| AccessRoles | `authz/store.py:391` | two first requests find the role table empty; its lock is another one than the floor's |
| AccessRoles | `authz/store.py:628` | two owners revoke each other: only the recount under the floor's lock keeps one |
| Succession | `change_monitor/trigger.py:382` | three writes and a marker; a crash after any of them must resume at the right step |
| a small later module | `dependency_health/registry.py:58` | the outcome of an older, slower call overwrites a newer one |
| a small later module | `gating_reprobe.py:161` | a probe flight whose thread cannot start is joined by every later poll |
