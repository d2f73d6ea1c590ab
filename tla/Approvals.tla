------------------------------- MODULE Approvals -------------------------------
(***************************************************************************)
(* passkey_signing/store.py, router.py and revocation.py, with the merge   *)
(* and unmerge executors of graph_cleanup/executors.py and the orphan      *)
(* reconciliation of graph_cleanup/service.py: an approval is created over *)
(* the state its officer saw, signed with a passkey, consumed by one       *)
(* conditional update and carried out as one group guarded by the log      *)
(* position; a row that was signed and has no outcome is judged later.     *)
(*                                                                         *)
(* Handlers read, decide and write in statements of their own, so that a   *)
(* revocation (a command of its own), the tools that create and check      *)
(* approvals, other requests and a crash come between any two of them.     *)
(* Codes, challenges and signature counters are not modelled: a signature  *)
(* is one the browser made for this approval.  The gateway is what         *)
(* GraphGateway shows of it, as in PolicyLifecycle.                        *)
(***************************************************************************)
EXTENDS Naturals, Sequences, FiniteSets

CONSTANTS Caller,      \* requests that may be in progress at the same time
          Approval,    \* approval ids
          Credential,  \* passkeys, as an authenticator makes them
          Actor,
          ActorOf,     \* of each approval: the actor it is issued to
          HolderOf,    \* of each credential: the actor that enrols it
          Merging,     \* approvals of a merge; the others reverse one
          Runnable,    \* approvals whose tool has an executor
          Recorded,    \* approvals whose tool records a signature of someone else
          NoApproval, NoCredential,
          Faults,      \* what the environment may do, a subset of FaultKinds
          MaxEdits     \* bound: groups that others log

FaultKinds == {"store down",  \* a statement on the signing database fails
               "audit down",  \* an audit row cannot be written
               "graph down",  \* FalkorDB or the log does not answer
               "pending",     \* a group is committed and not applied
               "doubt",       \* a group is committed and the caller told that it failed
               "crash"}       \* the service stops

ASSUME ApprovalsAssumption ==
  /\ ActorOf \in [Approval -> Actor] /\ HolderOf \in [Credential -> Actor]
  /\ Merging \subseteq Approval /\ Runnable \subseteq Approval /\ Recorded \subseteq Approval
  /\ NoApproval \notin Approval /\ NoCredential \notin Credential
  /\ MaxEdits \in Nat

\* The pair of nodes: which approval merged it, the edges a guard counts, and the rest of what
\* the state digest covers.
Graph == [merged : Approval \cup {NoApproval}, counts : BOOLEAN, rest : BOOLEAN]

Group == [by : Approval \cup {NoApproval}, set : Graph]

VARIABLES row,         \* the rows of pending_approvals
          creds,       \* the rows of signing_credentials
          graph,       \* the pair in FalkorDB
          pending,     \* groups logged and not applied, at most one
          log,         \* the groups logged
          call,        \* what each request is doing
          locked,      \* the rows an open revocation has updated
          revoking,    \* the actors an open revocation is for, at most one
          doomed,      \* the credentials an open revocation has deleted
          late,        \* history: pending approvals issued while a revocation of their actor was open
          consumed,    \* history: how each approval was consumed
          doubted,     \* history: approvals whose group is logged though the caller was told it is not
          behind       \* history: approvals whose guard read a graph that was behind its log

vars == <<row, creds, graph, pending, log, call, locked, revoking, doomed, late, consumed, doubted, behind>>
logVars == <<graph, pending, log, doubted, behind>>
storeVars == <<row, creds, locked, revoking, doomed, late, consumed>>

Outcome == {"none", "done", "error", "refused", "void", "reconciled", "interrupted"}

Row == [status : {"none", "pending", "signed"}, outcome : Outcome, seen : Graph,
        expired : BOOLEAN, settled : BOOLEAN]

PC == {"idle",
       "insert",       \* enrol: about to store the credential
       "credential",   \* sign: about to look the credential up
       "mark",         \* about to consume the approval
       "mark other",   \* the same, for a signature of someone else
       "count",        \* about to store the signature counter
       "role",         \* executor: is the actor still authorised?
       "replan",       \* executor: about to read the graph and compare it with what was signed
       "audit",        \* about to record the applied row
       "guard",        \* guarded write: is the graph caught up?
       "position",     \* guarded write: about to read the log position
       "state",        \* guarded write: about to read the guarded state
       "stamp",        \* the graph must be caught up before the write
       "submit",       \* about to submit the group
       "failed",       \* about to record the failed row
       "outcome",      \* about to store the outcome
       "caught up",    \* check: is the graph caught up?
       "effect",       \* check: about to look for the effect
       "interrupted"}  \* check: about to record the failed row of an orphan

Call == [pc : PC, approval : Approval \cup {NoApproval}, credential : Credential \cup {NoCredential},
         expected : Nat, result : Outcome]

Idle == [pc |-> "idle", approval |-> NoApproval, credential |-> NoCredential,
         expected |-> 0, result |-> "none"]

At(c, pc) == call[c].pc = pc

Goto(c, pc) == call' = [call EXCEPT ![c].pc = pc]

End(c) == call' = [call EXCEPT ![c] = Idle]

\* From here on the request needs nothing but its approval.
Continue(c, pc, result) ==
  call' = [call EXCEPT ![c] = [Idle EXCEPT !.pc = pc, !.approval = call[c].approval, !.result = result]]

\* The handler's answer, stored on the row before it is returned.
Answer(c, result) == Continue(c, "outcome", result)

RowOf(c) == row[call[c].approval]

Logged == {a \in Approval : \E i \in DOMAIN log : log[i].by = a}

NoneSeen == [merged |-> NoApproval, counts |-> FALSE, rest |-> FALSE]

CaughtUp == IF pending = <<>> THEN graph ELSE pending[1].set

-----------------------------------------------------------------------------
(***************************************************************************)
(* The tools and the clock.                                                *)
(***************************************************************************)
Create(a) ==
  /\ row[a].status = "none"
  /\ (graph.merged = NoApproval) = (a \in Merging)
  /\ row' = [row EXCEPT ![a] = [@ EXCEPT !.status = "pending", !.seen = graph]]
  /\ late' = IF ActorOf[a] \in revoking THEN late \cup {a} ELSE late
  /\ UNCHANGED <<creds, call, locked, revoking, doomed, consumed, logVars>>

\* Expiry matters while the row is pending, its grace while it is an orphan.
Expire(a) ==
  /\ row[a].status = "pending" /\ ~row[a].expired
  /\ row' = [row EXCEPT ![a].expired = TRUE]
  /\ UNCHANGED <<creds, call, locked, revoking, doomed, late, consumed, logVars>>

\* RECONCILE_GRACE is "long enough that the executor which signed it cannot still be running".
PassGrace(a) ==
  /\ row[a].status = "signed" /\ row[a].outcome = "none" /\ ~row[a].settled
  /\ \A c \in Caller : call[c].approval # a
  /\ row' = [row EXCEPT ![a].expired = TRUE, ![a].settled = TRUE]
  /\ UNCHANGED <<creds, call, locked, revoking, doomed, late, consumed, logVars>>

\* A group of someone else changes the pair.
EditNodes ==
  /\ Len(SelectSeq(log, LAMBDA w : w.by = NoApproval)) < MaxEdits
  /\ \E g \in {[CaughtUp EXCEPT !.counts = ~@], [CaughtUp EXCEPT !.rest = ~@]} :
       /\ log' = Append(log, [by |-> NoApproval, set |-> g])
       /\ \/ graph' = g /\ pending' = <<>>
          \/ "pending" \in Faults /\ graph' = CaughtUp /\ pending' = <<[by |-> NoApproval, set |-> g]>>
  /\ UNCHANGED <<storeVars, call, doubted, behind>>

Reconcile ==
  /\ pending # <<>>
  /\ graph' = CaughtUp /\ pending' = <<>>
  /\ UNCHANGED <<storeVars, call, log, doubted, behind>>

-----------------------------------------------------------------------------
(***************************************************************************)
(* Enrolment: the code of a pending approval is the proof.                 *)
(***************************************************************************)
RequirePendingAndUnexpired(a) == row[a].status = "pending" /\ ~row[a].expired

Open(c, a, k, pc) ==
  /\ At(c, "idle")
  /\ call' = [call EXCEPT ![c] = [Idle EXCEPT !.pc = pc, !.approval = a, !.credential = k]]
  /\ UNCHANGED <<storeVars, logVars>>

EnrollVerify(c) ==
  \E a \in Approval, k \in Credential :
    /\ RequirePendingAndUnexpired(a)
    /\ k \notin creds /\ HolderOf[k] = ActorOf[a]
    /\ Open(c, a, k, "insert")

CreateSigningCredential(c) ==
  /\ At(c, "insert")
  /\ creds' = creds \cup {call[c].credential}
  /\ End(c)
  /\ UNCHANGED <<row, locked, revoking, doomed, late, consumed, logVars>>

-----------------------------------------------------------------------------
(***************************************************************************)
(* Signing.                                                                *)
(***************************************************************************)
SignVerify(c) ==
  \E a \in Approval, k \in Credential :
    RequirePendingAndUnexpired(a) /\ Open(c, a, k, "credential")

SignedBySelf(c) == HolderOf[call[c].credential] = ActorOf[call[c].approval]

ResolveCredential(c) ==
  /\ At(c, "credential")
  /\ \/ /\ call[c].credential \in creds
        /\ \/ SignedBySelf(c) /\ call[c].approval \in Runnable /\ Goto(c, "mark")
           \/ ~SignedBySelf(c) /\ call[c].approval \in Recorded /\ Goto(c, "mark other")
     \/ End(c)
  /\ UNCHANGED <<storeVars, logVars>>

ReadThenMark(c) == TRUE     \* mutant: the status is not compared again when it is set

StillPending(c) == RowOf(c).status = "pending"

\* The conditional update.
MarkSigned(c, fate) ==
  /\ row' = [row EXCEPT ![call[c].approval].status = "signed"]
  /\ consumed' = [consumed EXCEPT ![call[c].approval] = fate]
  /\ late' = late \ {call[c].approval}

\* A row that an open transaction has updated is waited for.
Consume(c) ==
  /\ At(c, "mark") \/ At(c, "mark other")
  /\ call[c].approval \notin locked
  /\ CASE ~StillPending(c)  -> End(c) /\ UNCHANGED <<row, late, consumed>>
       [] StillPending(c) /\ At(c, "mark") -> MarkSigned(c, "signed") /\ Continue(c, "count", "none")
       [] OTHER              -> MarkSigned(c, "refused") /\ Answer(c, "refused")
  /\ UNCHANGED <<creds, locked, revoking, doomed, logVars>>

UpdateSignCount(c) ==
  /\ At(c, "count")
  /\ Goto(c, "role")
  /\ UNCHANGED <<storeVars, logVars>>

SetOutcome(c) ==
  /\ At(c, "outcome")
  /\ row' = [row EXCEPT ![call[c].approval].outcome = call[c].result]
  /\ End(c)
  /\ UNCHANGED <<creds, locked, revoking, doomed, late, consumed, logVars>>

\* An error on the signing database ends the request; what was committed before stays.
StoreError(c) ==
  /\ "store down" \in Faults
  /\ call[c].pc \in {"insert", "credential", "mark", "mark other", "count", "outcome"}
  /\ End(c)
  /\ UNCHANGED <<storeVars, logVars>>

-----------------------------------------------------------------------------
(***************************************************************************)
(* The executor.  A refusal and a failure are answers, never exceptions.   *)
(***************************************************************************)
ActorIsStillAuthorised(c) ==
  /\ At(c, "role")
  /\ Goto(c, "replan") \/ Answer(c, "error")
  /\ UNCHANGED <<storeVars, logVars>>

Replan(c) ==
  /\ At(c, "replan")
  /\ IF graph = RowOf(c).seen THEN Goto(c, "audit") ELSE Answer(c, "error")
  /\ UNCHANGED <<storeVars, logVars>>

RecordApplied(c) ==
  /\ At(c, "audit")
  /\ Goto(c, "guard") \/ ("audit down" \in Faults /\ Answer(c, "error"))
  /\ UNCHANGED <<storeVars, logVars>>

RequireCaughtUp(c) ==
  /\ At(c, "guard") \/ At(c, "stamp")
  /\ IF pending # <<>> THEN Continue(c, "failed", "none")
                       ELSE Goto(c, IF At(c, "guard") THEN "position" ELSE "submit")
  /\ UNCHANGED <<storeVars, logVars>>

ReadLogPosition(c) ==
  /\ At(c, "position")
  /\ call' = [call EXCEPT ![c].pc = "state", ![c].expected = Len(log)]
  /\ UNCHANGED <<storeVars, logVars>>

\* What a guard compares of the state: who is active and the counted edges, not all of the digest.
Pinned(g) == <<g.merged, g.counts>>

GuardHolds(c) ==
  /\ At(c, "state")
  /\ IF Pinned(graph) = Pinned(RowOf(c).seen) THEN Goto(c, "stamp") ELSE Continue(c, "failed", "none")
  /\ behind' = IF pending = <<>> THEN behind ELSE behind \cup {call[c].approval}
  /\ UNCHANGED <<storeVars, graph, pending, log, doubted>>

GraphError(c) ==
  /\ "graph down" \in Faults
  /\ \/ At(c, "replan") /\ Answer(c, "error")
     \/ call[c].pc \in {"guard", "position", "state", "stamp", "submit"} /\ Continue(c, "failed", "none")
  /\ UNCHANGED <<storeVars, logVars>>

Result(c, g) ==
  [by |-> call[c].approval,
   set |-> [g EXCEPT !.merged = IF call[c].approval \in Merging THEN call[c].approval ELSE NoApproval]]

NeverStale(c) == FALSE      \* mutant: the group is submitted without its ExpectedPosition

Stale(c) == call[c].expected # Len(log)

\* A committed group that is not applied yet is a success; a lost acknowledgement is a failure.
LogAndApply(c, g) ==
  LET w == Result(c, g)
  IN  /\ log' = Append(log, w)
      /\ \/ graph' = w.set /\ pending' = <<>>
         \/ "pending" \in Faults /\ graph' = g /\ pending' = <<w>>
      /\ \/ Answer(c, "done") /\ UNCHANGED doubted
         \/ "doubt" \in Faults /\ Continue(c, "failed", "none") /\ doubted' = doubted \cup {w.by}
      /\ UNCHANGED behind

SubmitCleanupGroup(c) ==
  /\ At(c, "submit")
  /\ IF Stale(c)
     THEN graph' = CaughtUp /\ pending' = <<>> /\ Continue(c, "failed", "none") /\ UNCHANGED <<log, doubted, behind>>
     ELSE LogAndApply(c, CaughtUp)
  /\ UNCHANGED storeVars

\* Best effort: an audit outage is logged and never masks the refusal.
RecordFailed(c) ==
  /\ At(c, "failed")
  /\ Answer(c, "error")
  /\ UNCHANGED <<storeVars, logVars>>

-----------------------------------------------------------------------------
(***************************************************************************)
(* A signed row without an outcome, past its grace.                        *)
(***************************************************************************)
Orphan(a) == row[a].status = "signed" /\ row[a].outcome = "none" /\ row[a].settled

CheckCleanupApproval(c) ==
  \E a \in Approval : Orphan(a) /\ Open(c, a, NoCredential, "caught up")

NotAsked(c) ==              \* mutant: the orphan is judged on a graph that may be behind its log
  /\ At(c, "caught up")
  /\ Goto(c, "effect")
  /\ UNCHANGED <<storeVars, logVars>>

GraphHasCaughtUp(c) ==
  /\ At(c, "caught up")
  /\ IF pending = <<>> THEN Goto(c, "effect") ELSE End(c)
  /\ UNCHANGED <<storeVars, logVars>>

EffectPresent(a) == IF a \in Merging THEN graph.merged # NoApproval ELSE graph.merged = NoApproval

ReconcileOrphan(c) ==
  /\ At(c, "effect")
  /\ IF EffectPresent(call[c].approval) THEN Answer(c, "reconciled") ELSE Goto(c, "interrupted")
  /\ UNCHANGED <<storeVars, logVars>>

RecordInterrupted(c) ==
  /\ At(c, "interrupted")
  /\ Answer(c, "interrupted") \/ ("audit down" \in Faults /\ End(c))
  /\ UNCHANGED <<storeVars, logVars>>

\* Anything that raises leaves the row as it is; a later check tries again.
CheckError(c) ==
  /\ "graph down" \in Faults
  /\ At(c, "caught up") \/ At(c, "effect")
  /\ End(c)
  /\ UNCHANGED <<storeVars, logVars>>

-----------------------------------------------------------------------------
(***************************************************************************)
(* Revocation: one transaction.  Its first statement updates and locks the *)
(* pending rows, its second deletes the credentials stored by then (the    *)
(* two are one step: storing a passkey and locking the rows commute);      *)
(* nothing is visible before the commit, and the audit row is written just *)
(* before that.                                                            *)
(***************************************************************************)
NothingVoided(actor) ==        \* mutant: a revocation deletes the passkeys only
  /\ revoking = {}
  /\ revoking' = {actor} /\ UNCHANGED locked
  /\ doomed' = {k \in creds : HolderOf[k] = actor}
  /\ UNCHANGED <<row, creds, call, late, consumed, logVars>>

VoidPending(actor) ==
  /\ revoking = {}
  /\ revoking' = {actor}
  /\ locked' = {a \in Approval : ActorOf[a] = actor /\ row[a].status = "pending"}
  /\ doomed' = {k \in creds : HolderOf[k] = actor}
  /\ UNCHANGED <<row, creds, call, late, consumed, logVars>>

Voided(a) == [row[a] EXCEPT !.status = "signed", !.outcome = "void"]

CommitRevocation ==
  /\ revoking # {}
  /\ row' = [a \in Approval |-> IF a \in locked THEN Voided(a) ELSE row[a]]
  /\ consumed' = [a \in Approval |-> IF a \in locked THEN "void" ELSE consumed[a]]
  /\ creds' = creds \ doomed
  /\ late' = late \ locked
  /\ revoking' = {} /\ locked' = {} /\ doomed' = {}
  /\ UNCHANGED <<call, logVars>>

RollBackRevocation ==
  /\ revoking # {}
  /\ "audit down" \in Faults \/ "store down" \in Faults
  /\ revoking' = {} /\ locked' = {} /\ doomed' = {}
  /\ UNCHANGED <<row, creds, call, late, consumed, logVars>>

Crash ==
  /\ "crash" \in Faults
  /\ \E c \in Caller : ~At(c, "idle")
  /\ call' = [c \in Caller |-> Idle]
  /\ UNCHANGED <<storeVars, logVars>>

-----------------------------------------------------------------------------
Unborn == [status |-> "none", outcome |-> "none", seen |-> NoneSeen, expired |-> FALSE, settled |-> FALSE]

Init ==
  /\ row = [a \in Approval |-> Unborn]
  /\ creds = {}
  /\ graph = NoneSeen
  /\ pending = <<>> /\ log = <<>>
  /\ call = [c \in Caller |-> Idle]
  /\ locked = {} /\ revoking = {} /\ doomed = {} /\ late = {}
  /\ consumed = [a \in Approval |-> "none"]
  /\ doubted = {} /\ behind = {}

Environment ==
  \/ \E a \in Approval : Create(a) \/ Expire(a) \/ PassGrace(a)
  \/ EditNodes \/ Reconcile \/ Crash

Revocation == (\E actor \in Actor : VoidPending(actor)) \/ CommitRevocation \/ RollBackRevocation

Ceremony(c) ==
  \/ EnrollVerify(c) \/ CreateSigningCredential(c)
  \/ SignVerify(c) \/ ResolveCredential(c) \/ Consume(c) \/ UpdateSignCount(c) \/ SetOutcome(c)
  \/ StoreError(c)

Execute(c) ==
  \/ ActorIsStillAuthorised(c) \/ Replan(c) \/ RecordApplied(c) \/ RequireCaughtUp(c)
  \/ ReadLogPosition(c) \/ GuardHolds(c) \/ SubmitCleanupGroup(c) \/ RecordFailed(c) \/ GraphError(c)

Check(c) ==
  \/ CheckCleanupApproval(c) \/ GraphHasCaughtUp(c) \/ ReconcileOrphan(c) \/ RecordInterrupted(c)
  \/ CheckError(c)

Next ==
  \/ Environment
  \/ Revocation
  \/ \E c \in Caller : Ceremony(c) \/ Execute(c) \/ Check(c)

Spec == Init /\ [][Next]_vars

-----------------------------------------------------------------------------
(***************************************************************************)
(* Types; an outcome is on consumed rows only, grace begins after expiry.  *)
(***************************************************************************)
TypeOK ==
  /\ row \in [Approval -> Row]
  /\ creds \subseteq Credential
  /\ graph \in Graph
  /\ pending \in {<<>>} \cup {<<w>> : w \in Group}
  /\ log \in Seq(Group)
  /\ call \in [Caller -> Call]
  /\ locked \subseteq Approval /\ revoking \subseteq Actor /\ doomed \subseteq Credential
  /\ late \subseteq Approval
  /\ consumed \in [Approval -> {"none", "signed", "refused", "void"}]
  /\ doubted \subseteq Approval /\ behind \subseteq Approval
  /\ \A a \in Approval :
       /\ row[a].outcome # "none" => row[a].status = "signed"
       /\ row[a].settled => row[a].expired

(***************************************************************************)
(* Approvals are single-use tokens (store.py:126 "exactly one of them gets *)
(* True"): consumed once, by one cause, and run at most once, by the       *)
(* request whose signature consumed it; never after a refusal or a         *)
(* revocation.                                                             *)
(***************************************************************************)
Fate(a) == IF row[a].status = "signed" THEN consumed[a] ELSE row[a].status

TimesLogged(a) == Cardinality({i \in DOMAIN log : log[i].by = a})

Token == INSTANCE ApprovalToken WITH
           token <- [a \in Approval |-> Fate(a)],
           ran <- [a \in Approval |-> TimesLogged(a)]

ImplementsToken == Token!Spec

(***************************************************************************)
(* What is logged for an approval is logged on the guarded part of the     *)
(* state its officer signed (who is merged, the counted edges; not the     *)
(* rest of the digest), whatever others log between the comparison of the  *)
(* digest, the guard and the submission - unless the guard itself read the *)
(* graph while a group was pending.                                        *)
(***************************************************************************)
LoggedOnSignedState ==
  [][\A a \in Logged' \ Logged : a \in behind \/ Pinned(row[a].seen) = Pinned(CaughtUp)]_vars

(***************************************************************************)
(* An outcome says what the log holds, however it got onto the row: a      *)
(* success is logged; a failure is not, unless the commit was in doubt;    *)
(* an orphan judged interrupted is not logged, unless another group came   *)
(* after it; one judged applied has had its effect in the graph, by its    *)
(* own group or by one of the same kind.                                   *)
(***************************************************************************)
Overtaken(a) == \E i, j \in DOMAIN log : i < j /\ log[i].by = a

EffectLogged(a) ==
  IF a \in Merging THEN Logged \cap Merging # {} ELSE NoApproval \in {log[i].set.merged : i \in DOMAIN log}

OutcomeIsTrue ==
  \A a \in Approval :
    CASE row[a].outcome = "done" -> a \in Logged
      [] row[a].outcome \in {"error", "refused", "void"} -> a \notin Logged \/ a \in doubted
      [] row[a].outcome = "interrupted" -> a \notin Logged \/ Overtaken(a)
      [] row[a].outcome = "reconciled" -> EffectLogged(a)
      [] OTHER -> TRUE

(***************************************************************************)
(* A revocation takes the approvals with the passkeys (revocation.py       *)
(* "stops a revoked principal's keys working"): a passkey it deleted       *)
(* consumes no approval that existed when it began, not even in a request  *)
(* that had looked the passkey up before.                                  *)
(***************************************************************************)
SignedBy(c, a, k) ==
  At(c, "mark") /\ call'[c].pc = "count" /\ call[c].approval = a /\ call[c].credential = k

SignedWithLivePasskey ==
  [][\A a \in Approval \ late : consumed'[a] = "signed" /\ consumed[a] # "signed" =>
       \E c \in Caller : \E k \in creds : SignedBy(c, a, k)]_vars
=============================================================================
