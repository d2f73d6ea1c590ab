---------------------------- MODULE PolicyLifecycle ----------------------------
(***************************************************************************)
(* policy_lifecycle/service.py, graph_writer.py, rules.py and              *)
(* graph_submission.py: policies are created or forked, edited, proposed,  *)
(* approved, rejected, reverted, and deprecated behind their successor, by *)
(* calls that overlap.  Every call reads the graph, passes its gates on    *)
(* what it read, records an audit row and submits one group.               *)
(*                                                                         *)
(* The gateway is what GraphGateway shows of it: under the graph's lock it *)
(* catches up, checks the expected position, logs the group and applies it *)
(* run by run, marking each; other calls read FalkorDB in between.  What   *)
(* an outage or a crash leaves of a group is pending until a later writer  *)
(* or the reconciler applies it; nothing is logged over an unapplied run,  *)
(* so at most one group is pending.  Of a policy's tree each node has its  *)
(* status; titles, fields, versions and the stamping of old edges change   *)
(* no decision here.                                                       *)
(***************************************************************************)
EXTENDS Naturals, FiniteSets

CONSTANTS Caller,      \* calls that may be in progress at the same time
          Actor,       \* the verified identities
          Manager,     \* actors that hold PolicyManager or above
          Override,    \* actors that hold a role that edits any draft
          Policy,      \* policy ids
          Prior,       \* of each id: the prior it is derived from, or NoPolicy
          Capability, Standard, Control,
          ParentOf,    \* of each control: its standard
          NoPolicy, NoActor,
          Start,       \* graphs the calls may find: what earlier calls and ingestions left
          Faults,      \* what the environment may do, a subset of FaultKinds
          MaxCalls     \* bound: calls made

FaultKinds == {"outage",      \* FalkorDB or the log does not answer: a read or a submission fails
               "pending",     \* a group is committed and not, or not wholly, applied
               "audit down",  \* the audit row cannot be written
               "crash"}       \* the process stops in the middle of a call

Item == Standard \cup Control

Status == {"draft", "proposed", "approved", "deprecated"}

ASSUME PolicyAssumption ==
  /\ Manager \subseteq Actor /\ Override \subseteq Actor
  /\ NoActor \notin Actor /\ NoPolicy \notin Policy
  /\ Prior \in [Policy -> Policy \cup {NoPolicy}]
  /\ \A p \in Policy : Prior[p] # p
  /\ ParentOf \in [Control -> Standard] /\ Standard \cap Control = {}
  /\ MaxCalls \in Nat

Graph == [status  : [Policy -> Status \cup {"none"}],
          owner   : [Policy -> Actor \cup {NoActor}],
          item    : [Policy -> [Item -> Status \cup {"none", "unset"}]],
          governs : SUBSET (Capability \X Policy)]

\* "A Capability has exactly one governing Policy": at most one, where a graph begins.
ASSUME StartAssumption ==
  /\ Start \subseteq Graph
  /\ \A g \in Start, e, f \in Capability \X Policy :
       e \in g.governs /\ f \in g.governs /\ e[1] = f[1] => e = f
  /\ \A g \in Start, p \in Policy :
       g.status[p] = "deprecated" => \E q \in Policy : Prior[q] = p /\ g.status[q] = "approved"

VARIABLES graph,     \* the policy graph in FalkorDB
          pending,   \* what is not applied yet of the last logged group, or NoGroup
          head,      \* the log's last position, in groups
          call,      \* what each call is doing
          calls,     \* history: calls made, up to MaxCalls
          approved,  \* history: policies an approval of which was logged
          lagged     \* history: a group was once left unapplied by the call that logged it

vars == <<graph, pending, head, call, calls, approved, lagged>>
logVars == <<graph, pending, head, approved, lagged>>
gatewayVars == <<logVars, calls>>

(***************************************************************************)
(* One group: it sets the policy's status and owner ("keep", NoActor: not),*)
(* marks items with a status, and makes the policy govern the capabilities *)
(* instead of `from`.  `edit` stands for fields no decision depends on.    *)
(***************************************************************************)
Group == [policy : Policy, status : Status \cup {"keep"}, owner : Actor \cup {NoActor},
          items : SUBSET Item, mark : Status \cup {"unset"}, caps : SUBSET Capability,
          from : Policy \cup {NoPolicy}, edit : BOOLEAN]

NoGroup == [policy |-> NoPolicy]

Plain(p) == [policy |-> p, status |-> "keep", owner |-> NoActor, items |-> {}, mark |-> "draft",
             caps |-> {}, from |-> NoPolicy, edit |-> FALSE]

Effect(g, w) ==
  [status  |-> [p \in Policy |-> IF p = w.policy /\ w.status # "keep" THEN w.status ELSE g.status[p]],
   owner   |-> [p \in Policy |-> IF p = w.policy /\ w.owner # NoActor THEN w.owner ELSE g.owner[p]],
   item    |-> [p \in Policy |-> [i \in Item |-> IF p = w.policy /\ i \in w.items THEN w.mark
                                                                                  ELSE g.item[p][i]]],
   governs |-> (g.governs \ (w.caps \X {w.from})) \cup (w.caps \X {w.policy})]

Changes(g, w) == w.edit \/ Effect(g, w) # g

(***************************************************************************)
(* The runs of a group: consecutive entries of one operation, applied and  *)
(* marked one run after the other.  A repoint deletes the old edges, adds  *)
(* the new ones, then cascades the status; a create writes the policy and  *)
(* its tree and then the claims; a parent comes before its children.       *)
(* `left` is what remains of the group once the run is marked.             *)
(***************************************************************************)
Left(w) == IF w.caps = {} /\ w.status = "keep" /\ w.items = {} THEN NoGroup ELSE w

DeleteEdges(g, w) ==
  [graph |-> [g EXCEPT !.governs = @ \ (w.caps \X {w.from})],
   left  |-> [w EXCEPT !.from = NoPolicy]]

UpsertEdges(g, w) ==
  [graph |-> Effect(g, [Plain(w.policy) EXCEPT !.caps = w.caps]),
   left  |-> Left([w EXCEPT !.caps = {}])]

WritePolicy(g, w) ==
  [graph |-> Effect(g, [Plain(w.policy) EXCEPT !.status = w.status, !.owner = w.owner]),
   left  |-> Left([w EXCEPT !.status = "keep", !.owner = NoActor])]

WriteItem(g, w, i) ==
  [graph |-> Effect(g, [Plain(w.policy) EXCEPT !.items = {i}, !.mark = w.mark]),
   left  |-> Left([w EXCEPT !.items = @ \ {i}])]

WriteFields(g, w) == [graph |-> g, left |-> NoGroup]

EdgesFirst(w) == w.status = "approved"

NextRuns(g, w) ==
  IF w.from # NoPolicy THEN {DeleteEdges(g, w)}
  ELSE IF w.caps # {} /\ (EdgesFirst(w) \/ (w.status = "keep" /\ w.items = {})) THEN {UpsertEdges(g, w)}
  ELSE IF w.status # "keep" THEN {WritePolicy(g, w)}
  ELSE IF w.items # {}
       THEN {WriteItem(g, w, i) : i \in {j \in w.items : j \in Standard \/ ParentOf[j] \notin w.items}}
  ELSE {WriteFields(g, w)}

Exists(p) == graph.status[p] # "none"

Tree(p) == {i \in Item : graph.item[p][i] # "none"}

Governed(p) == {c \in Capability : <<c, p>> \in graph.governs}

Governors(c) == {p \in Policy : <<c, p>> \in graph.governs}

-----------------------------------------------------------------------------
Kind == {"none", "create", "propose", "approve", "deprecate", "reject", "revert",
         "edit", "add", "edit item"}

PC == {"idle",       \* no call, or it has returned or raised
       "backfill",   \* about to look for nodes without a status
       "read",       \* about to read the policy and pass the gates
       "exists",     \* create: about to look for the new id
      "claims",     \* create: about to look at who governs the claimed capabilities
       "tree",       \* fork: about to read the prior's tree
       "repoint",    \* approve: about to read what the prior governs
       "audit",      \* about to record the applied row
       "guard",      \* guarded write: is the graph caught up?
       "position",   \* guarded write: about to read the log position
       "governors",  \* guarded write: about to read the governance again
       "cascade",    \* about to read the tree the cascade goes over
       "stamp",      \* the graph must be caught up before the write
       "submit",     \* about to submit the group
       "apply",      \* the group is logged; under the graph's lock its runs are applied
       "after",      \* submitted: the graph must be caught up
       "prior",      \* approve: about to look for an approved prior
       "failed"}     \* about to record the failed row

\* The audit row of the transition at hand: "refuted" by a failed row, or the failed row is "lost".
Row == {"none", "applied", "refuted", "lost"}

Call == [pc : PC, kind : Kind, actor : Actor \cup {NoActor}, policy : Policy \cup {NoPolicy},
         items : SUBSET Item, caps : SUBSET Capability, from : Policy \cup {NoPolicy},
         write : Group \cup {NoGroup}, next : PC, expected : Nat, row : Row, wrote : BOOLEAN]

Idle == [pc |-> "idle", kind |-> "none", actor |-> NoActor, policy |-> NoPolicy, items |-> {},
         caps |-> {}, from |-> NoPolicy, write |-> NoGroup, next |-> "idle", expected |-> 0,
         row |-> "none", wrote |-> FALSE]

At(c, pc) == call[c].pc = pc

\* The graph's lock is held over the apply.
Locked == \E c \in Caller : At(c, "apply")

\* The call returns or raises: what is left of it is its row.
End(c) == call' = [call EXCEPT ![c] = [Idle EXCEPT !.row = call[c].row, !.wrote = call[c].wrote]]

Goto(c, pc) == IF pc = "idle" THEN End(c) ELSE call' = [call EXCEPT ![c].pc = pc]

\* The group is decided; it is submitted once the graph is caught up.
Write(c, w, pc, next) == call' = [call EXCEPT ![c].write = w, ![c].pc = pc, ![c].next = next]

\* A claim or a repoint: the write is guarded by the log position.
Guarded(c) == call[c].caps # {}

RaiseOnly(c) == End(c)      \* mutant: the write's exception is not caught, no failed row

\* An exception: a transition whose applied row stands records a failed one first.
Raise(c) ==
  IF call[c].row = "applied" /\ ~At(c, "prior") THEN Goto(c, "failed") ELSE End(c)

Outage(c) ==
  /\ "outage" \in Faults
  /\ call[c].pc \notin {"idle", "audit", "apply", "failed"}
  /\ Raise(c)
  /\ UNCHANGED gatewayVars

-----------------------------------------------------------------------------
(***************************************************************************)
(* Requests.  A fork (an id with a prior) ignores claims and items.        *)
(***************************************************************************)
Edits == {"edit", "add", "edit item"}

Fork(p) == Prior[p] # NoPolicy

Begin(c, kind, a, p, items, caps) ==
  /\ At(c, "idle") /\ calls < MaxCalls
  /\ calls' = calls + 1
  /\ call' = [call EXCEPT ![c] =
       [Idle EXCEPT !.pc = IF kind = "create" /\ ~Fork(p) THEN "exists" ELSE "backfill",
                    !.kind = kind, !.actor = a, !.policy = p, !.items = items, !.caps = caps]]
  /\ UNCHANGED logVars

WholeTree(items) == \A k \in items \cap Control : ParentOf[k] \in items

Request(c) ==
  \E a \in Actor, p \in Policy :
     \/ \E kind \in {"propose", "approve", "reject", "revert", "edit"} : Begin(c, kind, a, p, {}, {})
     \/ \E kind \in {"add", "edit item"}, i \in Item : Begin(c, kind, a, p, {i}, {})
     \/ /\ ~Fork(p)
        /\ \E items \in SUBSET Item, caps \in SUBSET Capability :
             WholeTree(items) /\ Begin(c, "create", a, p, items, caps)
     \/ Fork(p) /\ Begin(c, "create", a, p, {}, {})

-----------------------------------------------------------------------------
(***************************************************************************)
(* What is read before the decision.                                       *)
(***************************************************************************)
Subject(c) == IF call[c].kind = "create" THEN Prior[call[c].policy] ELSE call[c].policy

Backfill(c) ==
  LET p == Subject(c)
      unset == {i \in Item : graph.item[p][i] = "unset"}
  IN  /\ At(c, "backfill")
      /\ IF Exists(p) /\ unset # {}
         THEN Write(c, [Plain(p) EXCEPT !.items = unset, !.mark = graph.status[p]], "stamp", "read")
         ELSE Goto(c, "read")
      /\ UNCHANGED gatewayVars

IsOwner(c) == call[c].actor = graph.owner[call[c].policy]

HasStatus(c, s) == graph.status[call[c].policy] = s

\* An edit looks at the status of the node it changes; an added standard goes under the policy,
\* an added control under its standard.
Draft(c, i) == graph.item[call[c].policy][i] = "draft"

DraftParent(c, i) ==
  IF i \in Control THEN Draft(c, ParentOf[i]) ELSE HasStatus(c, "draft")

BlockSelfApproval(c) == IsOwner(c)

MayFork(c) == graph.status[Prior[call[c].policy]] = "approved"

MayPropose(c) == IsOwner(c) /\ HasStatus(c, "draft") /\ Tree(call[c].policy) \cap Standard # {}

MayApprove(c) == call[c].actor \in Manager /\ ~BlockSelfApproval(c) /\ HasStatus(c, "proposed")

MayReject(c) == MayApprove(c)

MayRevert(c) == IsOwner(c) /\ HasStatus(c, "proposed")

UpdatePolicyDraft(c) == call[c].kind = "edit" /\ HasStatus(c, "draft")

UpdateItemDraft(c) == call[c].kind = "edit item" /\ \A i \in call[c].items : Draft(c, i)

AddToDraft(c) == call[c].kind = "add" /\ \A i \in call[c].items : DraftParent(c, i)

MayEdit(c) ==
  /\ IsOwner(c) \/ call[c].actor \in Override
  /\ UpdatePolicyDraft(c) \/ UpdateItemDraft(c) \/ AddToDraft(c)

Allowed(c) ==
  CASE call[c].kind = "create"  -> MayFork(c)
    [] call[c].kind = "propose" -> MayPropose(c)
    [] call[c].kind = "approve" -> MayApprove(c)
    [] call[c].kind = "reject"  -> MayReject(c)
    [] call[c].kind = "revert"  -> MayRevert(c)
    [] OTHER                    -> MayEdit(c)

EditGroup(c) ==
  IF call[c].kind \in {"edit", "edit item"}
  THEN [Plain(call[c].policy) EXCEPT !.edit = TRUE]
  ELSE [Plain(call[c].policy) EXCEPT !.items = call[c].items]

Read(c) ==
  /\ At(c, "read")
  /\ \/ ~Allowed(c) /\ End(c)
     \/ Allowed(c) /\ CASE call[c].kind = "create" -> Goto(c, "exists")
                        [] call[c].kind = "approve" -> Goto(c, "repoint")
                        [] call[c].kind \in Edits -> Write(c, EditGroup(c), "stamp", "idle")
                        [] OTHER -> Goto(c, "audit")
  /\ UNCHANGED gatewayVars

LookForExisting(c) ==
  /\ At(c, "exists")
  /\ IF Exists(call[c].policy) THEN End(c)
                               ELSE Goto(c, IF Fork(call[c].policy) THEN "tree" ELSE "claims")
  /\ UNCHANGED gatewayVars

Ungoverned(c) == \A k \in call[c].caps : Governors(k) = {}

LookAtClaims(c) ==
  /\ At(c, "claims")
  /\ IF Ungoverned(c) THEN Goto(c, "audit") ELSE End(c)
  /\ UNCHANGED gatewayVars

ReadPriorTree(c) ==
  /\ At(c, "tree")
  /\ call' = [call EXCEPT ![c].pc = "audit", ![c].items = Tree(Prior[call[c].policy])]
  /\ UNCHANGED gatewayVars

ReadRepoint(c) ==
  LET p == call[c].policy
      caps == IF Fork(p) THEN Governed(Prior[p]) ELSE {}
  IN  /\ At(c, "repoint")
      /\ call' = [call EXCEPT ![c].pc = "audit", ![c].caps = caps,
                    ![c].from = IF caps = {} THEN NoPolicy ELSE Prior[p]]
      /\ UNCHANGED gatewayVars

-----------------------------------------------------------------------------
(***************************************************************************)
(* The applied row, then the write.                                        *)
(***************************************************************************)
CreateGroup(c) ==
  [Plain(call[c].policy) EXCEPT !.status = "draft", !.owner = call[c].actor,
                                !.items = call[c].items, !.caps = call[c].caps]

AuditApplied(c) ==
  /\ At(c, "audit")
  /\ \/ call' = [call EXCEPT ![c].row = "applied", ![c].wrote = FALSE,
                   ![c].pc = IF Guarded(c) THEN "guard"
                             ELSE IF call[c].kind = "create" THEN "stamp" ELSE "cascade",
                   ![c].write = CreateGroup(c), ![c].next = "idle"]
     \/ "audit down" \in Faults /\ End(c)
  /\ UNCHANGED gatewayVars

Guard(c) ==
  /\ At(c, "guard")
  /\ IF pending = NoGroup THEN Goto(c, "position") ELSE Raise(c)
  /\ UNCHANGED gatewayVars

ReadPosition(c) ==
  /\ At(c, "position") /\ ~Locked
  /\ call' = [call EXCEPT ![c].pc = "governors", ![c].expected = head]
  /\ UNCHANGED gatewayVars

\* What the caller decided on is still so.
StillGoverned(c) ==
  IF call[c].kind = "create"
  THEN Ungoverned(c)
  ELSE Governed(call[c].from) = call[c].caps

CheckGovernors(c) ==
  /\ At(c, "governors")
  /\ IF StillGoverned(c) THEN Goto(c, "stamp") ELSE Raise(c)
  /\ UNCHANGED gatewayVars

Target(kind) == CASE kind = "propose" -> "proposed" [] kind = "approve" -> "approved"
                  [] kind = "deprecate" -> "deprecated" [] OTHER -> "draft"

CascadeGroup(c) ==
  LET to == Target(call[c].kind)
  IN  [Plain(call[c].policy) EXCEPT !.status = to, !.items = Tree(call[c].policy), !.mark = to,
                                    !.caps = call[c].caps, !.from = call[c].from]

ReadCascade(c) ==
  /\ At(c, "cascade")
  /\ Write(c, CascadeGroup(c), IF Guarded(c) THEN "submit" ELSE "stamp",
           IF call[c].kind = "approve" THEN "prior" ELSE "idle")
  /\ UNCHANGED gatewayVars

Stamp(c) ==
  /\ At(c, "stamp")
  /\ IF pending = NoGroup
     THEN Goto(c, IF Guarded(c) /\ call[c].kind = "approve" THEN "cascade" ELSE "submit")
     ELSE Raise(c)
  /\ UNCHANGED gatewayVars

-----------------------------------------------------------------------------
(***************************************************************************)
(* The gateway, under the graph's lock.                                    *)
(***************************************************************************)
NeverStale(c) == FALSE      \* mutant: the group is submitted without its ExpectedPosition

Stale(c) == Guarded(c) /\ call[c].expected # head

Written(c) == call' = [call EXCEPT ![c].pc = "after", ![c].wrote = call[c].row = "applied"]

LogGroup(c, w) ==
  /\ head' = head + 1
  /\ approved' = IF w.status = "approved" THEN approved \cup {w.policy} ELSE approved
  /\ pending' = w
  /\ call' = [call EXCEPT ![c].pc = "apply"]
  /\ UNCHANGED <<graph, calls, lagged>>

StaleIsDone(c) == Written(c)      \* mutant: the stale group is taken for a submitted one

RefuseStale(c) == Raise(c)

SubmitGroup(c) ==
  LET w == call[c].write
  IN  /\ At(c, "submit") /\ ~Locked
      /\ pending = NoGroup       \* the graph was caught up first
      /\ CASE Stale(c) -> RefuseStale(c) /\ UNCHANGED gatewayVars
           [] ~Stale(c) /\ ~Changes(graph, w) -> Written(c) /\ UNCHANGED gatewayVars
           [] OTHER -> LogGroup(c, w)

RestForgotten(r) == graph' = r.graph /\ pending' = NoGroup   \* mutant: the marker goes to the group's end

Mark(r) == graph' = r.graph /\ pending' = r.left

\* One run of the caller's own group; after the last one the lock is released.
ApplyRun(c) ==
  /\ At(c, "apply") /\ pending # NoGroup
  /\ \E r \in NextRuns(graph, pending) :
       /\ Mark(r)
       /\ IF r.left = NoGroup THEN Written(c) ELSE UNCHANGED call
  /\ UNCHANGED <<head, calls, approved, lagged>>

\* FalkorDB or the log fails before, or after and unmarked, a run: what is left stays pending.
ApplyFails(c) ==
  /\ "pending" \in Faults
  /\ At(c, "apply") /\ pending # NoGroup
  /\ graph' \in {graph} \cup {r.graph : r \in NextRuns(graph, pending)}
  /\ lagged' = TRUE
  /\ Raise(c)
  /\ UNCHANGED <<pending, head, calls, approved>>

\* The next run of what was left pending: a writer that is about to log, or the reconciler,
\* takes the lock.  The run may be applied and not marked, and is then applied again.
CatchUp ==
  /\ pending # NoGroup /\ ~Locked
  /\ \E r \in NextRuns(graph, pending) :
       Mark(r) \/ (graph' = r.graph /\ UNCHANGED pending)
  /\ UNCHANGED <<head, call, calls, approved, lagged>>

-----------------------------------------------------------------------------
After(c) ==
  /\ At(c, "after")
  /\ IF pending = NoGroup THEN Goto(c, call[c].next) ELSE Raise(c)
  /\ UNCHANGED gatewayVars

ApprovedPrior(p) == {q \in {Prior[p]} \cap Policy : graph.status[q] = "approved"}

FindApprovedPrior(c) ==
  /\ At(c, "prior")
  /\ IF ApprovedPrior(call[c].policy) = {}
     THEN End(c)
     ELSE call' = [call EXCEPT ![c].pc = "audit", ![c].kind = "deprecate",
                     ![c].policy = Prior[call[c].policy], ![c].caps = {}, ![c].from = NoPolicy,
                     ![c].row = "none", ![c].wrote = FALSE]
  /\ UNCHANGED gatewayVars

AuditFailed(c) ==
  /\ At(c, "failed")
  /\ \E row \in {"refuted"} \cup (IF "audit down" \in Faults THEN {"lost"} ELSE {}) :
       call' = [call EXCEPT ![c] = [Idle EXCEPT !.row = row]]
  /\ UNCHANGED gatewayVars

\* What a call was doing is forgotten; the log and FalkorDB stay, a group half applied included.
Crash ==
  /\ "crash" \in Faults
  /\ \E c \in Caller : ~At(c, "idle")
  /\ call' = [c \in Caller |-> Idle]
  /\ lagged' = (lagged \/ pending # NoGroup)
  /\ UNCHANGED <<graph, pending, head, calls, approved>>

-----------------------------------------------------------------------------
Init ==
  /\ graph \in Start
  /\ pending = NoGroup
  /\ head = 0
  /\ call = [c \in Caller |-> Idle]
  /\ calls = 0
  /\ approved = {p \in Policy : graph.status[p] = "approved"}
  /\ lagged = FALSE

ReadStep(c) == Backfill(c) \/ Read(c) \/ LookForExisting(c) \/ LookAtClaims(c)
               \/ ReadPriorTree(c) \/ ReadRepoint(c)

GuardStep(c) == Guard(c) \/ ReadPosition(c) \/ CheckGovernors(c)

WriteStep(c) == ReadCascade(c) \/ Stamp(c) \/ SubmitGroup(c) \/ After(c)

ApplyStep(c) == ApplyRun(c) \/ ApplyFails(c)

Next ==
  \/ \E c \in Caller : Request(c) \/ ReadStep(c) \/ AuditApplied(c) \/ GuardStep(c) \/ WriteStep(c)
  \/ \E c \in Caller : ApplyStep(c) \/ FindApprovedPrior(c) \/ AuditFailed(c) \/ Outage(c)
  \/ CatchUp
  \/ Crash

Spec == Init /\ [][Next]_vars

-----------------------------------------------------------------------------
(***************************************************************************)
(* Types: a node's status is one of the four, or not there yet.            *)
(***************************************************************************)
TypeOK ==
  /\ graph \in Graph
  /\ pending \in Group \cup {NoGroup}
  /\ head \in Nat /\ calls \in 0..MaxCalls
  /\ call \in [Caller -> Call]
  /\ approved \subseteq Policy
  /\ lagged \in BOOLEAN

(***************************************************************************)
(* "So a Capability never has zero or two governors" (graph_writer.py:423):*)
(* claims and repoints of calls that overlap never give a capability a     *)
(* second governing policy, between the runs of a group included, as long  *)
(* as no call failed to apply the group it logged.                         *)
(***************************************************************************)
GovernedOnce ==
  ~lagged => \A e, f \in graph.governs : e[1] = f[1] => e = f

\* The same with no condition: the guard of the writes alone is to ensure it.
NeverTwoGovernors == \A e, f \in graph.governs : e[1] = f[1] => e = f

\* Governance that is there, or is logged and only has to be applied.
Assured == graph.governs \cup (IF pending = NoGroup THEN {} ELSE pending.caps \X {pending.policy})

(***************************************************************************)
(* Governance is not lost half way.  Between the two runs of a repoint a   *)
(* capability has no governor in FalkorDB; the old edge goes only when the *)
(* new one is assured, to a successor of the old governor whose approval   *)
(* is logged, and what is assured is never dropped, whatever is refused,   *)
(* left half applied, interrupted or interleaved.                          *)
(***************************************************************************)
GovernanceMoves ==
  [][\A e \in Assured \ Assured' :
       \E q \in approved' : Prior[q] = e[2] /\ <<e[1], q>> \in Assured']_vars

(***************************************************************************)
(* A policy is deprecated only once a successor's approval is logged: a    *)
(* call that fails, stops or is overtaken half way never retires a policy  *)
(* with nothing to take its place.                                         *)
(***************************************************************************)
RetiredBehindSuccessor ==
  \A p \in Policy :
    graph.status[p] = "deprecated" => \E q \in approved : Prior[q] = p

(***************************************************************************)
(* A call that ends with its applied row standing has written what the row *)
(* says: the row is recorded first, and every way the write can be refused *)
(* afterwards records a failed row.                                        *)
(***************************************************************************)
AppliedRowsAreTrue ==
  \A c \in Caller : At(c, "idle") /\ call[c].row = "applied" => call[c].wrote
=============================================================================
