------------------------- MODULE PolicyLifecycleProofs -------------------------
(***************************************************************************)
(* Governance of capabilities: one governor while no group was left        *)
(* unapplied, moved only to an approved successor and never lost between   *)
(* the runs of a group; nothing is retired without a successor; an applied *)
(* audit row that stands is true.  For any number of policies,             *)
(* capabilities, actors and overlapping calls.                             *)
(***************************************************************************)
EXTENDS PolicyLifecycle, TLAPS

(***************************************************************************)
(* The inductive invariant.  What one call knows and is about to write:    *)
(* its subject exists in the model; what it claims or takes over and from  *)
(* whom; the group in its hands; its row.                                  *)
(***************************************************************************)
Early == {"backfill", "read", "exists", "claims", "tree", "repoint", "audit"}

Guarding == {"guard", "position", "governors"}

Writing == Guarding \cup {"stamp", "cascade", "submit"}

\* A group takes capabilities from a policy only if it approves that policy's successor.
Sound(w) ==
  w.caps # {} /\ w.from # NoPolicy => w.status = "approved" /\ w.from = Prior[w.policy]

Subjects(k) ==
  /\ k \in Call
  /\ k.pc # "idle" => k.actor \in Actor /\ k.policy \in Policy
  /\ k.pc \in {"backfill", "read"} => k.caps = {} /\ (k.kind = "create" => Fork(k.policy))
  /\ k.pc = "tree" => Fork(k.policy)
  /\ k.pc = "repoint" => k.kind = "approve"

Claims(k) ==
  /\ k.caps = {} => k.from = NoPolicy
  /\ k.caps # {} => \/ k.kind = "create" /\ k.from = NoPolicy
                    \/ k.kind = "approve" /\ k.from = Prior[k.policy]

Holds(k) ==
  /\ k.pc \in Writing => k.write \in Group /\ Sound(k.write) /\ (k.caps = {} => k.write.caps = {})
  /\ k.pc \in Writing /\ (k.pc = "submit" \/ k.kind = "create") /\ k.caps # {} =>
       k.write.caps = k.caps /\ k.write.from = k.from

Follows(k) ==
  /\ k.pc \in Guarding => k.next = "idle"
  /\ k.pc \in {"stamp", "submit", "apply", "after"} => k.next \in {"read", "idle", "prior"}
  /\ k.pc \in {"stamp", "submit", "apply", "after"} /\ k.next = "read" =>
       k.row = "none" /\ k.caps = {} /\ (k.kind = "create" => Fork(k.policy))
  /\ k.pc \in {"stamp", "submit"} /\ k.next = "prior" =>
       k.write.status = "approved" /\ k.write.policy = k.policy

Rows(k) ==
  /\ k.pc \in Early => k.row = "none"
  /\ k.pc \in {"after", "prior", "idle"} /\ k.row = "applied" => k.wrote

\* An approval of a successor of the policy is logged.
Succeeded(p) == \E q \in approved : Prior[q] = p

Backed(k) ==
  /\ k.pc = "prior" \/ (k.pc \in {"apply", "after"} /\ k.next = "prior") => k.policy \in approved
  /\ k.pc # "idle" /\ k.kind = "deprecate" => Succeeded(k.policy)
  /\ k.pc \in Writing /\ k.write.status = "deprecated" => Succeeded(k.write.policy)

GovernanceHolds(k) ==
  IF k.kind = "create" THEN \A x \in k.caps : Governors(x) = {} ELSE Governed(k.from) = k.caps

\* What was read under a position that did not move still holds.
Fresh(k) ==
  /\ k.expected <= head
  /\ k.caps # {} /\ k.expected = head /\ ~lagged
       /\ k.pc \in {"governors", "stamp", "cascade", "submit"} => pending = NoGroup
  /\ k.caps # {} /\ k.expected = head /\ ~lagged /\ k.pc \in {"stamp", "cascade", "submit"} =>
       GovernanceHolds(k)

Good(k) == Subjects(k) /\ Claims(k) /\ Holds(k) /\ Follows(k) /\ Rows(k) /\ Backed(k) /\ Fresh(k)

CallInv == \A c \in Caller : Good(call[c])

(***************************************************************************)
(* The graph and the group it may lack: its approval is logged; while no   *)
(* call failed, the one that logged it holds the lock, and what the group  *)
(* still has to move is governed by the policy it is taken from, or by     *)
(* none.                                                                   *)
(***************************************************************************)
Backs(w) ==
  /\ Sound(w)
  /\ w.status = "approved" => w.policy \in approved
  /\ w.status = "deprecated" => Succeeded(w.policy)

InWay(g, w) ==
  \A e \in g.governs :
    e[1] \in w.caps => e[2] = w.policy \/ (w.from # NoPolicy /\ e[2] = w.from)

PendingInv ==
  pending # NoGroup => /\ pending \in Group /\ Backs(pending)
                       /\ ~lagged => Locked /\ InWay(graph, pending)

StatusInv(g) ==
  \A p \in Policy : /\ g.status[p] = "approved" => p \in approved
                    /\ g.status[p] = "deprecated" => Succeeded(p)

GraphInv == PendingInv /\ StatusInv(graph) /\ GovernedOnce

IInv == TypeOK /\ CallInv /\ GraphInv

-----------------------------------------------------------------------------
(***************************************************************************)
(* Groups and their effect.                                                *)
(***************************************************************************)
LEMMA GroupFields ==
  ASSUME NEW w \in Group
  PROVE  /\ w # NoGroup
         /\ w.policy \in Policy /\ w.status \in Status \cup {"keep"} /\ w.owner \in Actor \cup {NoActor}
         /\ w.items \subseteq Item /\ w.mark \in Status \cup {"unset"}
         /\ w.caps \subseteq Capability /\ w.from \in Policy \cup {NoPolicy} /\ w.edit \in BOOLEAN
BY PolicyAssumption DEF Group, NoGroup

LEMMA PlainTyped ==
  ASSUME NEW p \in Policy
  PROVE  /\ Plain(p) \in Group
         /\ Plain(p).caps = {} /\ Plain(p).status = "keep" /\ Plain(p).policy = p
BY DEF Plain, Group, Status

LEMMA EffectTyped ==
  ASSUME NEW g \in Graph, NEW w \in Group
  PROVE  Effect(g, w) \in Graph
<1>1. Effect(g, w).status \in [Policy -> Status \cup {"none"}]
  BY GroupFields DEF Effect, Graph
<1>2. Effect(g, w).owner \in [Policy -> Actor \cup {NoActor}]
  BY GroupFields DEF Effect, Graph
<1>3. Effect(g, w).item \in [Policy -> [Item -> Status \cup {"none", "unset"}]]
  <2>1. ASSUME NEW p \in Policy, NEW i \in Item
        PROVE  (IF p = w.policy /\ i \in w.items THEN w.mark ELSE g.item[p][i])
                 \in Status \cup {"none", "unset"}
    BY GroupFields DEF Graph
  <2> QED  BY <2>1 DEF Effect
<1>4. Effect(g, w).governs \in SUBSET (Capability \X Policy)
  BY GroupFields DEF Effect, Graph
<1> QED  BY <1>1, <1>2, <1>3, <1>4 DEF Effect, Graph

\* What a group does to the governance.
LEMMA EffectGoverns ==
  ASSUME NEW g \in Graph, NEW w \in Group, NEW e \in Capability \X Policy
  PROVE  /\ e \in Effect(g, w).governs <=>
              \/ e \in g.governs /\ ~(e[1] \in w.caps /\ e[2] = w.from)
              \/ e[1] \in w.caps /\ e[2] = w.policy
         /\ w.caps = {} => Effect(g, w).governs = g.governs
BY GroupFields DEF Effect, Graph

LEMMA EffectStatus ==
  ASSUME NEW g \in Graph, NEW w \in Group, NEW p \in Policy
  PROVE  Effect(g, w).status[p] = IF p = w.policy /\ w.status # "keep" THEN w.status ELSE g.status[p]
BY DEF Effect

LEMMA EffectStatusInv ==
  ASSUME NEW g \in Graph, StatusInv(g), NEW w \in Group,
         w.status = "approved" => w.policy \in approved,
         w.status = "deprecated" => Succeeded(w.policy)
  PROVE  StatusInv(Effect(g, w))
BY EffectStatus DEF StatusInv

(***************************************************************************)
(* The runs of a group.                                                    *)
(***************************************************************************)
LEMMA RunKinds ==
  ASSUME NEW g \in Graph, NEW w \in Group, NEW r \in NextRuns(g, w)
  PROVE  \/ w.from # NoPolicy /\ r = DeleteEdges(g, w)
         \/ w.from = NoPolicy /\ w.caps # {} /\ r = UpsertEdges(g, w)
         \/ w.from = NoPolicy /\ r = WritePolicy(g, w)
         \/ w.from = NoPolicy /\ \E i \in w.items : r = WriteItem(g, w, i)
         \/ w.from = NoPolicy /\ w.caps = {} /\ r = WriteFields(g, w)
BY DEF NextRuns

\* A part of a group: what one run of it writes.
LEMMA PartTyped ==
  ASSUME NEW w \in Group
  PROVE  /\ [Plain(w.policy) EXCEPT !.caps = w.caps] \in Group
         /\ [Plain(w.policy) EXCEPT !.status = w.status, !.owner = w.owner] \in Group
         /\ \A i \in w.items : [Plain(w.policy) EXCEPT !.items = {i}, !.mark = w.mark] \in Group
BY GroupFields DEF Plain, Group, Status

LEMMA RestTyped ==
  ASSUME NEW w \in Group
  PROVE  /\ [w EXCEPT !.from = NoPolicy] \in Group
         /\ [w EXCEPT !.caps = {}] \in Group
         /\ [w EXCEPT !.status = "keep", !.owner = NoActor] \in Group
         /\ \A i \in w.items : [w EXCEPT !.items = @ \ {i}] \in Group
BY DEF Group

\* What is left of a group once one of its runs is marked.
LeftOf(w, l) ==
  l # NoGroup => /\ l \in Group /\ l.policy = w.policy
                 /\ l.status = w.status \/ l.status = "keep"

\* What a run does to the governance: old edges go, or new ones come, or none changes.
Deleting(g, w, h, l) ==
  /\ w.from # NoPolicy /\ h.governs = g.governs \ (w.caps \X {w.from})
  /\ l # NoGroup /\ l.caps = w.caps /\ l.from = NoPolicy

Upserting(g, w, h, l) ==
  /\ w.from = NoPolicy /\ h.governs = g.governs \cup (w.caps \X {w.policy})
  /\ l = NoGroup \/ (l.caps = {} /\ l.from = NoPolicy)

Elsewhere(g, w, h, l) ==
  /\ w.from = NoPolicy /\ h.governs = g.governs
  /\ (l = NoGroup /\ w.caps = {}) \/ (l # NoGroup /\ l.caps = w.caps /\ l.from = NoPolicy)

\* A run that writes a part of the group which moves no old edge.
LEMMA PartRun ==
  ASSUME NEW g \in Graph, NEW w \in Group, StatusInv(g), Backs(w),
         NEW v \in Group, v.policy = w.policy, v.status = w.status \/ v.status = "keep",
         v.from = NoPolicy, NEW h, h = Effect(g, v)
  PROVE  /\ h \in Graph /\ StatusInv(h)
         /\ h.governs = g.governs \cup (v.caps \X {w.policy})
<1>1. h \in Graph  BY EffectTyped
<1>2. StatusInv(h)
  BY EffectStatusInv, GroupFields DEF Backs
<1>3. h.governs = (g.governs \ (v.caps \X {NoPolicy})) \cup (v.caps \X {w.policy})
  BY DEF Effect
<1>4. g.governs \ (v.caps \X {NoPolicy}) = g.governs
  BY PolicyAssumption DEF Graph
<1> QED  BY <1>1, <1>2, <1>3, <1>4

LEMMA LeftKeeps ==
  ASSUME NEW w \in Group, NEW v \in Group, v.policy = w.policy,
         v.status = w.status \/ v.status = "keep", NEW l, l = Left(v)
  PROVE  LeftOf(w, l) /\ (l = NoGroup => v.caps = {}) /\ (l # NoGroup => l = v)
BY GroupFields DEF Left, LeftOf

LEMMA RunFacts ==
  ASSUME NEW g \in Graph, NEW w \in Group, StatusInv(g), Backs(w), NEW r \in NextRuns(g, w)
  PROVE  /\ r.graph \in Graph /\ StatusInv(r.graph) /\ LeftOf(w, r.left)
         /\ \/ Deleting(g, w, r.graph, r.left)
            \/ Upserting(g, w, r.graph, r.left)
            \/ Elsewhere(g, w, r.graph, r.left)
<1>1. /\ w.policy \in Policy /\ w.caps \subseteq Capability /\ w.from \in Policy \cup {NoPolicy}
  BY GroupFields
<1>2. CASE w.from # NoPolicy /\ r = DeleteEdges(g, w)
  <2>1. PICK v : v = [w EXCEPT !.from = NoPolicy]  OBVIOUS
  <2>2. /\ v \in Group /\ v.policy = w.policy /\ v.status = w.status /\ v.caps = w.caps
        /\ v.from = NoPolicy
    BY <2>1, RestTyped DEF Group
  <2>3. r.graph = [g EXCEPT !.governs = g.governs \ (w.caps \X {w.from})] /\ r.left = v
    BY <1>2, <2>1 DEF DeleteEdges
  <2>4. /\ r.graph \in Graph /\ r.graph.status = g.status
        /\ r.graph.governs = g.governs \ (w.caps \X {w.from})
    BY <2>3 DEF Graph
  <2>5. LeftOf(w, r.left) /\ r.left # NoGroup
    BY <2>2, <2>3, GroupFields DEF LeftOf
  <2> QED  BY <1>2, <2>2, <2>3, <2>4, <2>5 DEF StatusInv, Deleting
<1>3. CASE w.from = NoPolicy /\ w.caps # {} /\ r = UpsertEdges(g, w)
  <2>1. PICK v : v = [Plain(w.policy) EXCEPT !.caps = w.caps]  OBVIOUS
  <2>2. PICK u : u = [w EXCEPT !.caps = {}]  OBVIOUS
  <2>3. /\ v \in Group /\ v.policy = w.policy /\ v.status = "keep" /\ v.from = NoPolicy
        /\ v.caps = w.caps
    BY <2>1, PartTyped DEF Plain
  <2>4. /\ u \in Group /\ u.policy = w.policy /\ u.status = w.status /\ u.caps = {}
        /\ u.from = NoPolicy
    <3>1. u \in Group  BY <2>2, RestTyped
    <3> QED  BY <1>3, <2>2, <3>1 DEF Group
  <2>5. r.graph = Effect(g, v) /\ r.left = Left(u)
    BY <1>3, <2>1, <2>2 DEF UpsertEdges
  <2>6. r.graph \in Graph /\ StatusInv(r.graph) /\ r.graph.governs = g.governs \cup (w.caps \X {w.policy})
    BY <2>3, <2>5, PartRun
  <2>7. LeftOf(w, r.left) /\ (r.left # NoGroup => r.left = u)
    BY <2>4, <2>5, LeftKeeps
  <2> QED  BY <1>3, <2>4, <2>6, <2>7 DEF Upserting
<1>4. CASE w.from = NoPolicy /\ r = WritePolicy(g, w)
  <2>1. PICK v : v = [Plain(w.policy) EXCEPT !.status = w.status, !.owner = w.owner]  OBVIOUS
  <2>2. PICK u : u = [w EXCEPT !.status = "keep", !.owner = NoActor]  OBVIOUS
  <2>3. /\ v \in Group /\ v.policy = w.policy /\ v.status = w.status /\ v.from = NoPolicy
        /\ v.caps = {}
    BY <2>1, PartTyped DEF Plain
  <2>4. /\ u \in Group /\ u.policy = w.policy /\ u.status = "keep" /\ u.caps = w.caps
        /\ u.from = NoPolicy
    <3>1. u \in Group  BY <2>2, RestTyped
    <3> QED  BY <1>4, <2>2, <3>1 DEF Group
  <2>5. r.graph = Effect(g, v) /\ r.left = Left(u)
    BY <1>4, <2>1, <2>2 DEF WritePolicy
  <2>6. r.graph \in Graph /\ StatusInv(r.graph) /\ r.graph.governs = g.governs
    <3>1. r.graph \in Graph /\ StatusInv(r.graph) /\ r.graph.governs = g.governs \cup (v.caps \X {w.policy})
      BY <2>3, <2>5, PartRun
    <3> QED  BY <2>3, <3>1
  <2>7. LeftOf(w, r.left) /\ (r.left = NoGroup => w.caps = {}) /\ (r.left # NoGroup => r.left = u)
    BY <2>4, <2>5, LeftKeeps
  <2> QED  BY <1>4, <2>4, <2>6, <2>7 DEF Elsewhere
<1>5. CASE w.from = NoPolicy /\ \E i \in w.items : r = WriteItem(g, w, i)
  <2>1. PICK i \in w.items : r = WriteItem(g, w, i)  BY <1>5
  <2>2. PICK v : v = [Plain(w.policy) EXCEPT !.items = {i}, !.mark = w.mark]  OBVIOUS
  <2>3. PICK u : u = [w EXCEPT !.items = @ \ {i}]  OBVIOUS
  <2>4. /\ v \in Group /\ v.policy = w.policy /\ v.status = "keep" /\ v.from = NoPolicy
        /\ v.caps = {}
    BY <2>2, PartTyped DEF Plain
  <2>5. /\ u \in Group /\ u.policy = w.policy /\ u.status = w.status /\ u.caps = w.caps
        /\ u.from = NoPolicy
    <3>1. u \in Group  BY <2>3, RestTyped
    <3> QED  BY <1>5, <2>3, <3>1 DEF Group
  <2>6. r.graph = Effect(g, v) /\ r.left = Left(u)
    BY <2>1, <2>2, <2>3 DEF WriteItem
  <2>7. r.graph \in Graph /\ StatusInv(r.graph) /\ r.graph.governs = g.governs
    <3>1. r.graph \in Graph /\ StatusInv(r.graph) /\ r.graph.governs = g.governs \cup (v.caps \X {w.policy})
      BY <2>4, <2>6, PartRun
    <3> QED  BY <2>4, <3>1
  <2>8. LeftOf(w, r.left) /\ (r.left = NoGroup => w.caps = {}) /\ (r.left # NoGroup => r.left = u)
    BY <2>5, <2>6, LeftKeeps
  <2> QED  BY <1>5, <2>5, <2>7, <2>8 DEF Elsewhere
<1>6. CASE w.from = NoPolicy /\ w.caps = {} /\ r = WriteFields(g, w)
  BY <1>6 DEF WriteFields, LeftOf, Elsewhere
<1> QED  BY <1>2, <1>3, <1>4, <1>5, <1>6, RunKinds

LEMMA LeftBacks ==
  ASSUME NEW w \in Group, Backs(w), NEW l, l # NoGroup, LeftOf(w, l), l.caps = {} \/ l.from = NoPolicy
  PROVE  Backs(l)
BY DEF Backs, LeftOf, Sound

\* No run gives a capability a second governor, or puts one in the way of the rest.
LEMMA RunGoverned ==
  ASSUME NEW g \in Graph, NEW w \in Group, NEW h \in Graph, NEW l, LeftOf(w, l), InWay(g, w),
         \A e, f \in g.governs : e[1] = f[1] => e = f,
         Deleting(g, w, h, l) \/ Upserting(g, w, h, l) \/ Elsewhere(g, w, h, l)
  PROVE  /\ \A e, f \in h.governs : e[1] = f[1] => e = f
         /\ l # NoGroup => InWay(h, l)
<1>0. \A e \in g.governs : e \in Capability \X Policy /\ e = <<e[1], e[2]>>
  BY DEF Graph
<1>1. CASE Deleting(g, w, h, l)
  <2>1. ASSUME NEW e \in h.governs, e[1] \in w.caps PROVE e[2] = w.policy
    <3>1. e \in g.governs /\ e \notin w.caps \X {w.from}  BY <1>1 DEF Deleting
    <3>2. e = <<e[1], e[2]>>  BY <1>0, <3>1
    <3>3. e[2] # w.from  BY <2>1, <3>1, <3>2
    <3> QED  BY <2>1, <3>1, <3>3 DEF InWay
  <2> QED  BY <1>1, <2>1 DEF Deleting, InWay, LeftOf
<1>2. CASE Upserting(g, w, h, l)
  <2>1. ASSUME NEW e \in h.governs
        PROVE  /\ e = <<e[1], e[2]>>
               /\ IF e[1] \in w.caps THEN e[2] = w.policy ELSE e \in g.governs
    <3>1. CASE e \in g.governs
      BY <1>0, <1>2, <3>1 DEF Upserting, InWay
    <3>2. CASE e \in w.caps \X {w.policy}
      BY <3>2
    <3> QED  BY <1>2, <3>1, <3>2 DEF Upserting
  <2>2. ASSUME NEW e \in h.governs, NEW f \in h.governs, e[1] = f[1] PROVE e = f
    <3>1. CASE e[1] \in w.caps
      BY <2>1, <2>2, <3>1
    <3>2. CASE e[1] \notin w.caps
      BY <2>1, <2>2, <3>2
    <3> QED  BY <3>1, <3>2
  <2>3. l # NoGroup => InWay(h, l)
    BY <1>2 DEF Upserting, InWay
  <2> QED  BY <2>2, <2>3
<1>3. CASE Elsewhere(g, w, h, l)
  BY <1>3 DEF Elsewhere, InWay, LeftOf
<1> QED  BY <1>1, <1>2, <1>3

-----------------------------------------------------------------------------
(***************************************************************************)
(* A step of one call that leaves the log and the graph alone.             *)
(***************************************************************************)
LEMMA LockStays ==
  ASSUME call \in [Caller -> Call], NEW c \in Caller, NEW k, ~At(c, "apply") \/ k.pc = "apply",
         call' = [call EXCEPT ![c] = k], Locked
  PROVE  Locked'
<1>1. PICK d \in Caller : At(d, "apply")  BY DEF Locked
<1>2. CASE d = c
  <2>1. call'[c] = k /\ k.pc = "apply"  BY <1>1, <1>2
  <2> QED  BY <2>1 DEF Locked, At
<1>3. CASE d # c
  <2>1. call'[d] = call[d]  BY <1>3
  <2> QED  BY <1>1, <2>1 DEF Locked, At
<1> QED  BY <1>2, <1>3

LEMMA OneCall ==
  ASSUME IInv, NEW c \in Caller, ~At(c, "apply"), NEW k, Good(k),
         call' = [call EXCEPT ![c] = k], UNCHANGED logVars, calls' \in 0..MaxCalls
  PROVE  IInv'
<1>1. TypeOK'
  BY DEF IInv, TypeOK, Good, Subjects, logVars
<1>2. ASSUME NEW d \in Caller PROVE Good(call[d])'
  <2>1. Good(call'[d])
    BY DEF IInv, CallInv, TypeOK
  <2> QED
    BY <2>1 DEF Good, Subjects, Claims, Holds, Follows, Rows, Backed, Succeeded, Fresh, GovernanceHolds,
      Governors, Governed, logVars
<1>3. Locked => Locked'
  BY LockStays DEF IInv, TypeOK
<1>4. GraphInv'
  BY <1>3 DEF IInv, GraphInv, PendingInv, Backs, Sound, InWay, StatusInv, Succeeded, GovernedOnce, logVars
<1> QED  BY <1>1, <1>2, <1>4 DEF IInv, CallInv

\* A call at hand.
LEMMA CallFields ==
  ASSUME NEW k \in Call
  PROVE  /\ k = [pc |-> k.pc, kind |-> k.kind, actor |-> k.actor, policy |-> k.policy, items |-> k.items,
                 caps |-> k.caps, from |-> k.from, write |-> k.write, next |-> k.next,
                 expected |-> k.expected, row |-> k.row, wrote |-> k.wrote]
         /\ k.pc \in PC /\ k.kind \in Kind /\ k.actor \in Actor \cup {NoActor}
         /\ k.policy \in Policy \cup {NoPolicy} /\ k.items \subseteq Item /\ k.caps \subseteq Capability
         /\ k.from \in Policy \cup {NoPolicy} /\ k.write \in Group \cup {NoGroup} /\ k.next \in PC
         /\ k.expected \in Nat /\ k.row \in Row /\ k.wrote \in BOOLEAN
BY DEF Call

\* The end of a call.
Ended(row, wrote) == [Idle EXCEPT !.row = row, !.wrote = wrote]

LEMMA RestGood ==
  ASSUME head \in Nat, NEW k \in Call, k.pc = "idle", k.kind = "none", k.caps = {}, k.from = NoPolicy,
         k.expected = 0, k.row = "applied" => k.wrote
  PROVE  Good(k)
BY DEF Good, Subjects, Claims, Holds, Follows, Rows, Backed, Fresh, Writing, Guarding, Early

LEMMA EndedGood ==
  ASSUME IInv, NEW row \in Row, NEW wrote \in BOOLEAN, row = "applied" => wrote
  PROVE  Good(Ended(row, wrote))
<1>1. PICK k : k = Ended(row, wrote)
  OBVIOUS
<1>2. /\ k.pc = "idle" /\ k.kind = "none" /\ k.caps = {} /\ k.from = NoPolicy
      /\ k.expected = 0 /\ k.row = row /\ k.wrote = wrote
  BY <1>1 DEF Ended, Idle
<1>3. k \in Call
  BY <1>1 DEF Ended, Idle, Call, PC, Kind
<1>4. head \in Nat  BY DEF IInv, TypeOK
<1> QED  BY <1>1, <1>2, <1>3, <1>4, RestGood

LEMMA EndYields ==
  ASSUME IInv, NEW c \in Caller, End(c), call[c].row = "applied" => call[c].wrote
  PROVE  \E k : Good(k) /\ k.pc = "idle" /\ call' = [call EXCEPT ![c] = k]
<1>1. call[c] \in Call  BY DEF IInv, TypeOK
<1>2. call' = [call EXCEPT ![c] = Ended(call[c].row, call[c].wrote)]
  BY DEF End, Ended
<1>3. Good(Ended(call[c].row, call[c].wrote))
  BY <1>1, CallFields, EndedGood
<1>4. Ended(call[c].row, call[c].wrote).pc = "idle"
  BY DEF Ended, Idle
<1> QED  BY <1>2, <1>3, <1>4

\* The next step of the call: only its place changes.
LEMMA Moved ==
  ASSUME NEW k \in Call, NEW pc \in PC
  PROVE  LET m == [k EXCEPT !.pc = pc]
         IN  /\ m \in Call /\ m.pc = pc /\ m.kind = k.kind /\ m.actor = k.actor /\ m.policy = k.policy
             /\ m.items = k.items /\ m.caps = k.caps /\ m.from = k.from /\ m.write = k.write
             /\ m.next = k.next /\ m.expected = k.expected /\ m.row = k.row /\ m.wrote = k.wrote
BY DEF Call

\* A place where a call knows nothing but its subject.
LEMMA FailedGood ==
  ASSUME IInv, NEW c \in Caller, ~At(c, "idle")
  PROVE  Good([call[c] EXCEPT !.pc = "failed"])
<1>1. PICK k : k = [call[c] EXCEPT !.pc = "failed"]
  OBVIOUS
<1>2. call[c] \in Call /\ Good(call[c])  BY DEF IInv, TypeOK, CallInv
<1>3. "failed" \in PC  BY DEF PC
<1>4. /\ k \in Call /\ k.pc = "failed" /\ k.kind = call[c].kind /\ k.actor = call[c].actor
      /\ k.policy = call[c].policy /\ k.caps = call[c].caps /\ k.from = call[c].from
      /\ k.expected = call[c].expected
  BY <1>1, <1>2, <1>3, Moved
<1>5. Good(k)
  BY <1>2, <1>4 DEF At, Good, Subjects, Claims, Holds, Follows, Rows, Backed, Fresh, Writing, Guarding, Early
<1> QED  BY <1>1, <1>5

LEMMA RaiseYields ==
  ASSUME IInv, NEW c \in Caller, ~At(c, "idle"), Raise(c)
  PROVE  \E k : Good(k) /\ k.pc \in {"idle", "failed"} /\ call' = [call EXCEPT ![c] = k]
<1>1. call[c] \in Call /\ Good(call[c])  BY DEF IInv, TypeOK, CallInv
<1>2. CASE call[c].row = "applied" /\ ~At(c, "prior")
  <2>1. call' = [call EXCEPT ![c] = [call[c] EXCEPT !.pc = "failed"]]
    BY <1>2 DEF Raise, Goto
  <2>2. [call[c] EXCEPT !.pc = "failed"].pc = "failed"
    BY <1>1, Moved DEF PC
  <2> QED  BY <2>1, <2>2, FailedGood
<1>3. CASE ~(call[c].row = "applied" /\ ~At(c, "prior"))
  <2>1. End(c)  BY <1>3 DEF Raise
  <2>2. call[c].row = "applied" => call[c].wrote
    BY <1>1, <1>3 DEF Good, Rows, At
  <2> QED  BY <2>1, <2>2, EndYields
<1> QED  BY <1>2, <1>3

LEMMA EndKeeps ==
  ASSUME IInv, NEW c \in Caller, ~At(c, "apply"), End(c), call[c].row = "applied" => call[c].wrote,
         UNCHANGED gatewayVars
  PROVE  IInv'
<1>1. PICK k : Good(k) /\ call' = [call EXCEPT ![c] = k]
  BY EndYields
<1>2. calls' \in 0..MaxCalls /\ UNCHANGED logVars  BY DEF IInv, TypeOK, gatewayVars
<1> QED  BY <1>1, <1>2, OneCall

LEMMA RaiseKeeps ==
  ASSUME IInv, NEW c \in Caller, ~At(c, "idle"), ~At(c, "apply"), Raise(c), UNCHANGED gatewayVars
  PROVE  IInv'
<1>1. PICK k : Good(k) /\ call' = [call EXCEPT ![c] = k]
  BY RaiseYields
<1>2. calls' \in 0..MaxCalls /\ UNCHANGED logVars  BY DEF IInv, TypeOK, gatewayVars
<1> QED  BY <1>1, <1>2, OneCall

-----------------------------------------------------------------------------
(***************************************************************************)
(* Requests, and what is read before the decision.                         *)
(***************************************************************************)
LEMMA BeginKeeps ==
  ASSUME IInv, NEW c \in Caller, NEW kind \in Kind, NEW a \in Actor, NEW p \in Policy,
         NEW items \in SUBSET Item, NEW caps \in SUBSET Capability,
         kind # "deprecate", caps # {} => kind = "create" /\ ~Fork(p),
         Begin(c, kind, a, p, items, caps)
  PROVE  IInv'
<1>1. PICK k : k = [Idle EXCEPT !.pc = IF kind = "create" /\ ~Fork(p) THEN "exists" ELSE "backfill",
                      !.kind = kind, !.actor = a, !.policy = p, !.items = items, !.caps = caps]
  OBVIOUS
<1>2. /\ k.pc = IF kind = "create" /\ ~Fork(p) THEN "exists" ELSE "backfill"
      /\ k.kind = kind /\ k.actor = a /\ k.policy = p /\ k.caps = caps /\ k.from = NoPolicy
      /\ k.next = "idle" /\ k.expected = 0 /\ k.row = "none" /\ k.wrote = FALSE
  BY <1>1 DEF Idle
<1>3. k \in Call
  BY <1>1 DEF Idle, Call, PC, Row
<1>4. head \in Nat  BY DEF IInv, TypeOK
<1>5. Good(k)
  <2>1. k.pc \in {"exists", "backfill"} /\ (k.pc = "backfill" => ~(kind = "create" /\ ~Fork(p)))
    BY <1>2
  <2>2. Subjects(k) /\ Claims(k)
    BY <1>2, <1>3, <2>1 DEF Subjects, Claims
  <2>3. Holds(k) /\ Follows(k) /\ Rows(k) /\ Backed(k) /\ Fresh(k)
    BY <1>2, <1>4, <2>1 DEF Holds, Follows, Rows, Backed, Fresh, Writing, Guarding
  <2> QED  BY <2>2, <2>3 DEF Good
<1>6. call' = [call EXCEPT ![c] = k] /\ UNCHANGED logVars
  BY <1>1 DEF Begin
<1>7. calls' \in 0..MaxCalls
  BY PolicyAssumption DEF Begin, IInv, TypeOK
<1> QED  BY <1>5, <1>6, <1>7, OneCall DEF Begin, At

LEMMA RequestKeeps ==
  ASSUME IInv, NEW c \in Caller, Request(c)
  PROVE  IInv'
<1>1. PICK a \in Actor, p \in Policy :
        \/ \E kind \in {"propose", "approve", "reject", "revert", "edit"} : Begin(c, kind, a, p, {}, {})
        \/ \E kind \in {"add", "edit item"}, i \in Item : Begin(c, kind, a, p, {i}, {})
        \/ /\ ~Fork(p)
           /\ \E items \in SUBSET Item, caps \in SUBSET Capability :
                WholeTree(items) /\ Begin(c, "create", a, p, items, caps)
        \/ Fork(p) /\ Begin(c, "create", a, p, {}, {})
  BY DEF Request
<1>2. CASE \E kind \in {"propose", "approve", "reject", "revert", "edit"} : Begin(c, kind, a, p, {}, {})
  <2>1. PICK kind \in {"propose", "approve", "reject", "revert", "edit"} : Begin(c, kind, a, p, {}, {})
    BY <1>2
  <2>2. kind \in Kind /\ kind # "deprecate" /\ {} \in SUBSET Item /\ {} \in SUBSET Capability
    BY DEF Kind
  <2> QED  BY <2>1, <2>2, BeginKeeps
<1>3. CASE \E kind \in {"add", "edit item"}, i \in Item : Begin(c, kind, a, p, {i}, {})
  <2>1. PICK kind \in {"add", "edit item"}, i \in Item : Begin(c, kind, a, p, {i}, {})
    BY <1>3
  <2>2. kind \in Kind /\ kind # "deprecate" /\ {i} \in SUBSET Item /\ {} \in SUBSET Capability
    BY DEF Kind
  <2> QED  BY <2>1, <2>2, BeginKeeps
<1>4. CASE /\ ~Fork(p)
           /\ \E items \in SUBSET Item, caps \in SUBSET Capability :
                WholeTree(items) /\ Begin(c, "create", a, p, items, caps)
  <2>1. "create" \in Kind /\ "create" # "deprecate"  BY DEF Kind
  <2> QED  BY <1>4, <2>1, BeginKeeps
<1>5. CASE Fork(p) /\ Begin(c, "create", a, p, {}, {})
  <2>1. "create" \in Kind /\ "create" # "deprecate" /\ {} \in SUBSET Item /\ {} \in SUBSET Capability
    BY DEF Kind
  <2> QED  BY <1>5, <2>1, BeginKeeps
<1> QED  BY <1>1, <1>2, <1>3, <1>4, <1>5

\* What a step leaves of a call.
SameCall(k, j) ==
  /\ k.kind = j.kind /\ k.actor = j.actor /\ k.policy = j.policy /\ k.caps = j.caps
  /\ k.from = j.from /\ k.expected = j.expected /\ k.row = j.row /\ k.wrote = j.wrote

\* A call that has decided on a group.
LEMMA WriteYields ==
  ASSUME IInv, NEW c \in Caller, NEW w \in Group, NEW pc \in PC, NEW next \in PC,
         Write(c, w, pc, next)
  PROVE  \E k \in Call :
           /\ call' = [call EXCEPT ![c] = k]
           /\ k.pc = pc /\ k.write = w /\ k.next = next
           /\ SameCall(k, call[c])
<1>1. call[c] \in Call  BY DEF IInv, TypeOK
<1>2. PICK k : k = [call[c] EXCEPT !.write = w, !.pc = pc, !.next = next]
  OBVIOUS
<1>3. /\ k \in Call /\ k.pc = pc /\ k.write = w /\ k.next = next
      /\ SameCall(k, call[c])
  BY <1>1, <1>2 DEF Call, SameCall
<1>4. call' = [call EXCEPT ![c] = k]
  BY <1>2 DEF Write
<1> QED  BY <1>3, <1>4

\* A call that goes on to another place.
LEMMA GotoYields ==
  ASSUME IInv, NEW c \in Caller, NEW pc \in PC \ {"idle"}, Goto(c, pc)
  PROVE  \E k \in Call :
           /\ call' = [call EXCEPT ![c] = k]
           /\ k.pc = pc /\ k.write = call[c].write /\ k.next = call[c].next
           /\ SameCall(k, call[c])
<1>1. call[c] \in Call  BY DEF IInv, TypeOK
<1>2. PICK k : k = [call[c] EXCEPT !.pc = pc]
  OBVIOUS
<1>3. /\ k \in Call /\ k.pc = pc /\ k.write = call[c].write /\ k.next = call[c].next
      /\ SameCall(k, call[c])
  BY <1>1, <1>2, Moved DEF SameCall
<1>4. call' = [call EXCEPT ![c] = k]
  BY <1>2 DEF Goto
<1> QED  BY <1>3, <1>4

LEMMA CallKeeps ==
  ASSUME IInv, NEW c \in Caller, ~At(c, "apply"), NEW k, Good(k), call' = [call EXCEPT ![c] = k], UNCHANGED gatewayVars
  PROVE  IInv'
<1>1. calls' \in 0..MaxCalls /\ UNCHANGED logVars  BY DEF IInv, TypeOK, gatewayVars
<1> QED  BY <1>1, OneCall

\* What is known of a call, and of the graph it reads.
LEMMA Known ==
  ASSUME IInv, NEW c \in Caller
  PROVE  /\ call[c] \in Call /\ Good(call[c]) /\ head \in Nat /\ graph \in Graph
         /\ call[c].pc # "idle" => call[c].policy \in Policy /\ call[c].actor \in Actor
BY DEF IInv, TypeOK, CallInv, Good, Subjects

LEMMA GotoEarly ==
  ASSUME IInv, NEW c \in Caller, call[c].pc \in Early, UNCHANGED gatewayVars,
         NEW pc \in Early, Goto(c, pc), pc # "backfill",
         pc = "read" => call[c].pc = "backfill", pc = "tree" => Fork(call[c].policy),
         pc = "repoint" => call[c].kind = "approve"
  PROVE  IInv'
<1>1. pc \in PC \ {"idle"}  BY DEF Early, PC
<1>2. PICK k \in Call :
        /\ call' = [call EXCEPT ![c] = k]
        /\ k.pc = pc /\ k.write = call[c].write /\ k.next = call[c].next
        /\ SameCall(k, call[c])
  BY <1>1, GotoYields
<1>3. Good(call[c])  BY Known
<1>4. Good(k)
  BY <1>2, <1>3 DEF SameCall, Good, Subjects, Claims, Holds, Follows, Rows, Backed, Fresh,
    Writing, Guarding, Early
<1> QED  BY <1>2, <1>4, CallKeeps DEF At, Early

LEMMA EndEarly ==
  ASSUME IInv, NEW c \in Caller, call[c].pc \in Early, End(c), UNCHANGED gatewayVars
  PROVE  IInv'
<1>1. call[c].row # "applied"  BY Known DEF Good, Rows
<1> QED  BY <1>1, EndKeeps DEF At, Early

LEMMA BackfillKeeps ==
  ASSUME IInv, NEW c \in Caller, Backfill(c)
  PROVE  IInv'
<1> DEFINE p == Subject(c)
           unset == {i \in Item : graph.item[p][i] = "unset"}
           w == [Plain(p) EXCEPT !.items = unset, !.mark = graph.status[p]]
<1>1. At(c, "backfill") /\ UNCHANGED gatewayVars /\ Good(call[c])
  BY Known DEF Backfill
<1>2. p \in Policy
  BY <1>1, Known, PolicyAssumption DEF Subject, Good, Subjects, Fork, At
<1>3. CASE Exists(p) /\ unset # {}
  <2>1. graph.status[p] \in Status
    BY <1>2, <1>3, Known DEF Exists, Graph
  <2>2. w \in Group /\ w.caps = {} /\ w.status = "keep"
    BY <1>2, <2>1 DEF Plain, Group, Status
  <2>3. Write(c, w, "stamp", "read")
    BY <1>3 DEF Backfill
  <2> HIDE DEF w
  <2>4. "stamp" \in PC /\ "read" \in PC  BY DEF PC
  <2>5. PICK k \in Call :
          /\ call' = [call EXCEPT ![c] = k]
          /\ k.pc = "stamp" /\ k.write = w /\ k.next = "read"
          /\ SameCall(k, call[c])
    BY <2>2, <2>3, <2>4, WriteYields
  <2>6. Good(k)
    BY <1>1, <2>2, <2>5 DEF SameCall, At, Good, Subjects, Claims, Holds, Sound, Follows, Rows, Backed, Fresh,
      Writing, Guarding, Early
  <2> QED  BY <1>1, <2>5, <2>6, CallKeeps DEF At
<1>4. CASE ~(Exists(p) /\ unset # {})
  <2>1. Goto(c, "read")
    BY <1>4 DEF Backfill
  <2> QED  BY <1>1, <2>1, GotoEarly DEF At, Early
<1> QED  BY <1>3, <1>4

LEMMA EditTyped ==
  ASSUME IInv, NEW c \in Caller, call[c].pc # "idle"
  PROVE  EditGroup(c) \in Group /\ EditGroup(c).caps = {} /\ EditGroup(c).status = "keep"
<1>1. call[c].policy \in Policy /\ call[c] \in Call  BY Known
<1>2. call[c].items \subseteq Item  BY <1>1, CallFields
<1> QED  BY <1>1, <1>2 DEF EditGroup, Plain, Group, Status

LEMMA ReadKeeps ==
  ASSUME IInv, NEW c \in Caller, Read(c)
  PROVE  IInv'
<1>1. At(c, "read") /\ UNCHANGED gatewayVars /\ Good(call[c]) /\ call[c].pc \in Early
  BY Known DEF Read, At, Early
<1>2. CASE ~Allowed(c) /\ End(c)
  BY <1>1, <1>2, EndEarly
<1>3. CASE Goto(c, "exists") \/ (Goto(c, "repoint") /\ call[c].kind = "approve") \/ Goto(c, "audit")
  <2>1. {"exists", "repoint", "audit"} \subseteq Early  BY DEF Early
  <2> QED  BY <1>1, <1>3, <2>1, GotoEarly
<1>4. CASE Write(c, EditGroup(c), "stamp", "idle")
  <2>1. EditGroup(c) \in Group /\ EditGroup(c).caps = {} /\ EditGroup(c).status = "keep"
    BY <1>1, EditTyped DEF At
  <2>2. "stamp" \in PC /\ "idle" \in PC  BY DEF PC
  <2>3. PICK k \in Call :
          /\ call' = [call EXCEPT ![c] = k]
          /\ k.pc = "stamp" /\ k.write = EditGroup(c) /\ k.next = "idle"
          /\ SameCall(k, call[c])
    BY <1>4, <2>1, <2>2, WriteYields
  <2>4. Good(k)
    BY <1>1, <2>1, <2>3 DEF SameCall, At, Good, Subjects, Claims, Holds, Sound, Follows, Rows, Backed, Fresh,
      Writing, Guarding, Early
  <2> QED  BY <1>1, <2>3, <2>4, CallKeeps DEF At
<1> QED  BY <1>2, <1>3, <1>4 DEF Read

LEMMA LookForExistingKeeps ==
  ASSUME IInv, NEW c \in Caller, LookForExisting(c)
  PROVE  IInv'
<1>1. UNCHANGED gatewayVars /\ call[c].pc \in Early
  BY DEF LookForExisting, At, Early
<1>2. CASE End(c)
  BY <1>1, <1>2, EndEarly
<1>3. CASE Goto(c, "tree") /\ Fork(call[c].policy)
  <2>1. "tree" \in Early  BY DEF Early
  <2> QED  BY <1>1, <1>3, <2>1, GotoEarly
<1>4. CASE Goto(c, "claims")
  <2>1. "claims" \in Early  BY DEF Early
  <2> QED  BY <1>1, <1>4, <2>1, GotoEarly
<1> QED  BY <1>2, <1>3, <1>4 DEF LookForExisting

LEMMA LookAtClaimsKeeps ==
  ASSUME IInv, NEW c \in Caller, LookAtClaims(c)
  PROVE  IInv'
<1>1. UNCHANGED gatewayVars /\ call[c].pc \in Early /\ "audit" \in Early
  BY DEF LookAtClaims, At, Early
<1> QED  BY <1>1, EndEarly, GotoEarly DEF LookAtClaims

LEMMA ReadPriorTreeKeeps ==
  ASSUME IInv, NEW c \in Caller, ReadPriorTree(c)
  PROVE  IInv'
<1>1. At(c, "tree") /\ UNCHANGED gatewayVars /\ Good(call[c]) /\ call[c] \in Call
  BY Known DEF ReadPriorTree
<1>2. PICK k : k = [call[c] EXCEPT !.pc = "audit", !.items = Tree(Prior[call[c].policy])]
  OBVIOUS
<1>3. /\ k \in Call /\ k.pc = "audit" /\ SameCall(k, call[c])
  BY <1>1, <1>2 DEF Call, SameCall, Tree, PC
<1>4. Good(k)
  BY <1>1, <1>3 DEF SameCall, At, Good, Subjects, Claims, Holds, Follows, Rows, Backed, Fresh,
    Writing, Guarding, Early
<1>5. call' = [call EXCEPT ![c] = k]
  BY <1>2 DEF ReadPriorTree
<1> QED  BY <1>1, <1>4, <1>5, CallKeeps DEF At

LEMMA ReadRepointKeeps ==
  ASSUME IInv, NEW c \in Caller, ReadRepoint(c)
  PROVE  IInv'
<1> DEFINE p == call[c].policy
           caps == IF Fork(p) THEN Governed(Prior[p]) ELSE {}
           from == IF caps = {} THEN NoPolicy ELSE Prior[p]
<1>1. At(c, "repoint") /\ UNCHANGED gatewayVars /\ Good(call[c]) /\ call[c] \in Call /\ p \in Policy
  BY Known DEF ReadRepoint, At
<1>2. PICK k : k = [call[c] EXCEPT !.pc = "audit", !.caps = caps, !.from = from]
  OBVIOUS
<1>3. caps \subseteq Capability /\ from \in Policy \cup {NoPolicy}
  BY <1>1, PolicyAssumption DEF Governed
<1> HIDE DEF caps
<1>4. /\ k \in Call /\ k.pc = "audit" /\ k.caps = caps /\ k.from = from
      /\ k.kind = call[c].kind /\ k.actor = call[c].actor /\ k.policy = call[c].policy
      /\ k.expected = call[c].expected /\ k.row = call[c].row
  BY <1>1, <1>2, <1>3 DEF Call, PC
<1>5. Good(k)
  BY <1>1, <1>4 DEF SameCall, At, Good, Subjects, Claims, Holds, Follows, Rows, Backed, Fresh,
    Writing, Guarding, Early
<1>6. call' = [call EXCEPT ![c] = k]
  BY <1>2 DEF ReadRepoint, caps
<1> QED  BY <1>1, <1>5, <1>6, CallKeeps DEF At

-----------------------------------------------------------------------------
(***************************************************************************)
(* The applied row, the guard and the group.                               *)
(***************************************************************************)
LEMMA CreateTyped ==
  ASSUME IInv, NEW c \in Caller, call[c].pc # "idle"
  PROVE  LET w == CreateGroup(c)
         IN  w \in Group /\ w.caps = call[c].caps /\ w.from = NoPolicy /\ w.status = "draft"
<1>1. call[c].policy \in Policy /\ call[c].actor \in Actor /\ call[c] \in Call  BY Known
<1>2. call[c].items \subseteq Item /\ call[c].caps \subseteq Capability  BY <1>1, CallFields
<1> QED  BY <1>1, <1>2 DEF CreateGroup, Plain, Group, Status

LEMMA AuditAppliedKeeps ==
  ASSUME IInv, NEW c \in Caller, AuditApplied(c)
  PROVE  IInv'
<1>1. At(c, "audit") /\ UNCHANGED gatewayVars /\ Good(call[c]) /\ call[c] \in Call
  BY Known DEF AuditApplied
<1>2. CASE End(c)
  BY <1>1, <1>2, EndEarly DEF At, Early
<1>3. CASE ~End(c)
  <2>1. PICK w : w = CreateGroup(c)
    OBVIOUS
  <2>2. w \in Group /\ w.caps = call[c].caps /\ w.from = NoPolicy /\ w.status = "draft"
    BY <1>1, <2>1, CreateTyped DEF At
  <2>3. PICK pc : pc = IF Guarded(c) THEN "guard"
                        ELSE IF call[c].kind = "create" THEN "stamp" ELSE "cascade"
    OBVIOUS
  <2>4. pc \in {"guard", "stamp", "cascade"} /\ (call[c].caps # {} => pc = "guard")
        /\ (call[c].kind = "create" => pc # "cascade")
    BY <2>3 DEF Guarded
  <2>5. PICK k : k = [call[c] EXCEPT !.row = "applied", !.wrote = FALSE, !.pc = pc, !.write = w, !.next = "idle"]
    OBVIOUS
  <2>6. call' = [call EXCEPT ![c] = k]
    BY <1>3, <2>1, <2>3, <2>5 DEF AuditApplied
  <2>7. /\ k \in Call /\ k.pc = pc /\ k.row = "applied" /\ k.write = w /\ k.next = "idle"
        /\ k.kind = call[c].kind /\ k.actor = call[c].actor /\ k.policy = call[c].policy
        /\ k.caps = call[c].caps /\ k.from = call[c].from /\ k.expected = call[c].expected
    <3>1. pc \in PC /\ "idle" \in PC /\ "applied" \in Row
      BY <2>4 DEF PC, Row
    <3>2. /\ k.pc = pc /\ k.row = "applied" /\ k.write = w /\ k.next = "idle"
          /\ k.kind = call[c].kind /\ k.actor = call[c].actor /\ k.policy = call[c].policy
          /\ k.caps = call[c].caps /\ k.from = call[c].from /\ k.expected = call[c].expected
      BY <1>1, <2>5 DEF Call
    <3>3. k \in Call
      BY <1>1, <2>2, <2>5, <3>1 DEF Call
    <3> QED  BY <3>2, <3>3
  <2>8. Subjects(k) /\ Claims(k) /\ Follows(k) /\ Rows(k)
    BY <1>1, <2>4, <2>7 DEF At, Good, Subjects, Claims, Follows, Rows, Guarding, Early
  <2>9. Holds(k)
    BY <1>1, <2>2, <2>4, <2>7 DEF At, Good, Claims, Holds, Sound
  <2>10. Backed(k) /\ Fresh(k)
    BY <1>1, <2>2, <2>4, <2>7 DEF At, Good, Backed, Fresh, GovernanceHolds
  <2> QED  BY <1>1, <2>6, <2>8, <2>9, <2>10, CallKeeps DEF Good, At
<1> QED  BY <1>2, <1>3

LEMMA GuardKeeps ==
  ASSUME IInv, NEW c \in Caller, Guard(c)
  PROVE  IInv'
<1>1. At(c, "guard") /\ UNCHANGED gatewayVars /\ Good(call[c])
  BY Known DEF Guard
<1>2. CASE Raise(c)
  BY <1>1, <1>2, RaiseKeeps DEF At
<1>3. CASE Goto(c, "position")
  <2>1. "position" \in PC \ {"idle"}  BY DEF PC
  <2>2. PICK k \in Call :
          /\ call' = [call EXCEPT ![c] = k]
          /\ k.pc = "position" /\ k.write = call[c].write /\ k.next = call[c].next
          /\ SameCall(k, call[c])
    BY <1>3, <2>1, GotoYields
  <2>3. Good(k)
    BY <1>1, <2>2 DEF SameCall, At, Good, Subjects, Claims, Holds, Follows, Rows, Backed, Fresh,
      Writing, Guarding, Early
  <2> QED  BY <1>1, <2>2, <2>3, CallKeeps DEF At
<1> QED  BY <1>2, <1>3 DEF Guard

LEMMA ReadPositionKeeps ==
  ASSUME IInv, NEW c \in Caller, ReadPosition(c)
  PROVE  IInv'
<1>1. At(c, "position") /\ UNCHANGED gatewayVars /\ Good(call[c]) /\ call[c] \in Call /\ head \in Nat
  BY Known DEF ReadPosition
<1>2. PICK k : k = [call[c] EXCEPT !.pc = "governors", !.expected = head]
  OBVIOUS
<1>3. /\ k \in Call /\ k.pc = "governors" /\ k.write = call[c].write /\ k.next = call[c].next
      /\ k.kind = call[c].kind /\ k.actor = call[c].actor /\ k.policy = call[c].policy
      /\ k.caps = call[c].caps /\ k.from = call[c].from /\ k.expected = head /\ k.row = call[c].row
  BY <1>1, <1>2 DEF Call, PC
<1>4. Good(k)
  <2>1. ~lagged => pending = NoGroup
    BY DEF ReadPosition, IInv, GraphInv, PendingInv
  <2> QED  BY <1>1, <1>3, <2>1 DEF At, Good, Subjects, Claims, Holds, Follows, Rows, Backed, Fresh,
             Writing, Guarding, Early
<1>5. call' = [call EXCEPT ![c] = k]
  BY <1>2 DEF ReadPosition
<1> QED  BY <1>1, <1>4, <1>5, CallKeeps DEF At

\* What the governance was when a guarded call looked, from here on at this position.
LEMMA CheckGovernorsKeeps ==
  ASSUME IInv, NEW c \in Caller, CheckGovernors(c)
  PROVE  IInv'
<1>1. At(c, "governors") /\ UNCHANGED gatewayVars /\ Good(call[c])
  BY Known DEF CheckGovernors
<1>2. CASE ~StillGoverned(c)
  BY <1>1, <1>2, RaiseKeeps DEF At, CheckGovernors
<1>3. CASE StillGoverned(c)
  <2>1. "stamp" \in PC \ {"idle"} /\ Goto(c, "stamp")  BY <1>3 DEF PC, CheckGovernors
  <2>2. PICK k \in Call :
          /\ call' = [call EXCEPT ![c] = k]
          /\ k.pc = "stamp" /\ k.write = call[c].write /\ k.next = call[c].next
          /\ SameCall(k, call[c])
    BY <2>1, GotoYields
  <2>3. GovernanceHolds(k)
    BY <1>3, <2>2 DEF StillGoverned, Ungoverned, GovernanceHolds, SameCall
  <2>4. Good(k)
    BY <1>1, <2>2, <2>3 DEF SameCall, At, Good, Subjects, Claims, Holds, Follows, Rows, Backed, Fresh,
      Writing, Guarding, Early
  <2> QED  BY <1>1, <2>2, <2>4, CallKeeps DEF At
<1> QED  BY <1>2, <1>3

LEMMA CascadeTyped ==
  ASSUME IInv, NEW c \in Caller, call[c].pc # "idle"
  PROVE  LET w == CascadeGroup(c)
         IN  /\ w \in Group /\ w.policy = call[c].policy /\ w.status = Target(call[c].kind)
             /\ w.caps = call[c].caps /\ w.from = call[c].from
<1>1. call[c].policy \in Policy /\ call[c] \in Call  BY Known
<1>2. call[c].caps \subseteq Capability /\ call[c].from \in Policy \cup {NoPolicy}  BY <1>1, CallFields
<1>3. Target(call[c].kind) \in Status  BY DEF Target, Status
<1>4. Tree(call[c].policy) \subseteq Item  BY DEF Tree
<1> QED  BY <1>1, <1>2, <1>3, <1>4 DEF CascadeGroup, Plain, Group

LEMMA ReadCascadeKeeps ==
  ASSUME IInv, NEW c \in Caller, ReadCascade(c)
  PROVE  IInv'
<1> DEFINE pc == IF Guarded(c) THEN "submit" ELSE "stamp"
           next == IF call[c].kind = "approve" THEN "prior" ELSE "idle"
<1>1. At(c, "cascade") /\ UNCHANGED gatewayVars /\ Good(call[c]) /\ call[c] \in Call
  BY Known DEF ReadCascade
<1>2. PICK w : w = CascadeGroup(c)
  OBVIOUS
<1>3. /\ w \in Group /\ w.policy = call[c].policy /\ w.status = Target(call[c].kind)
      /\ w.caps = call[c].caps /\ w.from = call[c].from
  BY <1>1, <1>2, CascadeTyped DEF At
<1>4. /\ pc \in PC /\ next \in PC /\ pc \in {"submit", "stamp"} /\ next \in {"prior", "idle"}
      /\ pc = "stamp" <=> call[c].caps = {}
      /\ next = "prior" => w.status = "approved"
      /\ w.status = "deprecated" => call[c].kind = "deprecate"
      /\ call[c].kind = "approve" => w.status = "approved"
  BY <1>3 DEF Guarded, PC, Target
<1>5. Write(c, w, pc, next)
  BY <1>2 DEF ReadCascade
<1> HIDE DEF pc, next
<1>6. PICK k \in Call :
        /\ call' = [call EXCEPT ![c] = k]
        /\ k.pc = pc /\ k.write = w /\ k.next = next
        /\ SameCall(k, call[c])
  BY <1>3, <1>4, <1>5, WriteYields
<1>7. Subjects(k) /\ Claims(k) /\ Follows(k) /\ Rows(k)
  BY <1>1, <1>3, <1>4, <1>6 DEF SameCall, At, Good, Subjects, Claims, Follows, Rows, Guarding, Early
<1>8. Holds(k)
  BY <1>1, <1>3, <1>4, <1>6 DEF SameCall, At, Good, Claims, Holds, Sound
<1>9. Backed(k)
  BY <1>1, <1>3, <1>4, <1>6 DEF SameCall, At, Good, Backed
<1>10. Fresh(k)
  BY <1>1, <1>4, <1>6 DEF SameCall, At, Good, Fresh, GovernanceHolds
<1> QED  BY <1>1, <1>6, <1>7, <1>8, <1>9, <1>10, CallKeeps DEF Good, At

LEMMA StampKeeps ==
  ASSUME IInv, NEW c \in Caller, Stamp(c)
  PROVE  IInv'
<1> DEFINE pc == IF Guarded(c) /\ call[c].kind = "approve" THEN "cascade" ELSE "submit"
<1>1. At(c, "stamp") /\ UNCHANGED gatewayVars /\ Good(call[c])
  BY Known DEF Stamp
<1>2. CASE pending # NoGroup
  BY <1>1, <1>2, RaiseKeeps DEF At, Stamp
<1>3. CASE pending = NoGroup
  <2>1. pc \in PC \ {"idle"} /\ Goto(c, pc)  BY <1>3 DEF PC, Stamp
  <2>2. pc \in {"cascade", "submit"} /\ (pc = "cascade" <=> call[c].caps # {} /\ call[c].kind = "approve")
    BY DEF Guarded
  <2> HIDE DEF pc
  <2>3. PICK k \in Call :
          /\ call' = [call EXCEPT ![c] = k]
          /\ k.pc = pc /\ k.write = call[c].write /\ k.next = call[c].next
          /\ SameCall(k, call[c])
    BY <2>1, GotoYields
  <2>4. Subjects(k) /\ Claims(k) /\ Follows(k) /\ Rows(k)
    BY <1>1, <2>2, <2>3 DEF SameCall, At, Good, Subjects, Claims, Follows, Rows, Guarding, Early
  <2>5. Holds(k)
    BY <1>1, <2>2, <2>3 DEF SameCall, At, Good, Claims, Holds, Writing
  <2>6. Backed(k)
    BY <1>1, <2>2, <2>3 DEF SameCall, At, Good, Backed, Writing
  <2>7. Fresh(k)
    BY <1>1, <1>3, <2>2, <2>3 DEF SameCall, At, Good, Fresh, GovernanceHolds
  <2> QED  BY <1>1, <2>3, <2>4, <2>5, <2>6, <2>7, CallKeeps DEF Good, At
<1> QED  BY <1>2, <1>3

-----------------------------------------------------------------------------
(***************************************************************************)
(* The submission.  What other calls know stands, or the log has moved on  *)
(* past the position they read.                                            *)
(***************************************************************************)
\* The log goes on, or it is where it was and nothing was applied that a call had not seen.
Stands ==
  /\ approved \subseteq approved' /\ head' \in Nat
  /\ \/ head' = head + 1
     \/ /\ head' = head /\ (~lagged' => ~lagged)
        /\ pending = NoGroup => pending' = NoGroup /\ graph' = graph

LEMMA GoodStays ==
  ASSUME NEW j, Good(j), head \in Nat, Stands
  PROVE  Good(j)'
<1>1. j.expected \in Nat  BY CallFields DEF Good, Subjects
<1>2. Subjects(j)' /\ Claims(j)' /\ Holds(j)' /\ Follows(j)' /\ Rows(j)'
  BY DEF Good, Subjects, Claims, Holds, Follows, Rows
<1>3. Backed(j)'
  BY DEF Good, Backed, Succeeded, Stands
<1>4. Fresh(j)'
  BY <1>1 DEF Good, Fresh, Stands, GovernanceHolds, Governors, Governed
<1> QED  BY <1>2, <1>3, <1>4 DEF Good

LEMMA LogStep ==
  ASSUME IInv, NEW c \in Caller, NEW k, call' = [call EXCEPT ![c] = k], Good(k)',
         Stands, UNCHANGED calls,
         graph' \in Graph, pending' \in Group \cup {NoGroup}, approved' \subseteq Policy,
         lagged' \in BOOLEAN, GraphInv'
  PROVE  IInv'
<1>1. ASSUME NEW d \in Caller PROVE Good(call[d])'
  <2>1. PICK j : j = call[d]  OBVIOUS
  <2>2. Good(j)'  BY <2>1, Known, GoodStays
  <2>3. call'[d] = IF d = c THEN k ELSE j
    BY <2>1 DEF IInv, TypeOK
  <2>4. CASE d = c
    BY <2>3, <2>4
  <2>5. CASE d # c
    BY <2>2, <2>3, <2>5
  <2> QED  BY <2>4, <2>5
<1>2. call' \in [Caller -> Call]
  BY DEF IInv, TypeOK, Good, Subjects
<1> QED  BY <1>1, <1>2 DEF IInv, CallInv, TypeOK, Stands

LEMMA WrittenYields ==
  ASSUME IInv, NEW c \in Caller, At(c, "submit") \/ At(c, "apply"), Written(c), Stands,
         call[c].next = "prior" => call[c].policy \in approved'
  PROVE  \E k : Good(k)' /\ call' = [call EXCEPT ![c] = k]
<1>1. Good(call[c]) /\ call[c] \in Call /\ head \in Nat  BY Known
<1>2. PICK wrote \in BOOLEAN : wrote = (call[c].row = "applied")
  OBVIOUS
<1> PICK k : k = [call[c] EXCEPT !.pc = "after", !.wrote = wrote]
  OBVIOUS
<1>3. /\ k \in Call /\ k.pc = "after" /\ (k.row = "applied" => k.wrote)
      /\ k.kind = call[c].kind /\ k.actor = call[c].actor /\ k.policy = call[c].policy
      /\ k.caps = call[c].caps /\ k.from = call[c].from /\ k.next = call[c].next
      /\ k.expected = call[c].expected /\ k.row = call[c].row
  BY <1>1, <1>2, ZenonT(40) DEF Call, PC
<1>4. call' = [call EXCEPT ![c] = k]
  BY <1>2, Zenon DEF Written
<1>5. Subjects(k)' /\ Claims(k)' /\ Holds(k)'
  BY <1>1, <1>3 DEF At, Good, Subjects, Claims, Holds, Writing, Guarding
<1>6. Follows(k)' /\ Rows(k)'
  BY <1>1, <1>3 DEF At, Good, Follows, Rows, Guarding, Early
<1>7. Backed(k)'
  BY <1>1, <1>3 DEF At, Good, Backed, Succeeded, Stands, Writing, Guarding
<1>8. Fresh(k)'
  <2>1. k.expected \in Nat /\ k.expected <= head
    BY <1>1, <1>3, CallFields DEF Good, Fresh
  <2> QED  BY <1>1, <1>3, <2>1 DEF Fresh, Stands
<1> QED  BY <1>4, <1>5, <1>6, <1>7, <1>8 DEF Good

\* What the group of a call that read the governance finds in its way.
LEMMA FindsInWay ==
  ASSUME IInv, NEW c \in Caller, At(c, "submit"), ~Stale(c), ~lagged, NEW w, w = call[c].write
  PROVE  InWay(graph, w)
<1>1. Good(call[c]) /\ graph \in Graph
  BY Known
<1>2. w \in Group /\ (call[c].caps = {} => w.caps = {})
  BY <1>1 DEF At, Good, Holds, Writing
<1>3. CASE call[c].caps = {}
  BY <1>2, <1>3 DEF InWay
<1>4. CASE call[c].caps # {}
  <2>1. w.caps = call[c].caps /\ w.from = call[c].from
    BY <1>1, <1>4 DEF At, Good, Holds, Writing
  <2>2. GovernanceHolds(call[c])
    BY <1>1, <1>4 DEF At, Good, Fresh, Stale, Guarded
  <2>3. ASSUME NEW x \in graph.governs, x[1] \in w.caps
        PROVE  w.from # NoPolicy /\ x[2] = w.from
    <3>1. x[2] \in Policy /\ x \in Capability \X Policy /\ x = <<x[1], x[2]>>  BY <1>1 DEF Graph
    <3>2. CASE call[c].kind = "create"
      BY <2>1, <2>2, <2>3, <3>1, <3>2 DEF GovernanceHolds, Governors
    <3>3. CASE call[c].kind # "create"
      <4>1. <<x[1], w.from>> \in graph.governs
        BY <2>1, <2>2, <2>3, <3>3 DEF GovernanceHolds, Governed
      <4>2. x = <<x[1], w.from>> /\ w.from \in Policy
        BY <1>1, <3>1, <4>1 DEF Graph, IInv, GraphInv, GovernedOnce
      <4> QED  BY <4>2, PolicyAssumption
    <3> QED  BY <3>2, <3>3
  <2> QED  BY <2>3 DEF InWay
<1> QED  BY <1>3, <1>4

LEMMA SubmitKeeps ==
  ASSUME IInv, NEW c \in Caller, SubmitGroup(c)
  PROVE  IInv'
<1>1. PICK w : w = call[c].write  OBVIOUS
<1>2. /\ At(c, "submit") /\ ~At(c, "idle") /\ ~At(c, "apply") /\ pending = NoGroup
      /\ Good(call[c]) /\ call[c] \in Call /\ head \in Nat /\ call[c].policy \in Policy
  BY Known DEF SubmitGroup, At
<1>3. /\ w \in Group /\ Sound(w) /\ (w.status = "deprecated" => Succeeded(w.policy))
      /\ call[c].next = "prior" => w.status = "approved" /\ w.policy = call[c].policy
  BY <1>1, <1>2 DEF At, Good, Holds, Follows, Backed, Writing
<1>4. /\ approved \subseteq Policy /\ lagged \in BOOLEAN /\ GovernedOnce /\ graph \in Graph
      /\ StatusInv(graph)
  BY DEF IInv, TypeOK, GraphInv
<1>5. CASE Stale(c) /\ Raise(c) /\ UNCHANGED gatewayVars
  BY <1>2, <1>5, RaiseKeeps
<1>6. CASE ~Changes(graph, w) /\ Written(c) /\ UNCHANGED gatewayVars
  <2>1. Stands  BY <1>2, <1>6 DEF Stands, gatewayVars, logVars
  <2>2. call[c].next = "prior" => call[c].policy \in approved'
    <3>1. ASSUME w.status = "approved" PROVE w.policy \in approved
      <4>1. Effect(graph, w) = graph  BY <1>6 DEF Changes
      <4>2. w.policy \in Policy /\ w.status # "keep"  BY <1>3, <3>1, GroupFields
      <4>3. graph.status[w.policy] = "approved"
        BY <1>3, <1>4, <3>1, <4>1, <4>2, EffectStatus
      <4> QED  BY <1>4, <4>2, <4>3 DEF StatusInv
    <3> QED  BY <1>3, <1>6, <3>1 DEF gatewayVars, logVars
  <2>3. PICK k : Good(k)' /\ call' = [call EXCEPT ![c] = k]
    BY <1>2, <1>6, <2>1, <2>2, WrittenYields
  <2>4. GraphInv' /\ UNCHANGED <<graph, pending, approved, lagged, calls>>
    BY <1>2, <1>6 DEF IInv, GraphInv, PendingInv, StatusInv, Succeeded, GovernedOnce, gatewayVars, logVars
  <2> QED  BY <1>2, <1>4, <2>1, <2>3, <2>4, LogStep
<1>7. CASE ~Stale(c) /\ LogGroup(c, w)
  <2>1. /\ head' = head + 1 /\ pending' = w /\ UNCHANGED <<graph, calls, lagged>>
        /\ approved' = IF w.status = "approved" THEN approved \cup {w.policy} ELSE approved
        /\ call' = [call EXCEPT ![c].pc = "apply"]
    BY <1>7 DEF LogGroup
  <2>2. Stands  BY <1>2, <2>1 DEF Stands
  <2>3. approved' \subseteq Policy
    BY <1>3, <1>4, <2>1, GroupFields
  <2>4. PICK k : k = [call[c] EXCEPT !.pc = "apply"]
    OBVIOUS
  <2>5. /\ k \in Call /\ k.pc = "apply" /\ k.next = call[c].next /\ SameCall(k, call[c])
        /\ call' = [call EXCEPT ![c] = k]
    <3>1. "apply" \in PC  BY DEF PC
    <3> QED  BY <1>2, <2>1, <2>4, <3>1, Moved DEF SameCall
  <2>6. Subjects(k)' /\ Claims(k)' /\ Holds(k)'
    BY <1>2, <2>5 DEF SameCall, At, Good, Subjects, Claims, Holds, Writing, Guarding
  <2>7. Follows(k)' /\ Rows(k)'
    BY <1>2, <2>5 DEF SameCall, At, Good, Follows, Rows, Guarding, Early
  <2>8. Backed(k)'
    <3>1. call[c].next = "prior" => call[c].policy \in approved'  BY <1>3, <2>1
    <3> QED  BY <1>2, <2>2, <2>5, <3>1 DEF SameCall, At, Good, Backed, Succeeded, Stands, Writing, Guarding
  <2>9. Fresh(k)'
    <3>1. k.expected \in Nat /\ k.expected <= head
      BY <1>2, <2>5, CallFields DEF SameCall, Good, Fresh
    <3> QED  BY <2>1, <2>5, <3>1, <1>2 DEF Fresh
  <2>10. PendingInv'
    <3>1. Backs(w)'
      BY <1>3, <2>1 DEF Backs, Sound, Succeeded
    <3>2. Locked'
      <4>1. call'[c] = k  BY <2>5 DEF IInv, TypeOK
      <4> QED  BY <2>5, <4>1 DEF Locked, At
    <3>3. ~lagged => InWay(graph, w)
      BY <1>1, <1>2, <1>7, FindsInWay
    <3> QED  BY <1>3, <2>1, <3>1, <3>2, <3>3 DEF PendingInv, Backs, Sound, InWay, Succeeded
  <2>11. GraphInv'
    BY <1>4, <2>1, <2>2, <2>10 DEF GraphInv, StatusInv, Succeeded, GovernedOnce, Stands
  <2> QED  BY <1>2, <1>3, <1>4, <2>1, <2>2, <2>3, <2>5, <2>6, <2>7, <2>8, <2>9, <2>11, LogStep DEF Good
<1> QED
  BY <1>1, <1>5, <1>6, <1>7 DEF SubmitGroup, RefuseStale

-----------------------------------------------------------------------------
(***************************************************************************)
(* The runs of a group, applied by the call that logged it or after it.    *)
(***************************************************************************)
LEMMA RunKeeps ==
  ASSUME IInv, pending # NoGroup, NEW r \in NextRuns(graph, pending), graph' = r.graph,
         pending' = r.left \/ pending' = pending, UNCHANGED <<approved, lagged>>,
         ~lagged => (pending' = r.left /\ (pending' # NoGroup => Locked'))
  PROVE  graph' \in Graph /\ pending' \in Group \cup {NoGroup} /\ GraphInv'
<1>1. PICK h : h = r.graph  OBVIOUS
<1>2. PICK l : l = r.left  OBVIOUS
<1>3. /\ graph \in Graph /\ pending \in Group /\ Backs(pending) /\ StatusInv(graph) /\ GovernedOnce
      /\ ~lagged => InWay(graph, pending)
  BY DEF IInv, TypeOK, GraphInv, PendingInv
<1>4. /\ h \in Graph /\ StatusInv(h) /\ LeftOf(pending, l)
      /\ Deleting(graph, pending, h, l) \/ Upserting(graph, pending, h, l) \/ Elsewhere(graph, pending, h, l)
  BY <1>1, <1>2, <1>3, RunFacts
<1>5. l # NoGroup => l \in Group /\ Backs(l)
  <2>1. l # NoGroup => l.caps = {} \/ l.from = NoPolicy
    BY <1>4 DEF Deleting, Upserting, Elsewhere
  <2> QED  BY <1>3, <1>4, <2>1, LeftBacks DEF LeftOf
<1>6. ~lagged => (\A e, f \in h.governs : e[1] = f[1] => e = f) /\ (l # NoGroup => InWay(h, l))
  <2> SUFFICES ASSUME ~lagged
               PROVE  (\A e, f \in h.governs : e[1] = f[1] => e = f) /\ (l # NoGroup => InWay(h, l))
    OBVIOUS
  <2> QED  BY <1>3, <1>4, RunGoverned DEF GovernedOnce
<1>7. graph' = h /\ pending' \in {l, pending} /\ (~lagged => pending' = l)
  BY <1>1, <1>2
<1>8. GovernedOnce'
  BY <1>6, <1>7 DEF GovernedOnce
<1>9. StatusInv(graph)'
  BY <1>4, <1>7 DEF StatusInv, Succeeded
<1>10. PendingInv'
  BY <1>3, <1>5, <1>6, <1>7 DEF PendingInv, Backs, Sound, Succeeded, InWay
<1> QED  BY <1>3, <1>4, <1>5, <1>7, <1>8, <1>9, <1>10 DEF GraphInv

LEMMA ApplyRunKeeps ==
  ASSUME IInv, NEW c \in Caller, ApplyRun(c)
  PROVE  IInv'
<1>1. PICK r \in NextRuns(graph, pending) :
        /\ Mark(r)
        /\ IF r.left = NoGroup THEN Written(c) ELSE UNCHANGED call
  BY DEF ApplyRun
<1>2. /\ At(c, "apply") /\ pending # NoGroup /\ graph' = r.graph /\ pending' = r.left
      /\ UNCHANGED <<head, calls, approved, lagged>> /\ head \in Nat /\ Good(call[c])
  BY <1>1, Known DEF ApplyRun, Mark
<1>3. Stands  BY <1>2 DEF Stands
<1>4. approved' \subseteq Policy /\ lagged' \in BOOLEAN
  BY <1>2 DEF IInv, TypeOK
<1>5. pending' # NoGroup => Locked'
  BY <1>1, <1>2 DEF Locked, At
<1>6. graph' \in Graph /\ pending' \in Group \cup {NoGroup} /\ GraphInv'
  BY <1>2, <1>5, RunKeeps
<1>7. \E k : Good(k)' /\ call' = [call EXCEPT ![c] = k]
  <2>1. CASE Written(c)
    <3>1. call[c].next = "prior" => call[c].policy \in approved'
      BY <1>2 DEF At, Good, Backed
    <3> QED  BY <1>2, <1>3, <2>1, <3>1, WrittenYields
  <2>2. CASE UNCHANGED call
    <3>1. PICK k : k = call[c]  OBVIOUS
    <3>2. Good(k)'  BY <1>2, <1>3, <3>1, GoodStays
    <3>3. call' = [call EXCEPT ![c] = k]  BY <2>2, <3>1 DEF IInv, TypeOK
    <3> QED  BY <3>2, <3>3
  <2> QED  BY <1>1, <2>1, <2>2
<1>8. PICK k : Good(k)' /\ call' = [call EXCEPT ![c] = k]
  BY <1>7
<1> QED  BY <1>2, <1>3, <1>4, <1>6, <1>8, LogStep

LEMMA ApplyFailsKeeps ==
  ASSUME IInv, NEW c \in Caller, ApplyFails(c)
  PROVE  IInv'
<1>1. /\ At(c, "apply") /\ ~At(c, "idle") /\ pending # NoGroup /\ lagged' = TRUE /\ Raise(c)
      /\ graph' = graph \/ \E r \in NextRuns(graph, pending) : graph' = r.graph
      /\ UNCHANGED <<pending, head, calls, approved>> /\ head \in Nat
  BY Known DEF ApplyFails, At
<1>2. /\ graph \in Graph /\ pending \in Group /\ Backs(pending) /\ StatusInv(graph)
  BY <1>1 DEF IInv, TypeOK, GraphInv, PendingInv
<1>3. Stands  BY <1>1 DEF Stands
<1>4. PICK h : h = graph'  OBVIOUS
<1>5. h \in Graph /\ StatusInv(h)
  BY <1>1, <1>2, <1>4, RunFacts
<1>6. GraphInv'
  <2>1. PendingInv'
    BY <1>1, <1>2 DEF PendingInv, Backs, Sound, Succeeded
  <2>2. StatusInv(graph)' /\ GovernedOnce'
    BY <1>1, <1>4, <1>5 DEF StatusInv, Succeeded, GovernedOnce
  <2> QED  BY <2>1, <2>2 DEF GraphInv
<1>7. PICK k : Good(k) /\ call' = [call EXCEPT ![c] = k]
  BY <1>1, RaiseYields
<1>8. Good(k)'  BY <1>1, <1>3, <1>7, GoodStays
<1>9. approved' \subseteq Policy /\ lagged' \in BOOLEAN /\ graph' \in Graph /\ pending' \in Group
  BY <1>1, <1>2, <1>4, <1>5 DEF IInv, TypeOK
<1> QED  BY <1>1, <1>3, <1>6, <1>7, <1>8, <1>9, LogStep

LEMMA CatchUpKeeps ==
  ASSUME IInv, CatchUp
  PROVE  IInv'
<1>1. PICK r \in NextRuns(graph, pending) : Mark(r) \/ (graph' = r.graph /\ UNCHANGED pending)
  BY DEF CatchUp
<1>2. /\ pending # NoGroup /\ lagged /\ graph' = r.graph /\ (pending' = r.left \/ pending' = pending)
      /\ UNCHANGED <<head, call, calls, approved, lagged>> /\ head \in Nat
  BY <1>1 DEF CatchUp, Mark, IInv, TypeOK, GraphInv, PendingInv
<1>3. Stands  BY <1>2 DEF Stands
<1>4. graph' \in Graph /\ pending' \in Group \cup {NoGroup} /\ GraphInv'
  BY <1>2, RunKeeps
<1>5. TypeOK'  BY <1>2, <1>4 DEF IInv, TypeOK
<1>6. ASSUME NEW d \in Caller PROVE Good(call[d])'
  <2>1. PICK j : j = call[d]  OBVIOUS
  <2>2. Good(j)'  BY <1>2, <1>3, <2>1, Known, GoodStays
  <2> QED  BY <1>2, <2>1, <2>2
<1> QED  BY <1>4, <1>5, <1>6 DEF IInv, CallInv

-----------------------------------------------------------------------------
(***************************************************************************)
(* After the submission, and the ways a call ends.                         *)
(***************************************************************************)
LEMMA AfterKeeps ==
  ASSUME IInv, NEW c \in Caller, After(c)
  PROVE  IInv'
<1>1. At(c, "after") /\ ~At(c, "idle") /\ UNCHANGED gatewayVars /\ Good(call[c])
  BY Known DEF After, At
<1>2. CASE Raise(c)
  BY <1>1, <1>2, RaiseKeeps DEF At
<1>3. CASE Goto(c, call[c].next)
  <2>1. call[c].next \in {"read", "idle", "prior"}
    BY <1>1 DEF Good, Follows, At
  <2>2. CASE call[c].next = "idle"
    <3>1. call[c].row = "applied" => call[c].wrote
      BY <1>1 DEF Good, Rows, At
    <3> QED  BY <1>1, <1>3, <2>2, <3>1, EndKeeps DEF Goto, At
  <2>3. CASE call[c].next # "idle"
    <3>1. call[c].next \in PC \ {"idle"}  BY <2>1, <2>3 DEF PC
    <3>2. PICK k \in Call :
            /\ call' = [call EXCEPT ![c] = k]
            /\ k.pc = call[c].next /\ k.write = call[c].write /\ k.next = call[c].next
            /\ SameCall(k, call[c])
      BY <1>3, <3>1, GotoYields
    <3>3. Subjects(k) /\ Claims(k) /\ Follows(k) /\ Rows(k)
      BY <1>1, <2>1, <2>3, <3>2 DEF SameCall, At, Good, Subjects, Claims, Follows, Rows, Guarding, Early
    <3>4. Holds(k) /\ Backed(k) /\ Fresh(k)
      BY <1>1, <2>1, <2>3, <3>2 DEF SameCall, At, Good, Holds, Backed, Fresh, Writing, Guarding
    <3> QED  BY <1>1, <3>2, <3>3, <3>4, CallKeeps DEF Good, At
  <2> QED  BY <2>2, <2>3
<1> QED  BY <1>2, <1>3 DEF After

\* The deprecation of a prior follows the logged approval of its successor.
LEMMA FindApprovedPriorKeeps ==
  ASSUME IInv, NEW c \in Caller, FindApprovedPrior(c)
  PROVE  IInv'
<1>1. At(c, "prior") /\ UNCHANGED gatewayVars /\ Good(call[c]) /\ call[c] \in Call
      /\ call[c].policy \in Policy /\ call[c].actor \in Actor
  BY Known DEF FindApprovedPrior, At
<1>2. CASE ApprovedPrior(call[c].policy) = {}
  <2>1. call[c].row = "applied" => call[c].wrote
    BY <1>1 DEF Good, Rows, At
  <2> QED  BY <1>1, <1>2, <2>1, EndKeeps DEF FindApprovedPrior, At
<1>3. CASE ApprovedPrior(call[c].policy) # {}
  <2>1. PICK k : k = [call[c] EXCEPT !.pc = "audit", !.kind = "deprecate",
                        !.policy = Prior[call[c].policy], !.caps = {}, !.from = NoPolicy,
                        !.row = "none", !.wrote = FALSE]
    OBVIOUS
  <2>2. Prior[call[c].policy] \in Policy
    BY <1>3 DEF ApprovedPrior
  <2>3. "audit" \in PC /\ "deprecate" \in Kind /\ "none" \in Row
    BY DEF PC, Kind, Row
  <2>4. /\ k \in Call /\ k.pc = "audit" /\ k.kind = "deprecate" /\ k.policy = Prior[call[c].policy]
        /\ k.caps = {} /\ k.from = NoPolicy /\ k.row = "none" /\ k.actor = call[c].actor
        /\ k.expected = call[c].expected
    BY <1>1, <2>1, <2>2, <2>3 DEF Call
  <2>5. Succeeded(k.policy)
    BY <1>1, <2>4 DEF At, Good, Backed, Succeeded
  <2>6. Good(k)
    BY <1>1, <2>2, <2>4, <2>5 DEF At, Good, Subjects, Claims, Holds, Follows, Rows, Backed, Fresh,
      Writing, Guarding, Early
  <2>7. call' = [call EXCEPT ![c] = k]
    BY <1>3, <2>1 DEF FindApprovedPrior
  <2> QED  BY <1>1, <2>6, <2>7, CallKeeps DEF At
<1> QED  BY <1>2, <1>3

LEMMA AuditFailedKeeps ==
  ASSUME IInv, NEW c \in Caller, AuditFailed(c)
  PROVE  IInv'
<1>1. PICK row \in {"refuted", "lost"} : call' = [call EXCEPT ![c] = [Idle EXCEPT !.row = row]]
  BY DEF AuditFailed
<1>2. PICK k : k = [Idle EXCEPT !.row = row]
  OBVIOUS
<1>3. /\ k.pc = "idle" /\ k.kind = "none" /\ k.caps = {} /\ k.from = NoPolicy
      /\ k.expected = 0 /\ k.row # "applied" /\ k \in Call
  BY <1>2 DEF Idle, Call, PC, Kind, Row
<1>4. Good(k)
  BY <1>3, RestGood DEF IInv, TypeOK
<1>5. UNCHANGED gatewayVars /\ ~At(c, "apply")  BY DEF AuditFailed, At
<1> QED  BY <1>1, <1>2, <1>4, <1>5, CallKeeps

LEMMA OutageKeeps ==
  ASSUME IInv, NEW c \in Caller, Outage(c)
  PROVE  IInv'
<1>1. ~At(c, "idle") /\ ~At(c, "apply") /\ Raise(c) /\ UNCHANGED gatewayVars
  BY DEF Outage, At
<1> QED  BY <1>1, RaiseKeeps

LEMMA CrashKeeps ==
  ASSUME IInv, Crash
  PROVE  IInv'
<1>1. /\ call' = [c \in Caller |-> Idle] /\ lagged' = (lagged \/ pending # NoGroup)
      /\ UNCHANGED <<graph, pending, head, calls, approved>>
  BY DEF Crash
<1>2. PICK k : k = Idle  OBVIOUS
<1>3. /\ k.pc = "idle" /\ k.kind = "none" /\ k.caps = {} /\ k.from = NoPolicy
      /\ k.expected = 0 /\ k.row # "applied" /\ k \in Call
  BY <1>2 DEF Idle, Call, PC, Kind, Row
<1>4. Good(k)
  BY <1>3, RestGood DEF IInv, TypeOK
<1>5. Good(k)'
  <2>1. head \in Nat  BY DEF IInv, TypeOK
  <2>2. Stands  BY <1>1, <2>1 DEF Stands
  <2> QED  BY <1>4, <2>1, <2>2, GoodStays
<1>6. ASSUME NEW d \in Caller PROVE Good(call[d])'
  <2>1. call'[d] = k  BY <1>1, <1>2
  <2> QED  BY <1>5, <2>1
<1>7. TypeOK'
  <2>1. call' \in [Caller -> Call]  BY <1>1, <1>2, <1>3
  <2>2. lagged' \in BOOLEAN  BY <1>1 DEF IInv, TypeOK
  <2> QED  BY <1>1, <2>1, <2>2 DEF IInv, TypeOK
<1>8. GraphInv'
  BY <1>1 DEF IInv, GraphInv, PendingInv, Backs, Sound, StatusInv, Succeeded, GovernedOnce
<1> QED  BY <1>6, <1>7, <1>8 DEF IInv, CallInv

-----------------------------------------------------------------------------
(***************************************************************************)
(* Invariance.                                                             *)
(***************************************************************************)
LEMMA InitHolds == Init => IInv
<1> SUFFICES ASSUME Init PROVE IInv
  OBVIOUS
<1>1. graph \in Graph /\ GovernedOnce
  BY StartAssumption DEF Init, GovernedOnce, Graph
<1>2. StatusInv(graph)
  BY <1>1, StartAssumption DEF Init, StatusInv, Succeeded
<1>3. GraphInv
  BY <1>1, <1>2 DEF GraphInv, PendingInv, Init
<1>4. PICK k : k = Idle  OBVIOUS
<1>5. /\ k.pc = "idle" /\ k.kind = "none" /\ k.caps = {} /\ k.from = NoPolicy
      /\ k.expected = 0 /\ k.row # "applied" /\ k \in Call
  BY <1>4 DEF Idle, Call, PC, Kind, Row
<1>6. Good(k)
  BY <1>5, RestGood DEF Init
<1>7. CallInv
  BY <1>4, <1>6 DEF Init, CallInv
<1>8. TypeOK
  <2>1. call \in [Caller -> Call]  BY <1>4, <1>5 DEF Init
  <2>2. approved \subseteq Policy  BY DEF Init
  <2>3. calls \in 0..MaxCalls  BY PolicyAssumption DEF Init
  <2> QED  BY <1>1, <2>1, <2>2, <2>3 DEF Init, TypeOK
<1> QED  BY <1>3, <1>7, <1>8 DEF IInv

LEMMA NextKeeps == IInv /\ [Next]_vars => IInv'
<1> SUFFICES ASSUME IInv, [Next]_vars PROVE IInv'
  OBVIOUS
<1>1. CASE UNCHANGED vars
  <2>1. head \in Nat /\ Stands
    BY <1>1 DEF IInv, TypeOK, Stands, vars
  <2>2. ASSUME NEW d \in Caller PROVE Good(call[d])'
    <3>1. PICK j : j = call[d]  OBVIOUS
    <3>2. Good(j)'  BY <2>1, <3>1, Known, GoodStays
    <3> QED  BY <1>1, <3>1, <3>2 DEF vars
  <2>3. TypeOK' /\ GraphInv'
    BY <1>1 DEF IInv, TypeOK, GraphInv, PendingInv, Backs, Sound, InWay, StatusInv, Succeeded, GovernedOnce,
      Locked, At, vars
  <2> QED  BY <2>2, <2>3 DEF IInv, CallInv
<1>2. ASSUME NEW c \in Caller, Request(c) \/ ReadStep(c) \/ AuditApplied(c) \/ GuardStep(c) \/ WriteStep(c)
      PROVE  IInv'
  <2>1. CASE Request(c)  BY <2>1, RequestKeeps
  <2>2. CASE ReadStep(c)
    BY <2>2, BackfillKeeps, ReadKeeps, LookForExistingKeeps, LookAtClaimsKeeps, ReadPriorTreeKeeps,
      ReadRepointKeeps DEF ReadStep
  <2>3. CASE AuditApplied(c)  BY <2>3, AuditAppliedKeeps
  <2>4. CASE GuardStep(c)
    BY <2>4, GuardKeeps, ReadPositionKeeps, CheckGovernorsKeeps DEF GuardStep
  <2>5. CASE WriteStep(c)
    BY <2>5, ReadCascadeKeeps, StampKeeps, SubmitKeeps, AfterKeeps DEF WriteStep
  <2> QED  BY <1>2, <2>1, <2>2, <2>3, <2>4, <2>5
<1>3. ASSUME NEW c \in Caller, ApplyStep(c) \/ FindApprovedPrior(c) \/ AuditFailed(c) \/ Outage(c)
      PROVE  IInv'
  BY <1>3, ApplyRunKeeps, ApplyFailsKeeps, FindApprovedPriorKeeps, AuditFailedKeeps, OutageKeeps DEF ApplyStep
<1>4. CASE CatchUp  BY <1>4, CatchUpKeeps
<1>5. CASE Crash  BY <1>5, CrashKeeps
<1> QED  BY <1>1, <1>2, <1>3, <1>4, <1>5 DEF Next

LEMMA Invariance == Spec => []IInv
BY InitHolds, NextKeeps, PTL DEF Spec

(***************************************************************************)
(* Type correctness: a node's status is one of the four, or not there yet. *)
(***************************************************************************)
THEOREM TypeCorrect == Spec => []TypeOK
<1>1. IInv => TypeOK  BY DEF IInv
<1> QED  BY <1>1, Invariance, PTL

(***************************************************************************)
(* Overlapping claims and repoints never give a capability two governors   *)
(* while no call failed to apply the group it logged: the graph is asked   *)
(* to be caught up, the log position is read under the lock that an apply  *)
(* holds, and the governors are read after it.                             *)
(***************************************************************************)
THEOREM OneGovernor == Spec => []GovernedOnce
<1>1. IInv => GovernedOnce  BY DEF IInv, GraphInv
<1> QED  BY <1>1, Invariance, PTL

(***************************************************************************)
(* A policy is deprecated behind a successor whose approval is logged.     *)
(***************************************************************************)
THEOREM NothingRetiredAlone == Spec => []RetiredBehindSuccessor
<1>1. IInv => RetiredBehindSuccessor
  BY DEF IInv, GraphInv, StatusInv, Succeeded, RetiredBehindSuccessor
<1> QED  BY <1>1, Invariance, PTL

(***************************************************************************)
(* An applied audit row that stands when its call ended is true.           *)
(***************************************************************************)
THEOREM RowsAreTrue == Spec => []AppliedRowsAreTrue
<1>1. IInv => AppliedRowsAreTrue
  BY DEF IInv, CallInv, Good, Rows, AppliedRowsAreTrue, At
<1> QED  BY <1>1, Invariance, PTL

-----------------------------------------------------------------------------
(***************************************************************************)
(* How the governance moves.                                               *)
(***************************************************************************)
Moves ==
  \A e \in Assured \ Assured' :
    \E q \in approved' : Prior[q] = e[2] /\ <<e[1], q>> \in Assured'

\* A run deletes an edge only when the group that is left assures the successor's.
LEMMA RunMoves ==
  ASSUME IInv, pending # NoGroup, NEW r \in NextRuns(graph, pending), graph' = r.graph,
         pending' = r.left \/ pending' = pending, approved' = approved
  PROVE  Moves
<1>1. PICK w : w = pending  OBVIOUS
<1>2. PICK h : h = r.graph  OBVIOUS
<1>3. PICK l : l = pending'  OBVIOUS
<1>4. /\ graph \in Graph /\ w \in Group /\ Backs(w) /\ w # NoGroup
  BY <1>1 DEF IInv, TypeOK, GraphInv, PendingInv
<1>5. /\ LeftOf(w, r.left)
      /\ Deleting(graph, w, h, r.left) \/ Upserting(graph, w, h, r.left) \/ Elsewhere(graph, w, h, r.left)
  BY <1>1, <1>2, <1>4, RunFacts DEF IInv, GraphInv
<1>6. /\ Assured = graph.governs \cup (w.caps \X {w.policy})
      /\ Assured' = h.governs \cup (IF l = NoGroup THEN {} ELSE l.caps \X {l.policy})
  BY <1>1, <1>2, <1>3, <1>4 DEF Assured
<1>7. l = r.left \/ l = w
  BY <1>1, <1>3
<1>8. ASSUME NEW e \in Assured, e \notin Assured'
      PROVE  \E q \in approved' : Prior[q] = e[2] /\ <<e[1], q>> \in Assured'
  <2>1. CASE Deleting(graph, w, h, r.left)
    <3>1. l # NoGroup /\ l.caps = w.caps /\ l.policy = w.policy
      BY <1>4, <1>5, <1>7, <2>1 DEF Deleting, LeftOf
    <3>2. e \in w.caps \X {w.from}
      BY <1>6, <1>8, <2>1, <3>1 DEF Deleting
    <3>3. w.status = "approved" /\ Prior[w.policy] = e[2] /\ w.policy \in approved
      BY <1>4, <2>1, <3>2 DEF Backs, Sound, Deleting
    <3>4. <<e[1], w.policy>> \in Assured'
      BY <1>6, <3>1, <3>2
    <3> QED  BY <3>3, <3>4
  <2>2. CASE Upserting(graph, w, h, r.left)
    BY <1>6, <1>8, <2>2 DEF Upserting
  <2>3. CASE Elsewhere(graph, w, h, r.left)
    BY <1>4, <1>5, <1>6, <1>7, <1>8, <2>3 DEF Elsewhere, LeftOf
  <2> QED  BY <1>5, <2>1, <2>2, <2>3
<1> QED  BY <1>8 DEF Moves

LEMMA LogMoves ==
  ASSUME IInv, NEW c \in Caller, SubmitGroup(c)
  PROVE  Moves
<1>1. graph' = graph /\ pending = NoGroup
  BY DEF SubmitGroup, LogGroup, gatewayVars, logVars
<1>2. Assured \subseteq Assured'
  BY <1>1 DEF Assured
<1> QED  BY <1>2 DEF Moves

(***************************************************************************)
(* Governance is not lost half way: an edge goes only when the successor's *)
(* is assured, in FalkorDB or in a logged group that is still to be        *)
(* applied, whatever fails between the runs.                               *)
(***************************************************************************)
THEOREM GovernanceOnlyMovesOn == Spec => GovernanceMoves
<1>1. IInv /\ [Next]_vars => [Moves]_vars
  <2> SUFFICES ASSUME IInv, Next PROVE Moves
    OBVIOUS
  <2>1. CASE UNCHANGED <<graph, pending>>
    BY <2>1 DEF Moves, Assured
  <2>2. CASE \E c \in Caller : SubmitGroup(c)  BY <2>2, LogMoves
  <2>3. ASSUME NEW c \in Caller, ApplyStep(c) PROVE Moves
    <3>1. CASE UNCHANGED <<graph, pending>>  BY <2>1, <3>1
    <3>2. CASE ~UNCHANGED <<graph, pending>>
      <4>1. pending # NoGroup /\ approved' = approved
        BY <2>3 DEF ApplyStep, ApplyRun, ApplyFails
      <4>2. \E r \in NextRuns(graph, pending) :
              graph' = r.graph /\ (pending' = r.left \/ pending' = pending)
        BY <2>3, <3>2 DEF ApplyStep, ApplyRun, ApplyFails, Mark
      <4> QED  BY <4>1, <4>2, RunMoves
    <3> QED  BY <3>1, <3>2
  <2>4. CASE CatchUp
    <3>1. pending # NoGroup /\ approved' = approved
      BY <2>4 DEF CatchUp
    <3>2. \E r \in NextRuns(graph, pending) :
            graph' = r.graph /\ (pending' = r.left \/ pending' = pending)
      BY <2>4 DEF CatchUp, Mark
    <3> QED  BY <3>1, <3>2, RunMoves
  <2>5. \/ UNCHANGED <<graph, pending>> \/ CatchUp
        \/ \E c \in Caller : SubmitGroup(c) \/ ApplyStep(c)
    <3>1. ASSUME NEW c \in Caller, Request(c) \/ ReadStep(c) PROVE UNCHANGED <<graph, pending>>
      BY <3>1 DEF Request, Begin, ReadStep, Backfill, Read, LookForExisting, LookAtClaims, ReadPriorTree,
        ReadRepoint, gatewayVars, logVars
    <3>2. ASSUME NEW c \in Caller,
                 AuditApplied(c) \/ GuardStep(c) \/ ReadCascade(c) \/ Stamp(c) \/ After(c)
          PROVE  UNCHANGED <<graph, pending>>
      BY <3>2 DEF AuditApplied, GuardStep, Guard, ReadPosition, CheckGovernors, ReadCascade, Stamp, After,
        gatewayVars, logVars
    <3>3. ASSUME NEW c \in Caller, FindApprovedPrior(c) \/ AuditFailed(c) \/ Outage(c)
          PROVE  UNCHANGED <<graph, pending>>
      BY <3>3 DEF FindApprovedPrior, AuditFailed, Outage, gatewayVars, logVars
    <3>4. ASSUME Crash PROVE UNCHANGED <<graph, pending>>
      BY <3>4 DEF Crash
    <3> QED  BY <3>1, <3>2, <3>3, <3>4 DEF Next, WriteStep
  <2> QED  BY <2>1, <2>2, <2>3, <2>4, <2>5
<1>2. Moves => \A e \in Assured \ Assured' :
                 \E q \in approved' : Prior[q] = e[2] /\ <<e[1], q>> \in Assured'
  BY DEF Moves
<1> QED  BY <1>1, <1>2, Invariance, PTL DEF Spec, GovernanceMoves, Moves

==============================================================================
