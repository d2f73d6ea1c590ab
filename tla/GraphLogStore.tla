----------------------------- MODULE GraphLogStore -----------------------------
(***************************************************************************)
(* The graph mutation log: insert-only tables in the PS state Postgres,    *)
(* written by graph_gateway/store.py under the constraints and triggers of *)
(* graph_gateway/migrations/0001 and 0002.                                 *)
(*                                                                         *)
(* A Session is one database transaction slot.  A transaction appends one  *)
(* group of entries to each graph of `drafts`, in that order, each under   *)
(* the graph's advisory lock (held until the transaction ends), reading    *)
(* the graph's last position before it inserts.  Rows stay private until   *)
(* the commit.  The row content, its payloads and its audit link are       *)
(* abstracted: an entry row is its graph, position and group.  Digest      *)
(* checkpoints are in GraphGateway, which decides when one is recorded.    *)
(***************************************************************************)
EXTENDS Integers, Sequences, FiniteSets

CONSTANTS Graph,        \* graph names; their order is the name order
          Session,      \* concurrent database transactions
          NoSession,    \* the advisory lock of a graph is free
          MaxEntries,   \* bound: entries of one group
          MaxHead,      \* bound: positions of one graph
          MaxMinted     \* bound: group and swap set ids minted over a behaviour

ASSUME GraphAssumption   == Graph \subseteq Nat /\ IsFiniteSet(Graph)
ASSUME SessionAssumption == NoSession \notin Session
ASSUME BoundAssumption   == {MaxEntries, MaxHead, MaxMinted} \subseteq Nat

VARIABLES entries,      \* committed rows of graph_log.entries
          groups,       \* committed rows of graph_log.groups
          marker,       \* graph_log.applied_markers; 0 when a graph has no row
          txn,          \* the transaction of each session
          lockOwner,    \* holder of each graph's advisory lock
          minted,       \* group and swap set ids handed out so far (random uuids in the code)
          refused       \* TRUE once a key or a trigger of the schema refused an insert or a commit

vars == <<entries, groups, marker, txn, lockOwner, minted, refused>>

NoSwap == 0             \* swap_set_id IS NULL

EntryRow == [graph : Graph, position : Nat \ {0}, group : Nat \ {0}]
GroupRow == [id : Nat \ {0}, graph : Graph, first : Nat \ {0}, last : Nat \ {0}, swap : Nat]
Draft    == [graph : Graph, size : 1..MaxEntries]

Isolation == {"read committed", "repeatable read"}

Status == {"idle",      \* no transaction yet
           "locking",   \* about to take the advisory lock of the next draft's graph
           "locked",    \* lock held, the last position is not read yet
           "numbered",  \* last position read and the group row inserted, its entries are not
           "appended",  \* every draft is inserted, the commit is next
           "raised",    \* the append raised, the transaction is still open
           "done",      \* ended: the caller was told the groups are committed
           "failed"}    \* ended: the caller got GraphLogPersistenceError

Txn == [status : Status, drafts : Seq(Draft), isolation : Isolation, view : SUBSET EntryRow,
        swap : Nat, legs : SUBSET Graph, row : SUBSET GroupRow, entries : SUBSET EntryRow,
        groups : SUBSET GroupRow]

IdleTxn == [status |-> "idle", drafts |-> <<>>, isolation |-> "read committed", view |-> {},
            swap |-> NoSwap, legs |-> {}, row |-> {}, entries |-> {}, groups |-> {}]

-----------------------------------------------------------------------------
(***************************************************************************)
(* Reads.  READ COMMITTED sees every committed row, REPEATABLE READ the    *)
(* rows committed when its transaction began; both see their own rows.     *)
(***************************************************************************)
Visible(s) == (IF txn[s].isolation = "read committed" THEN entries ELSE txn[s].view)
                \cup txn[s].entries

PositionsOf(rows, g) == {r.position : r \in {e \in rows : e.graph = g}}

\* coalesce(max(position), 0)
\* Mutants: positions from 0; the maximum of every graph's positions.
LastPositionFromZero(rows, g) ==
  LET P == PositionsOf(rows, g)
  IN  IF P = {} THEN -1 ELSE CHOOSE p \in P : \A q \in P : q <= p

LastPositionOfAnyGraph(rows, g) ==
  LET P == {r.position : r \in rows}
  IN  IF P = {} THEN 0 ELSE CHOOSE p \in P : \A q \in P : q <= p

LastPosition(rows, g) ==
  LET P == PositionsOf(rows, g)
  IN  IF P = {} THEN 0 ELSE CHOOSE p \in P : \A q \in P : q <= p

NextGraph(s) == Head(txn[s].drafts).graph

Settled(s) == txn[s].status \in {"idle", "done", "failed"}

-----------------------------------------------------------------------------
(***************************************************************************)
(* append_groups_standalone refuses drafts that are empty or not in        *)
(* strictly ascending graph order before it opens a connection.            *)
(***************************************************************************)
AscendingUnchecked(drafts) ==   \* mutant: any order of distinct graphs
  \A i, j \in 1..Len(drafts) : i # j => drafts[i].graph # drafts[j].graph

Ascending(drafts) ==
  \A i, j \in 1..Len(drafts) : i < j => drafts[i].graph < drafts[j].graph

(***************************************************************************)
(* append_group_standalone and append_groups_standalone: a connection of   *)
(* their own, READ COMMITTED; one swap_set_id for all groups when asked.   *)
(***************************************************************************)
BeginStandalone(s, drafts, asSwapSet) ==
  /\ Settled(s)
  /\ drafts # <<>>
  /\ Ascending(drafts)
  /\ minted < MaxMinted
  /\ minted' = IF asSwapSet THEN minted + 1 ELSE minted
  /\ txn' = [txn EXCEPT ![s] =
       [IdleTxn EXCEPT !.status = "locking", !.drafts = drafts,
                       !.swap = IF asSwapSet THEN minted + 1 ELSE NoSwap,
                       !.legs = {drafts[i].graph : i \in 1..Len(drafts)}]]
  /\ UNCHANGED <<entries, groups, marker, lockOwner, refused>>

(***************************************************************************)
(* append_group: one group on the caller's open transaction, at whatever   *)
(* isolation level the caller runs.                                        *)
(***************************************************************************)
BeginInCallersTransaction(s, draft, isolation) ==
  /\ Settled(s)
  /\ txn' = [txn EXCEPT ![s] =
       [IdleTxn EXCEPT !.status = "locking", !.drafts = <<draft>>, !.legs = {draft.graph},
                       !.isolation = isolation,
                       !.view = IF isolation = "read committed" THEN {} ELSE entries]]
  /\ UNCHANGED <<entries, groups, marker, lockOwner, minted, refused>>

(***************************************************************************)
(* _lock_graph_in_read_committed_transaction: wait for the advisory lock,  *)
(* then refuse any other isolation level (a transaction that is not open   *)
(* is refused in the same way).  The lock stays with the transaction.      *)
(* One lock per graph: two names with the same 32-bit hashtext, which the  *)
(* code would give one lock and take it out of order, are left out.        *)
(***************************************************************************)
LockGrantedAtOnce(s) == TRUE            \* mutant: the advisory lock is not waited for

LockGranted(s) == lockOwner[NextGraph(s)] \in {NoSession, s}

IsolationUnchecked(s) == TRUE           \* mutant: append on any transaction

IsolationAccepted(s) == txn[s].isolation = "read committed"

LockGraph(s) ==
  /\ txn[s].status = "locking"
  /\ LockGranted(s)
  /\ lockOwner' = [lockOwner EXCEPT ![NextGraph(s)] = s]
  /\ txn' = [txn EXCEPT ![s].status = IF IsolationAccepted(s) THEN "locked" ELSE "raised"]
  /\ UNCHANGED <<entries, groups, marker, minted, refused>>

(***************************************************************************)
(* _insert_group, first half: read the last position and insert the group  *)
(* row with the range computed from it.                                    *)
(***************************************************************************)
InsertGroupRow(s) ==
  LET g    == NextGraph(s)
      head == LastPosition(Visible(s), g)
      row  == [id |-> minted + 1, graph |-> g, first |-> head + 1,
               last |-> head + Head(txn[s].drafts).size, swap |-> txn[s].swap]
  IN  /\ txn[s].status = "locked"
      /\ minted < MaxMinted
      /\ row.last <= MaxHead
      /\ minted' = minted + 1
      /\ txn' = [txn EXCEPT ![s].status = "numbered", ![s].row = {row}]
      /\ UNCHANGED <<entries, groups, marker, lockOwner, refused>>

EntriesOf(row) ==
  {[graph |-> row.graph, position |-> p, group |-> row.id] : p \in row.first..row.last}

\* Rows of other open transactions: an insert of the same key waits for their end.
InFlight(s) == UNION {txn[o].entries : o \in Session \ {s}}

\* Primary key (graph, position).
Collides(rows, others) == \E r \in rows, o \in others : r.graph = o.graph /\ r.position = o.position

\* Trigger entries_next_position.  A group's entries are inserted in order: only the first can miss.
EntriesNextPosition(s, row) == row.first = LastPosition(Visible(s), row.graph) + 1

(***************************************************************************)
(* _insert_group, second half: the entries, under the savepoint.  A refused*)
(* insert rolls back to the savepoint, which takes the group row too.      *)
(***************************************************************************)
InsertEntries(s) ==
  /\ txn[s].status = "numbered"
  /\ \E row \in txn[s].row :
       LET accepted == EntriesNextPosition(s, row) /\ ~Collides(EntriesOf(row), entries)
           open     == IF Len(txn[s].drafts) = 1 THEN "appended" ELSE "locking"
       IN  /\ ~Collides(EntriesOf(row), InFlight(s))
           /\ refused' = (refused \/ ~accepted)
           /\ txn' = IF accepted
                     THEN [txn EXCEPT ![s].status = open,
                                      ![s].drafts = Tail(@),
                                      ![s].row = {},
                                      ![s].entries = @ \cup EntriesOf(row),
                                      ![s].groups = @ \cup {row}]
                     ELSE [txn EXCEPT ![s].status = "raised", ![s].row = {}]
  /\ UNCHANGED <<entries, groups, marker, lockOwner, minted>>

\* The advisory locks of a transaction end with it.
ReleaseLocks(s) ==
  lockOwner' = [g \in Graph |-> IF lockOwner[g] = s THEN NoSession ELSE lockOwner[g]]

\* Deferred trigger groups_match_entries, run by the commit.
GroupsMatchEntries(s) ==
  \A row \in txn[s].groups :
    {e.position : e \in {r \in txn[s].entries : r.group = row.id}} = row.first..row.last

(***************************************************************************)
(* The commit makes every row of the transaction visible at once.  When    *)
(* the connection is lost after the server committed (acked = FALSE),      *)
(* psycopg raises and the store reports the append as failed.              *)
(***************************************************************************)
RowsOfTheFirstGraph(s) ==       \* mutant: one commit per graph, the connection is lost after the first
  {e \in txn[s].entries : \A o \in txn[s].entries : e.graph <= o.graph}

RowsOfTheFirstPosition(s) ==    \* mutant: one commit per entry, the connection is lost after the first
  {e \in txn[s].entries : \A o \in txn[s].entries : e.position <= o.position}

RowsPublished(s) == txn[s].entries

Commit(s, acked) ==
  LET published == IF GroupsMatchEntries(s) THEN RowsPublished(s) ELSE {}
  IN  /\ txn[s].status = "appended"
      /\ refused' = (refused \/ ~GroupsMatchEntries(s))
      /\ entries' = entries \cup published
      /\ groups' = groups \cup {row \in txn[s].groups : EntriesOf(row) \subseteq published}
      /\ txn' = [txn EXCEPT ![s] = [IdleTxn EXCEPT !.status = IF acked THEN "done" ELSE "failed",
                                                   !.legs = txn[s].legs, !.groups = txn[s].groups]]
      /\ ReleaseLocks(s)
      /\ UNCHANGED <<marker, minted>>

(***************************************************************************)
(* A transaction that ends without its groups: the append raised, the      *)
(* connection was lost, or the caller rolled back.  A caller whose append  *)
(* raised may also commit its own rows; the savepoint has removed the      *)
(* group, so the log sees the same thing.                                  *)
(***************************************************************************)
Rollback(s) ==
  /\ ~Settled(s)
  /\ txn' = [txn EXCEPT ![s] = [IdleTxn EXCEPT !.status = "failed"]]
  /\ ReleaseLocks(s)
  /\ UNCHANGED <<entries, groups, marker, minted, refused>>

(***************************************************************************)
(* advance_applied_position: refuse a position beyond the last logged one, *)
(* leave the row alone when it is at or beyond the position already.       *)
(***************************************************************************)
MayAdvanceBackwards(g, position) ==     \* mutant: the upsert without its WHERE clause
  position <= LastPosition(entries, g)

MayAdvanceAnywhere(g, position) ==      \* mutant: the last logged position is not consulted
  marker[g] < position

MayAdvance(g, position) == position <= LastPosition(entries, g) /\ marker[g] < position

AdvanceAppliedPosition(g, position) ==
  /\ MayAdvance(g, position)
  /\ marker' = [marker EXCEPT ![g] = position]
  /\ UNCHANGED <<entries, groups, txn, lockOwner, minted, refused>>

-----------------------------------------------------------------------------
Init ==
  /\ entries = {}
  /\ groups = {}
  /\ marker = [g \in Graph |-> 0]
  /\ txn = [s \in Session |-> IdleTxn]
  /\ lockOwner = [g \in Graph |-> NoSession]
  /\ minted = 0
  /\ refused = FALSE

Drafts == UNION {[1..n -> Draft] : n \in 1..Cardinality(Graph)}

Step(s) == InsertGroupRow(s) \/ InsertEntries(s) \/ Commit(s, TRUE)

Next ==
  \/ \E s \in Session, d \in Drafts, swap \in BOOLEAN : BeginStandalone(s, d, swap)
  \/ \E s \in Session, d \in Draft, i \in Isolation : BeginInCallersTransaction(s, d, i)
  \/ \E s \in Session : LockGraph(s) \/ Step(s) \/ Commit(s, FALSE) \/ Rollback(s)
  \/ \E g \in Graph, p \in 1..MaxHead : AdvanceAppliedPosition(g, p)

Spec == Init /\ [][Next]_vars

-----------------------------------------------------------------------------
TypeOK ==
  /\ entries \subseteq EntryRow
  /\ groups \subseteq GroupRow
  /\ marker \in [Graph -> Nat]
  /\ lockOwner \in [Graph -> Session \cup {NoSession}]
  /\ minted \in Nat
  /\ refused \in BOOLEAN
  /\ txn \in [Session -> Txn]

Contiguous(rows, g) ==
  LastPosition(rows, g) \in Nat /\ PositionsOf(rows, g) = 1..LastPosition(rows, g)

(***************************************************************************)
(* The committed positions of a graph run from 1 without a gap, and no     *)
(* position is recorded twice: what replay and catch-up read is a prefix   *)
(* of the history, whatever the interleaving of appenders.                 *)
(***************************************************************************)
GapFree ==
  \A g \in Graph :
    /\ Contiguous(entries, g)
    /\ \A a, b \in entries : (a.graph = g /\ b.graph = g /\ a.position = b.position) => a = b

(***************************************************************************)
(* The committed groups of a graph cover disjoint ranges and each one      *)
(* carries exactly the entries of its range (a group is never interleaved  *)
(* with another appender's entries).                                       *)
(***************************************************************************)
GroupsWhole ==
  /\ \A row \in groups : EntriesOf(row) = {e \in entries : e.group = row.id}
  /\ \A e \in entries : \E row \in groups : e.group = row.id

(***************************************************************************)
(* Why the log stays contiguous: rows are numbered and inserted only under *)
(* the graph's advisory lock and at READ COMMITTED, so a position read is  *)
(* still the last one when the rows after it become visible.               *)
(***************************************************************************)
OwnRows(s) == entries \cup txn[s].entries

UnderLock ==
  \A s \in Session :
    /\ txn[s].status \in {"locking", "locked", "numbered"} => txn[s].drafts # <<>>
    /\ txn[s].status \in {"locked", "numbered"} =>
         lockOwner[NextGraph(s)] = s /\ txn[s].isolation = "read committed"
    /\ \A e \in txn[s].entries : lockOwner[e.graph] = s

Numbered ==
  \A s \in Session :
    /\ \A g \in Graph : lockOwner[g] = s => Contiguous(OwnRows(s), g)
    /\ \A row \in txn[s].row :
         /\ txn[s].status = "numbered"
         /\ row.graph = NextGraph(s)
         /\ row.first = LastPosition(OwnRows(s), row.graph) + 1
         /\ row.first <= row.last

OneRowPerPosition ==
  \A s \in Session : \A a, b \in OwnRows(s) :
    (a.graph = b.graph /\ a.position = b.position) => a = b

KnownGroups == groups \cup UNION {txn[s].groups \cup txn[s].row : s \in Session}

GroupIdsUnique ==
  \A a \in KnownGroups : a.id <= minted /\ \A b \in KnownGroups : a.id = b.id => a = b

RowsOfGroups ==
  /\ entries = UNION {EntriesOf(row) : row \in groups}
  /\ \A s \in Session : ~Settled(s) => txn[s].entries = UNION {EntriesOf(row) : row \in txn[s].groups}

AppendInv == UnderLock /\ Numbered /\ OneRowPerPosition /\ GroupIdsUnique /\ RowsOfGroups

(***************************************************************************)
(* The groups of one swap set commit together: a reader that sees one leg  *)
(* of a set in the log sees the legs of all of the set's graphs.           *)
(***************************************************************************)
SwapSetsWhole ==
  \A s \in Session : \A row \in groups :
    (row \in txn[s].groups /\ txn[s].status \in {"done", "failed"}) => \A g \in txn[s].legs :
      \E leg \in groups : leg.graph = g /\ leg.swap = row.swap /\ leg \in txn[s].groups

(***************************************************************************)
(* The schema's keys and triggers are a second line of defence: as long as *)
(* every appender goes through the store, its locking makes the positions  *)
(* right and neither a key nor a trigger ever refuses an append.           *)
(***************************************************************************)
NeverRefused == ~refused

\* The applied marker never names a position the log does not hold.
MarkerWithinLog == \A g \in Graph : marker[g] <= LastPosition(entries, g)

(***************************************************************************)
(* The log is insert-only and the marker only advances, over every step:   *)
(* a reader's earlier answer stays a prefix of its later ones.             *)
(***************************************************************************)
OnlyForward ==
  [][/\ entries \subseteq entries'
     /\ groups \subseteq groups'
     /\ \A e \in entries' \ entries : e.position > LastPosition(entries, e.graph)
     /\ \A g \in Graph : marker[g] <= marker'[g]]_<<entries, groups, marker>>

(***************************************************************************)
(* Overlapping multi-graph appends do not deadlock on the advisory locks:  *)
(* of any transactions, one does not wait for a lock another one holds.    *)
(***************************************************************************)
WaitsFor(s, others) ==
  txn[s].status = "locking" /\ ~LockGranted(s) /\ lockOwner[NextGraph(s)] \in others

NoLockCycle == \A S \in (SUBSET Session) \ {{}} : \E s \in S : ~WaitsFor(s, S)

(***************************************************************************)
(* Seen from outside, rows, locks and transactions are a last position and *)
(* a marker per graph that only grow: the log as GraphLog describes it.    *)
(***************************************************************************)
Log == INSTANCE GraphLog WITH head <- [g \in Graph |-> LastPosition(entries, g)]

ImplementsGraphLog == Log!Spec

====
