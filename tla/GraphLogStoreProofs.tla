-------------------------- MODULE GraphLogStoreProofs --------------------------
(***************************************************************************)
(* GraphLogStore, for any set of graphs, appenders and any bounds: the log *)
(* stays contiguous, groups stay whole, the marker stays within the log,   *)
(* and the schema's constraints never refuse the store's own appends.      *)
(***************************************************************************)
EXTENDS GraphLogStore, SequenceTheorems, FiniteSetTheorems, TLAPS

IInv == TypeOK /\ GapFree /\ AppendInv /\ NeverRefused /\ MarkerWithinLog

-----------------------------------------------------------------------------
(***************************************************************************)
(* coalesce(max(position), 0) of a graph whose positions run from 1 to n.  *)
(***************************************************************************)
LEMMA LastPositionIs ==
  ASSUME NEW rows, NEW g, NEW n \in Nat, PositionsOf(rows, g) = 1..n
  PROVE  LastPosition(rows, g) = n
<1>1. CASE n = 0
  BY <1>1 DEF LastPosition
<1>2. CASE n # 0
  <2> DEFINE P == PositionsOf(rows, g)
  <2>1. n \in P /\ \A q \in P : q <= n
    BY <1>2
  <2>2. \A p \in P : (\A q \in P : q <= p) => p = n
    BY <2>1
  <2>3. (CHOOSE p \in P : \A q \in P : q <= p) = n
    BY <2>1, <2>2
  <2>4. P # {}
    BY <2>1
  <2> QED BY <2>3, <2>4 DEF LastPosition
<1> QED BY <1>1, <1>2

\* The maximum depends on the rows of the graph only.
LEMMA LastPositionOfGraph ==
  ASSUME NEW a, NEW b, NEW g, PositionsOf(a, g) = PositionsOf(b, g)
  PROVE  LastPosition(a, g) = LastPosition(b, g)
BY DEF LastPosition

LEMMA PositionsOfUnion ==
  ASSUME NEW a, NEW b, NEW g
  PROVE  PositionsOf(a \cup b, g) = PositionsOf(a, g) \cup PositionsOf(b, g)
BY DEF PositionsOf

LEMMA PositionsOfGroup ==
  ASSUME NEW row
  PROVE  PositionsOf(EntriesOf(row), row.graph) = row.first..row.last
<1>1. ASSUME NEW p \in row.first..row.last
      PROVE  p \in PositionsOf(EntriesOf(row), row.graph)
  <2> DEFINE e == [graph |-> row.graph, position |-> p, group |-> row.id]
  <2>1. e \in EntriesOf(row) /\ e.graph = row.graph /\ e.position = p
    BY DEF EntriesOf
  <2> QED BY <2>1 DEF PositionsOf
<1>2. ASSUME NEW p \in PositionsOf(EntriesOf(row), row.graph)
      PROVE  p \in row.first..row.last
  BY <1>2 DEF PositionsOf, EntriesOf
<1> QED BY <1>1, <1>2

\* Appending the group row after the last position keeps the positions contiguous.
LEMMA AppendKeepsContiguous ==
  ASSUME NEW rows, NEW row \in GroupRow, Contiguous(rows, row.graph),
         row.first = LastPosition(rows, row.graph) + 1, row.first <= row.last
  PROVE  /\ Contiguous(rows \cup EntriesOf(row), row.graph)
         /\ \A g : g # row.graph => PositionsOf(rows \cup EntriesOf(row), g) = PositionsOf(rows, g)
<1> DEFINE g0 == row.graph
           n  == LastPosition(rows, g0)
<1>1. PositionsOf(EntriesOf(row), g0) = row.first..row.last
  BY PositionsOfGroup
<1>2. n \in Nat /\ PositionsOf(rows, g0) = 1..n
  BY DEF Contiguous
<1>3. row.first \in Nat /\ row.last \in Nat /\ row.first = n + 1 /\ row.first <= row.last
  BY DEF GroupRow
<1>4. (1..n) \cup (row.first..row.last) = 1..row.last
  <2> HIDE DEF n
  <2>1. \A m, f, l \in Nat : (f = m + 1 /\ f <= l) => (1..m) \cup (f..l) = 1..l
    OBVIOUS
  <2> QED BY <1>2, <1>3, <2>1
<1>5. PositionsOf(rows \cup EntriesOf(row), g0) = 1..row.last
  <2>1. PositionsOf(rows \cup EntriesOf(row), g0)
          = PositionsOf(rows, g0) \cup PositionsOf(EntriesOf(row), g0)
    BY PositionsOfUnion
  <2> QED BY <1>1, <1>2, <1>4, <2>1
<1>6. LastPosition(rows \cup EntriesOf(row), g0) = row.last
  BY <1>3, <1>5, LastPositionIs
<1>7. ASSUME NEW g, g # g0
      PROVE  PositionsOf(rows \cup EntriesOf(row), g) = PositionsOf(rows, g)
  <2>1. \A e \in EntriesOf(row) : e.graph = g0
    BY DEF EntriesOf
  <2>2. PositionsOf(EntriesOf(row), g) = {}
    BY <1>7, <2>1 DEF PositionsOf
  <2>3. PositionsOf(rows \cup EntriesOf(row), g)
          = PositionsOf(rows, g) \cup PositionsOf(EntriesOf(row), g)
    BY PositionsOfUnion
  <2> QED BY <2>2, <2>3
<1> QED BY <1>3, <1>5, <1>6, <1>7 DEF Contiguous

\* What the type invariant says of one transaction.
LEMMA TxnTyped ==
  ASSUME TypeOK, NEW s \in Session
  PROVE  /\ txn[s].drafts \in Seq(Draft) /\ txn[s].legs \subseteq Graph /\ txn[s].swap \in Nat
         /\ txn[s].entries \subseteq EntryRow
         /\ txn[s].row \subseteq GroupRow /\ txn[s].groups \subseteq GroupRow
         /\ txn[s].drafts # <<>> => /\ NextGraph(s) \in Graph
                                   /\ Head(txn[s].drafts).size \in Nat \ {0}
                                   /\ Tail(txn[s].drafts) \in Seq(Draft)
<1>1. txn[s] \in Txn
  BY DEF TypeOK
<1>2. /\ txn[s].drafts \in Seq(Draft) /\ txn[s].legs \subseteq Graph /\ txn[s].swap \in Nat
      /\ txn[s].entries \subseteq EntryRow
      /\ txn[s].row \subseteq GroupRow /\ txn[s].groups \subseteq GroupRow
  BY <1>1 DEF Txn
<1>3. ASSUME txn[s].drafts # <<>>
      PROVE  Head(txn[s].drafts) \in Draft /\ Tail(txn[s].drafts) \in Seq(Draft)
  BY <1>2, <1>3
<1>4. \A d \in Draft : d.graph \in Graph /\ d.size \in Nat \ {0}
  BY BoundAssumption DEF Draft
<1> QED BY <1>2, <1>3, <1>4 DEF NextGraph

LEMMA RowsTyped ==
  /\ \A e \in EntryRow : e.graph \in Graph /\ e.position \in Nat \ {0}
  /\ \A r \in GroupRow : r.graph \in Graph /\ r.id \in Nat /\ r.first \in Nat /\ r.last \in Nat
BY DEF EntryRow, GroupRow

-----------------------------------------------------------------------------
LEMMA InitInv == Init => IInv
<1> SUFFICES ASSUME Init PROVE IInv
  OBVIOUS
<1>1. \A g \in Graph : Contiguous(entries, g) /\ LastPosition(entries, g) = 0
  <2> TAKE g \in Graph
  <2>1. PositionsOf(entries, g) = {}
    BY DEF Init, PositionsOf
  <2>2. LastPosition(entries, g) = 0
    BY <2>1 DEF LastPosition
  <2>3. 1..0 = {} /\ 0 \in Nat
    OBVIOUS
  <2> QED BY <2>1, <2>2, <2>3 DEF Contiguous
<1>2. \A s \in Session : txn[s] = IdleTxn
  BY DEF Init
<1>field. /\ IdleTxn.status = "idle" /\ IdleTxn.drafts = <<>> /\ IdleTxn.isolation = "read committed"
          /\ IdleTxn.view = {} /\ IdleTxn.swap = 0 /\ IdleTxn.legs = {} /\ IdleTxn.row = {}
          /\ IdleTxn.entries = {} /\ IdleTxn.groups = {}
  BY DEF IdleTxn, NoSwap
<1>3. TypeOK
  <2>1. <<>> \in Seq(Draft)
    OBVIOUS
  <2>2. IdleTxn \in Txn
    BY <2>1 DEF IdleTxn, Txn, Status, Isolation, NoSwap
  <2> QED BY <2>2 DEF Init, TypeOK
<1>4. GapFree /\ NeverRefused
  BY <1>1 DEF GapFree, NeverRefused, Init
<1>5. MarkerWithinLog
  <2>1. \A g \in Graph : marker[g] = 0
    BY DEF Init
  <2> QED BY <1>1, <2>1 DEF MarkerWithinLog
<1>6. UnderLock
  BY <1>2, <1>field DEF UnderLock
<1>7. Numbered
  <2>1. ASSUME NEW s \in Session, NEW g \in Graph PROVE lockOwner[g] # s
    BY SessionAssumption DEF Init
  <2>2. \A s \in Session : txn[s].row = {}
    BY <1>2, <1>field
  <2> QED BY <2>1, <2>2 DEF Numbered
<1>8. OneRowPerPosition
  BY <1>2, <1>field DEF OneRowPerPosition, OwnRows, Init
<1>9. GroupIdsUnique
  BY <1>2, <1>field DEF GroupIdsUnique, KnownGroups, Init
<1>10. RowsOfGroups
  BY <1>2, <1>field DEF RowsOfGroups, Settled, Init
<1> QED BY <1>3, <1>4, <1>5, <1>6, <1>7, <1>8, <1>9, <1>10 DEF IInv, AppendInv

(***************************************************************************)
(* A transaction begins: its own rows are empty.                           *)
(***************************************************************************)
LEMMA BeginInv ==
  ASSUME IInv, NEW s \in Session, NEW r,
         txn' = [txn EXCEPT ![s] = r],
         r \in Txn, r.status = "locking", r.drafts # <<>>,
         r.row = {}, r.entries = {}, r.groups = {},
         minted' \in Nat, minted <= minted',
         UNCHANGED <<entries, groups, marker, lockOwner, refused>>
  PROVE  IInv'
<1> USE DEF IInv, AppendInv
<1>1. TypeOK'
  BY DEF TypeOK
<1>2. /\ txn'[s] = r
      /\ \A o \in Session \ {s} : txn'[o] = txn[o]
  BY DEF TypeOK
<1>3. GapFree' /\ NeverRefused' /\ MarkerWithinLog'
  BY ZenonT(60) DEF GapFree, NeverRefused, MarkerWithinLog, Contiguous, LastPosition, PositionsOf
<1>4. UnderLock'
  BY ZenonT(60), <1>2 DEF UnderLock, NextGraph
<1>5. /\ OwnRows(s)' = entries
      /\ \A o \in Session \ {s} : OwnRows(o)' = OwnRows(o)
  BY <1>2 DEF OwnRows
<1>6. Numbered'
  <2>1. ASSUME NEW o \in Session, NEW g \in Graph, lockOwner[g] = o
        PROVE  Contiguous(OwnRows(o)', g)
    BY <1>5, <2>1 DEF Numbered, GapFree
  <2>2. ASSUME NEW o \in Session, NEW row \in txn'[o].row
        PROVE  /\ txn'[o].status = "numbered"
               /\ row.graph = NextGraph(o)'
               /\ row.first = LastPosition(OwnRows(o)', row.graph) + 1
               /\ row.first <= row.last
    <3>1. o # s
      BY <1>2, <2>2
    <3> QED BY <1>2, <1>5, <2>2, <3>1 DEF Numbered, NextGraph
  <2> QED BY <2>1, <2>2 DEF Numbered
<1>7. OneRowPerPosition'
  BY <1>5 DEF OneRowPerPosition, OwnRows
<1>8. KnownGroups' \subseteq KnownGroups
  BY <1>2 DEF KnownGroups
<1>9. GroupIdsUnique'
  <2>1. \A a \in KnownGroups : a.id \in Nat
    BY TxnTyped, RowsTyped DEF KnownGroups, TypeOK
  <2> QED BY <1>8, <2>1 DEF GroupIdsUnique, TypeOK
<1>10. RowsOfGroups'
  BY <1>2 DEF RowsOfGroups, Settled, EntriesOf
<1> QED BY <1>1, <1>3, <1>4, <1>6, <1>7, <1>9, <1>10

(***************************************************************************)
(* Steps that touch neither the rows nor the lock owners' own rows: only   *)
(* the status of one transaction, its numbered row and the lock move.      *)
(***************************************************************************)
LEMMA LockGraphInv ==
  ASSUME IInv, NEW s \in Session, LockGraph(s)
  PROVE  IInv'
<1> USE DEF IInv, AppendInv
<1> DEFINE g0 == NextGraph(s)
           st == IF IsolationAccepted(s) THEN "locked" ELSE "raised"
<1>1. /\ txn[s].status = "locking" /\ lockOwner[g0] \in {NoSession, s}
      /\ lockOwner' = [lockOwner EXCEPT ![g0] = s]
      /\ txn' = [txn EXCEPT ![s].status = st]
      /\ UNCHANGED <<entries, groups, marker, minted, refused>>
  BY DEF LockGraph, LockGranted
<1>2. txn[s].drafts # <<>> /\ txn[s].drafts \in Seq(Draft) /\ g0 \in Graph
  BY <1>1, TxnTyped DEF UnderLock
<1>3. st \in {"locked", "raised"} /\ (st = "locked" => txn[s].isolation = "read committed")
  BY DEF IsolationAccepted
<1> HIDE DEF st, g0
<1>4. /\ \A o \in Session : /\ txn'[o].drafts = txn[o].drafts /\ txn'[o].isolation = txn[o].isolation
                           /\ txn'[o].view = txn[o].view /\ txn'[o].swap = txn[o].swap
                           /\ txn'[o].legs = txn[o].legs /\ txn'[o].row = txn[o].row
                           /\ txn'[o].entries = txn[o].entries /\ txn'[o].groups = txn[o].groups
                           /\ NextGraph(o)' = NextGraph(o) /\ OwnRows(o)' = OwnRows(o)
      /\ \A o \in Session \ {s} : txn'[o].status = txn[o].status
      /\ txn'[s].status = st
  BY <1>1 DEF TypeOK, Txn, NextGraph, OwnRows
<1>5. TypeOK'
  <2>1. st \in Status
    BY <1>3 DEF Status
  <2>2. txn \in [Session -> Txn]
    BY DEF TypeOK
  <2>3. [txn[s] EXCEPT !.status = st] \in Txn
    BY <2>1, <2>2 DEF Txn
  <2>4. txn' = [txn EXCEPT ![s] = [txn[s] EXCEPT !.status = st]]
    BY <1>1, <2>2
  <2>5. txn' \in [Session -> Txn]
    BY <2>2, <2>3, <2>4
  <2> QED BY <1>1, <2>5 DEF TypeOK
<1>6. GapFree' /\ NeverRefused' /\ MarkerWithinLog'
  BY <1>1 DEF GapFree, NeverRefused, MarkerWithinLog
<1>7. \A o \in Session \ {s} : \A g \in Graph : lockOwner'[g] = o <=> lockOwner[g] = o
  BY <1>1, <1>2, SessionAssumption DEF TypeOK
<1>8. UnderLock'
  <2>1. \A o \in Session : \A e \in txn[o].entries : lockOwner'[e.graph] = o
    <3>1. \A o \in Session : \A e \in txn[o].entries : e.graph \in Graph /\ lockOwner[e.graph] = o
      BY TxnTyped, RowsTyped DEF UnderLock
    <3> QED BY <1>1, <1>2, <1>7, <3>1 DEF TypeOK
  <2>2. lockOwner'[g0] = s
    BY <1>1, <1>2 DEF TypeOK
  <2>3. \A o \in Session \ {s} : txn[o].status \in {"locked", "numbered"} => lockOwner'[NextGraph(o)] = o
    <3>1. ASSUME NEW o \in Session \ {s}, txn[o].status \in {"locked", "numbered"}
          PROVE  NextGraph(o) \in Graph /\ lockOwner[NextGraph(o)] = o
      BY <3>1, TxnTyped DEF UnderLock
    <3> QED BY <1>7, <3>1
  <2>4. ASSUME NEW o \in Session
        PROVE  /\ txn'[o].status \in {"locking", "locked", "numbered"} => txn'[o].drafts # <<>>
               /\ txn'[o].status \in {"locked", "numbered"} =>
                    lockOwner'[NextGraph(o)'] = o /\ txn'[o].isolation = "read committed"
    <3>1. CASE o = s
      BY <1>2, <1>3, <1>4, <2>2, <3>1 DEF g0
    <3>2. CASE o # s
      <4>1. /\ txn'[o].status = txn[o].status /\ txn'[o].drafts = txn[o].drafts
            /\ txn'[o].isolation = txn[o].isolation /\ NextGraph(o)' = NextGraph(o)
        BY <1>4, <3>2
      <4>2. txn[o].status \in {"locked", "numbered"} => lockOwner'[NextGraph(o)] = o
        BY <2>3, <3>2
      <4> QED BY <4>1, <4>2 DEF UnderLock
    <3> QED BY <3>1, <3>2
  <2>5. \A o \in Session : \A e \in txn'[o].entries : lockOwner'[e.graph] = o
    BY <1>4, <2>1
  <2> QED BY <2>4, <2>5 DEF UnderLock
<1>9. Numbered'
  <2>1. ASSUME NEW g \in Graph, lockOwner'[g] = s PROVE Contiguous(OwnRows(s), g)
    <3>1. CASE lockOwner[g] = s
      BY <3>1 DEF Numbered
    <3>2. CASE lockOwner[g] # s
      <4>0. {e \in txn[s].entries : e.graph = g} = {}
        BY <3>2 DEF UnderLock
      <4>1. PositionsOf(txn[s].entries, g) = {}
        BY <4>0 DEF PositionsOf
      <4>2. PositionsOf(OwnRows(s), g) = PositionsOf(entries, g) \cup PositionsOf(txn[s].entries, g)
        BY PositionsOfUnion DEF OwnRows
      <4>3. Contiguous(entries, g) /\ PositionsOf(OwnRows(s), g) = PositionsOf(entries, g)
        BY <4>1, <4>2 DEF GapFree
      <4> QED BY <4>3, LastPositionOfGraph DEF Contiguous
    <3> QED BY <3>1, <3>2
  <2>2. ASSUME NEW row \in txn[s].row PROVE FALSE
    BY <1>1, <2>2 DEF Numbered
  <2> QED BY <1>4, <1>7, <2>1, <2>2 DEF Numbered
<1>10. OneRowPerPosition' /\ GroupIdsUnique'
  BY <1>1, <1>4 DEF OneRowPerPosition, GroupIdsUnique, KnownGroups
<1>11. RowsOfGroups'
  BY ZenonT(60), <1>1, <1>3, <1>4 DEF RowsOfGroups, Settled
<1> QED BY <1>5, <1>6, <1>8, <1>9, <1>10, <1>11

(***************************************************************************)
(* The group row takes the position after the last one the transaction     *)
(* sees, and a fresh id.                                                   *)
(***************************************************************************)
LEMMA InsertGroupRowInv ==
  ASSUME IInv, NEW s \in Session, InsertGroupRow(s)
  PROVE  IInv'
<1> USE DEF IInv, AppendInv
<1> DEFINE g0   == NextGraph(s)
           n    == LastPosition(Visible(s), g0)
           row0 == [id |-> minted + 1, graph |-> g0, first |-> n + 1,
                    last |-> n + Head(txn[s].drafts).size, swap |-> txn[s].swap]
<1>1. /\ txn[s].status = "locked" /\ minted' = minted + 1
      /\ txn' = [txn EXCEPT ![s].status = "numbered", ![s].row = {row0}]
      /\ UNCHANGED <<entries, groups, marker, lockOwner, refused>>
  BY DEF InsertGroupRow
<1>2. /\ txn[s].drafts # <<>> /\ lockOwner[g0] = s /\ txn[s].isolation = "read committed"
      /\ g0 \in Graph /\ Head(txn[s].drafts).size \in Nat \ {0} /\ txn[s].swap \in Nat
  BY <1>1, TxnTyped DEF UnderLock
<1>3. Visible(s) = OwnRows(s)
  BY <1>2 DEF Visible, OwnRows
<1>4. n \in Nat
  BY <1>2, <1>3 DEF Numbered, Contiguous
<1>5. /\ row0.id = minted + 1 /\ row0.graph = g0 /\ row0.first = LastPosition(OwnRows(s), g0) + 1
      /\ row0.first <= row0.last /\ row0 \in GroupRow
  <2> DEFINE last0 == n + Head(txn[s].drafts).size
  <2>1. /\ n + 1 \in Nat \ {0} /\ last0 \in Nat \ {0} /\ n + 1 <= last0
        /\ minted + 1 \in Nat \ {0}
    <3> HIDE DEF n, g0
    <3>1. n \in Nat /\ Head(txn[s].drafts).size \in Nat \ {0} /\ minted \in Nat
      BY <1>2, <1>4 DEF TypeOK
    <3>2. \A m \in Nat, z \in Nat \ {0} : m + 1 \in Nat \ {0} /\ m + z \in Nat \ {0} /\ m + 1 <= m + z
      OBVIOUS
    <3> QED BY <3>1, <3>2
  <2>2. n = LastPosition(OwnRows(s), g0)
    BY <1>3
  <2> HIDE DEF last0, n, g0
  <2>3. /\ row0.id = minted + 1 /\ row0.graph = g0 /\ row0.first = n + 1 /\ row0.last = last0
        /\ row0.swap = txn[s].swap
    BY DEF last0
  <2>4. row0 \in GroupRow
    BY <1>2, <2>1 DEF GroupRow, last0
  <2> QED BY <2>1, <2>2, <2>3, <2>4
<1> HIDE DEF row0, n, g0
<1>7. /\ \A o \in Session : /\ txn'[o].drafts = txn[o].drafts /\ txn'[o].isolation = txn[o].isolation
                           /\ txn'[o].entries = txn[o].entries /\ txn'[o].groups = txn[o].groups
                           /\ NextGraph(o)' = NextGraph(o) /\ OwnRows(o)' = OwnRows(o)
      /\ \A o \in Session \ {s} : txn'[o].status = txn[o].status /\ txn'[o].row = txn[o].row
      /\ txn'[s].status = "numbered" /\ txn'[s].row = {row0}
  BY <1>1 DEF TypeOK, Txn, NextGraph, OwnRows
<1>8. TypeOK'
  <2>1. [txn[s] EXCEPT !.status = "numbered", !.row = {row0}] \in Txn
    BY ZenonT(60), <1>5 DEF TypeOK, Txn, Status
  <2>2. txn' = [txn EXCEPT ![s] = [txn[s] EXCEPT !.status = "numbered", !.row = {row0}]]
    BY <1>1 DEF TypeOK, Txn
  <2>3. txn' \in [Session -> Txn]
    BY <2>1, <2>2 DEF TypeOK
  <2> QED BY <1>1, <2>3 DEF TypeOK
<1>9. GapFree' /\ NeverRefused' /\ MarkerWithinLog'
  BY <1>1 DEF GapFree, NeverRefused, MarkerWithinLog
<1>10. UnderLock'
  <2>1. ASSUME NEW o \in Session \ {s}
        PROVE  /\ txn'[o].status = txn[o].status /\ txn'[o].drafts = txn[o].drafts
               /\ txn'[o].isolation = txn[o].isolation /\ NextGraph(o)' = NextGraph(o)
    BY <1>7
  <2>2. \A o \in Session : \A e \in txn'[o].entries : lockOwner'[e.graph] = o
    BY ZenonT(60), <1>1, <1>7 DEF UnderLock
  <2>3. /\ txn'[s].drafts # <<>> /\ lockOwner'[NextGraph(s)'] = s /\ txn'[s].isolation = "read committed"
    BY <1>1, <1>2, <1>7 DEF g0
  <2>4. ASSUME NEW o \in Session
        PROVE  /\ txn'[o].status \in {"locking", "locked", "numbered"} => txn'[o].drafts # <<>>
               /\ txn'[o].status \in {"locked", "numbered"} =>
                    lockOwner'[NextGraph(o)'] = o /\ txn'[o].isolation = "read committed"
    BY ZenonT(60), <1>1, <2>1, <2>3 DEF UnderLock
  <2> QED BY <2>2, <2>4 DEF UnderLock
<1>11. Numbered'
  <2>1. ASSUME NEW o \in Session, NEW row \in txn'[o].row
        PROVE  /\ txn'[o].status = "numbered"
               /\ row.graph = NextGraph(o)'
               /\ row.first = LastPosition(OwnRows(o)', row.graph) + 1
               /\ row.first <= row.last
    <3>1. CASE o = s
      BY <1>5, <1>7, <2>1, <3>1 DEF g0
    <3>2. CASE o # s
      BY <1>7, <2>1, <3>2 DEF Numbered
    <3> QED BY <3>1, <3>2
  <2> QED BY ZenonT(60), <1>1, <1>7, <2>1 DEF Numbered
<1>12. OneRowPerPosition'
  BY <1>1, <1>7 DEF OneRowPerPosition
<1>13. GroupIdsUnique'
  <2>1. KnownGroups' \subseteq KnownGroups \cup {row0}
    <3>1. \A o \in Session : txn'[o].row \subseteq txn[o].row \cup {row0} /\ txn'[o].groups = txn[o].groups
      BY <1>7
    <3>2. ASSUME NEW a \in KnownGroups' PROVE a \in KnownGroups \cup {row0}
      <4>1. a \in groups' \/ \E o \in Session : a \in txn'[o].groups \cup txn'[o].row
        BY <3>2 DEF KnownGroups
      <4>2. CASE a \in groups'
        BY <1>1, <4>2 DEF KnownGroups
      <4>3. ASSUME NEW o \in Session, a \in txn'[o].groups \cup txn'[o].row
            PROVE  a \in KnownGroups \cup {row0}
        BY <3>1, <4>3 DEF KnownGroups
      <4> QED BY <4>1, <4>2, <4>3
    <3> QED BY <3>2
  <2>2. \A a \in KnownGroups : a.id \in Nat /\ a.id <= minted
    BY TxnTyped, RowsTyped DEF KnownGroups, GroupIdsUnique, TypeOK
  <2> QED BY <1>1, <1>5, <2>1, <2>2 DEF GroupIdsUnique, TypeOK
<1>14. RowsOfGroups'
  BY ZenonT(60), <1>1, <1>7 DEF RowsOfGroups, Settled
<1> QED BY <1>8, <1>9, <1>10, <1>11, <1>12, <1>13, <1>14

(***************************************************************************)
(* The group's rows take positions no row of the graph has.                *)
(***************************************************************************)
LEMMA FreshPositions ==
  ASSUME NEW rows, NEW row \in GroupRow, Contiguous(rows, row.graph),
         row.first = LastPosition(rows, row.graph) + 1
  PROVE  \A e \in EntriesOf(row) :
           /\ e.graph = row.graph /\ e.position \in row.first..row.last /\ e.group = row.id
           /\ \A r \in rows : r.graph = e.graph => r.position # e.position
<1>1. ASSUME NEW e \in EntriesOf(row)
      PROVE  e.graph = row.graph /\ e.position \in row.first..row.last /\ e.group = row.id
  BY DEF EntriesOf
<1>2. ASSUME NEW r \in rows, r.graph = row.graph
      PROVE  r.position \in 1..LastPosition(rows, row.graph)
  BY <1>2 DEF PositionsOf, Contiguous
<1>3. \A p \in row.first..row.last : p \notin 1..LastPosition(rows, row.graph)
  BY RowsTyped DEF Contiguous
<1> QED BY <1>1, <1>2, <1>3

LEMMA EntriesOfTyped ==
  ASSUME NEW row \in GroupRow
  PROVE  EntriesOf(row) \subseteq EntryRow
BY DEF EntriesOf, EntryRow, GroupRow

LEMMA InsertEntriesInv ==
  ASSUME IInv, NEW s \in Session, InsertEntries(s)
  PROVE  IInv'
<1> USE DEF IInv, AppendInv
<1> PICK row \in txn[s].row :
      LET accepted == EntriesNextPosition(s, row) /\ ~Collides(EntriesOf(row), entries)
          open     == IF Len(txn[s].drafts) = 1 THEN "appended" ELSE "locking"
      IN  /\ ~Collides(EntriesOf(row), InFlight(s))
          /\ refused' = (refused \/ ~accepted)
          /\ txn' = IF accepted
                    THEN [txn EXCEPT ![s].status = open,
                                     ![s].drafts = Tail(@),
                                     ![s].row = {},
                                     ![s].entries = @ \cup EntriesOf(row),
                                     ![s].groups = @ \cup {row}]
                    ELSE [txn EXCEPT ![s].status = "raised", ![s].row = {}]
  BY DEF InsertEntries
<1> DEFINE st == IF Len(txn[s].drafts) = 1 THEN "appended" ELSE "locking"
<1>1. /\ txn[s].status = "numbered" /\ UNCHANGED <<entries, groups, marker, lockOwner, minted>>
  BY DEF InsertEntries
<1>2. /\ row \in GroupRow /\ row.graph = NextGraph(s) /\ row.first <= row.last
      /\ row.first = LastPosition(OwnRows(s), row.graph) + 1
      /\ txn[s].drafts # <<>> /\ Tail(txn[s].drafts) \in Seq(Draft)
      /\ txn[s].drafts \in Seq(Draft) /\ NextGraph(s) \in Graph
  BY <1>1, TxnTyped DEF Numbered, UnderLock
<1>3. lockOwner[row.graph] = s /\ Contiguous(OwnRows(s), row.graph) /\ Visible(s) = OwnRows(s)
  BY ZenonT(60), <1>1, <1>2 DEF UnderLock, Numbered, Visible, OwnRows
<1>4. \A e \in EntriesOf(row) :
        /\ e.graph = row.graph /\ e.position \in row.first..row.last /\ e.group = row.id
        /\ \A r \in OwnRows(s) : r.graph = e.graph => r.position # e.position
  BY ZenonT(60), <1>2, <1>3, FreshPositions
<1>5. EntriesNextPosition(s, row) /\ ~Collides(EntriesOf(row), entries)
  BY <1>2, <1>3, <1>4 DEF EntriesNextPosition, Collides, OwnRows
<1>6. /\ refused' = refused
      /\ txn' = [txn EXCEPT ![s].status = st, ![s].drafts = Tail(txn[s].drafts), ![s].row = {},
                            ![s].entries = txn[s].entries \cup EntriesOf(row),
                            ![s].groups = txn[s].groups \cup {row}]
  BY <1>5 DEF TypeOK
<1>7. st \in {"appended", "locking"} /\ (st = "locking" => Tail(txn[s].drafts) # <<>>)
  <2>1. \A q \in Seq(Draft) : (q # <<>> /\ Len(q) # 1) => Tail(q) # <<>>
    <3> SUFFICES ASSUME NEW q \in Seq(Draft), q # <<>>, Len(q) # 1 PROVE Len(Tail(q)) # 0
      BY EmptySeq
    <3>1. Len(q) \in Nat \ {0, 1}
      BY EmptySeq
    <3> QED BY <3>1
  <2> QED BY <1>2, <2>1
<1> DEFINE new == [txn[s] EXCEPT !.status = st, !.drafts = Tail(txn[s].drafts), !.row = {},
                                 !.entries = txn[s].entries \cup EntriesOf(row),
                                 !.groups = txn[s].groups \cup {row}]
<1> HIDE DEF st
<1>8. /\ txn' = [txn EXCEPT ![s] = new] /\ new \in Txn
      /\ new.status = st /\ new.drafts = Tail(txn[s].drafts) /\ new.row = {}
      /\ new.entries = txn[s].entries \cup EntriesOf(row) /\ new.groups = txn[s].groups \cup {row}
  <2>1. txn[s] \in Txn /\ st \in Status
    BY <1>7 DEF TypeOK, Status
  <2>2. txn' = [txn EXCEPT ![s] = new]
    BY <1>6 DEF TypeOK
  <2>3. new \in Txn
    BY <1>2, <2>1, EntriesOfTyped DEF Txn
  <2>4. /\ new.status = st /\ new.drafts = Tail(txn[s].drafts) /\ new.row = {}
        /\ new.entries = txn[s].entries \cup EntriesOf(row) /\ new.groups = txn[s].groups \cup {row}
    BY <2>1 DEF Txn
  <2> QED BY <2>2, <2>3, <2>4
<1> HIDE DEF new
<1>9. txn'[s] = new /\ \A o \in Session \ {s} : txn'[o] = txn[o]
  BY <1>8 DEF TypeOK
<1>10. /\ OwnRows(s)' = OwnRows(s) \cup EntriesOf(row)
       /\ \A o \in Session \ {s} : OwnRows(o)' = OwnRows(o) /\ NextGraph(o)' = NextGraph(o)
  BY <1>1, <1>8, <1>9 DEF OwnRows, NextGraph
<1>11. TypeOK'
  <2>1. txn' \in [Session -> Txn]
    BY <1>8 DEF TypeOK
  <2> QED BY <1>1, <1>6, <2>1 DEF TypeOK
<1>12. GapFree' /\ NeverRefused' /\ MarkerWithinLog'
  BY <1>1, <1>6 DEF GapFree, NeverRefused, MarkerWithinLog
<1>13. UnderLock'
  <2>1. ASSUME NEW o \in Session
        PROVE  /\ txn'[o].status \in {"locking", "locked", "numbered"} => txn'[o].drafts # <<>>
               /\ txn'[o].status \in {"locked", "numbered"} =>
                    lockOwner'[NextGraph(o)'] = o /\ txn'[o].isolation = "read committed"
    <3>1. CASE o = s
      BY <1>7, <1>8, <1>9, <3>1
    <3>2. CASE o # s
      <4>1. txn'[o] = txn[o] /\ NextGraph(o)' = NextGraph(o) /\ lockOwner' = lockOwner
        BY <1>1, <1>9, <1>10, <3>2
      <4> QED BY <4>1 DEF UnderLock
    <3> QED BY <3>1, <3>2
  <2>2. ASSUME NEW o \in Session, NEW e \in txn'[o].entries
        PROVE  lockOwner'[e.graph] = o
    <3>1. CASE e \in txn[o].entries
      BY <1>1, <3>1 DEF UnderLock
    <3>2. CASE e \notin txn[o].entries
      <4>1. o = s /\ e \in EntriesOf(row)
        BY <1>8, <1>9, <2>2, <3>2
      <4> QED BY <1>1, <1>3, <1>4, <4>1
    <3> QED BY <3>1, <3>2
  <2> QED BY ZenonT(60), <2>1, <2>2 DEF UnderLock
<1>14. Numbered'
  <2>1. ASSUME NEW g \in Graph, lockOwner[g] = s
        PROVE  Contiguous(OwnRows(s)', g)
    <3>1. CASE g = row.graph
      <4>1. Contiguous(OwnRows(s) \cup EntriesOf(row), row.graph)
        BY <1>2, <1>3, AppendKeepsContiguous
      <4> QED BY <1>10, <3>1, <4>1
    <3>2. CASE g # row.graph
      <4>1. PositionsOf(OwnRows(s) \cup EntriesOf(row), g) = PositionsOf(OwnRows(s), g)
        BY <1>2, <1>3, <3>2, AppendKeepsContiguous
      <4>2. Contiguous(OwnRows(s), g)
        BY <2>1 DEF Numbered
      <4> QED BY <1>10, <4>1, <4>2, LastPositionOfGraph DEF Contiguous
    <3> QED BY <3>1, <3>2
  <2>2. ASSUME NEW o \in Session \ {s}, NEW r \in txn'[o].row
        PROVE  /\ txn'[o].status = "numbered"
               /\ r.graph = NextGraph(o)'
               /\ r.first = LastPosition(OwnRows(o)', r.graph) + 1
               /\ r.first <= r.last
    BY ZenonT(60), <1>9, <1>10, <2>2 DEF Numbered
  <2>3. txn'[s].row = {}
    BY <1>8, <1>9
  <2> QED BY <1>1, <1>10, <2>1, <2>2, <2>3 DEF Numbered
<1>15. OneRowPerPosition'
  <2>1. ASSUME NEW a \in OwnRows(s)', NEW b \in OwnRows(s)', a.graph = b.graph, a.position = b.position
        PROVE  a = b
    <3>1. CASE a \in OwnRows(s) /\ b \in OwnRows(s)
      BY <2>1, <3>1 DEF OneRowPerPosition
    <3>2. CASE a \in EntriesOf(row) /\ b \in EntriesOf(row)
      <4> DEFINE r(p) == [graph |-> row.graph, position |-> p, group |-> row.id]
      <4>1. PICK p \in row.first..row.last, q \in row.first..row.last : a = r(p) /\ b = r(q)
        BY <3>2 DEF EntriesOf
      <4>2. a.position = p /\ b.position = q
        BY <4>1
      <4> QED BY <2>1, <4>1, <4>2
    <3>3. ~(a \in OwnRows(s) /\ b \in EntriesOf(row)) /\ ~(b \in OwnRows(s) /\ a \in EntriesOf(row))
      BY <1>4, <2>1
    <3> QED BY <1>10, <3>1, <3>2, <3>3
  <2> QED BY SMTT(60), <1>10, <2>1 DEF OneRowPerPosition
<1>16. GroupIdsUnique'
  <2>1. ASSUME NEW a \in KnownGroups' PROVE a \in KnownGroups
    <3>1. a \in groups' \/ \E o \in Session : a \in txn'[o].groups \cup txn'[o].row
      BY ZenonT(60) DEF KnownGroups
    <3>2. CASE a \in groups'
      BY <1>1, <3>2 DEF KnownGroups
    <3>3. ASSUME NEW o \in Session, a \in txn'[o].groups \cup txn'[o].row
          PROVE  a \in txn[o].groups \cup txn[o].row
      BY <1>8, <1>9, <3>3
    <3> QED BY ZenonT(60), <3>1, <3>2, <3>3 DEF KnownGroups
  <2> QED BY SMTT(60), <1>1, <2>1 DEF GroupIdsUnique
<1>17. RowsOfGroups'
  <2>1. txn[s].entries = UNION {EntriesOf(r) : r \in txn[s].groups}
    BY <1>1 DEF RowsOfGroups, Settled
  <2>2. UNION {EntriesOf(r) : r \in txn[s].groups \cup {row}}
          = (UNION {EntriesOf(r) : r \in txn[s].groups}) \cup EntriesOf(row)
    OBVIOUS
  <2>3. txn'[s].entries = UNION {EntriesOf(r) : r \in txn'[s].groups}
    BY <1>8, <1>9, <2>1, <2>2
  <2> QED BY <1>1, <1>9, <2>3 DEF RowsOfGroups, Settled
<1> QED BY <1>11, <1>12, <1>13, <1>14, <1>15, <1>16, <1>17

(***************************************************************************)
(* A transaction ends: its rows P and groups G become visible (all of them *)
(* at a commit, none at a rollback) and its locks are released.            *)
(***************************************************************************)
LEMMA EndInv ==
  ASSUME IInv, NEW s \in Session, NEW new \in Txn, NEW P, NEW G,
         \/ P = txn[s].entries /\ G = txn[s].groups
         \/ P = {} /\ G = {},
         P = UNION {EntriesOf(r) : r \in G},
         txn' = [txn EXCEPT ![s] = new], new.status \in {"done", "failed"},
         new.row = {}, new.entries = {}, new.groups \subseteq txn[s].groups,
         entries' = entries \cup P, groups' = groups \cup G, ReleaseLocks(s),
         UNCHANGED <<marker, minted, refused>>
  PROVE  IInv'
<1> USE DEF IInv, AppendInv
<1>a. \A o \in Session : \A e \in txn[o].entries : lockOwner[e.graph] = o
  BY DEF UnderLock
<1>b. \A o \in Session : txn[o].status \in {"locked", "numbered"} =>
        /\ lockOwner[NextGraph(o)] = o /\ txn[o].isolation = "read committed"
        /\ NextGraph(o) \in Graph
  BY TxnTyped DEF UnderLock
<1>1. txn'[s] = new /\ \A o \in Session \ {s} : txn'[o] = txn[o]
  BY DEF TypeOK
<1>2. \A o \in Session \ {s} : NextGraph(o)' = NextGraph(o) /\ OwnRows(o)' = OwnRows(o) \cup P
  BY <1>1 DEF NextGraph, OwnRows
<1>3. /\ \A g \in Graph : lockOwner'[g] # s
      /\ \A g \in Graph, o \in Session \ {s} : lockOwner'[g] = o <=> lockOwner[g] = o
  BY SessionAssumption DEF ReleaseLocks
<1>4. P \subseteq txn[s].entries /\ P \subseteq EntryRow /\ G \subseteq txn[s].groups /\ G \subseteq GroupRow
  BY TxnTyped
<1>5. TypeOK'
  <2>1. txn' \in [Session -> Txn] /\ entries' \subseteq EntryRow /\ groups' \subseteq GroupRow
    BY <1>4 DEF TypeOK
  <2>2. lockOwner' \in [Graph -> Session \cup {NoSession}]
    BY DEF TypeOK, ReleaseLocks
  <2> QED BY <2>1, <2>2 DEF TypeOK
<1>6. ASSUME NEW rows, NEW g \in Graph, lockOwner[g] # s
      PROVE  PositionsOf(rows \cup P, g) = PositionsOf(rows, g)
  <2>1. {e \in P : e.graph = g} = {}
    BY <1>a, <1>4, <1>6
  <2>2. PositionsOf(P, g) = {}
    BY <2>1 DEF PositionsOf
  <2>3. PositionsOf(rows \cup P, g) = PositionsOf(rows, g) \cup PositionsOf(P, g)
    BY PositionsOfUnion
  <2> QED BY <2>2, <2>3
<1>7. ASSUME NEW rows, NEW g \in Graph, lockOwner[g] # s
      PROVE  /\ LastPosition(rows \cup P, g) = LastPosition(rows, g)
             /\ Contiguous(rows, g) => Contiguous(rows \cup P, g)
  BY <1>6, <1>7, LastPositionOfGraph DEF Contiguous
<1>8. ASSUME NEW g \in Graph PROVE Contiguous(entries', g)
  <2>1. Contiguous(entries, g)
    BY DEF GapFree
  <2>2. CASE P = {}
    <3>1. entries' = entries
      BY <2>2
    <3> QED BY <2>1, <3>1
  <2>3. CASE P = txn[s].entries /\ lockOwner[g] = s
    <3>1. entries' = OwnRows(s)
      BY <2>3 DEF OwnRows
    <3>2. Contiguous(OwnRows(s), g)
      BY <2>3 DEF Numbered
    <3> QED BY <3>1, <3>2
  <2>4. CASE lockOwner[g] # s
    BY <1>7, <2>1, <2>4
  <2> QED BY <2>2, <2>3, <2>4
<1>9. GapFree'
  <2>1. \A a, b \in entries' : (a.graph = b.graph /\ a.position = b.position) => a = b
    BY <1>4 DEF OneRowPerPosition, OwnRows
  <2> QED BY <1>8, <2>1 DEF GapFree
<1>10. MarkerWithinLog'
  <2>1. ASSUME NEW g \in Graph PROVE marker[g] <= LastPosition(entries', g)
    <3> DEFINE n == LastPosition(entries, g)
               m == LastPosition(entries', g)
    <3>1. n \in Nat /\ m \in Nat /\ PositionsOf(entries, g) = 1..n /\ PositionsOf(entries', g) = 1..m
      BY <1>8 DEF GapFree, Contiguous
    <3>2. PositionsOf(entries, g) \subseteq PositionsOf(entries', g)
      BY DEF PositionsOf
    <3>3. marker[g] \in Nat /\ marker[g] <= n
      BY DEF TypeOK, MarkerWithinLog
    <3> HIDE DEF n, m
    <3>4. \A k \in Nat : k <= n => k <= m
      BY <3>1, <3>2
    <3> QED BY <3>3, <3>4 DEF m
  <2> QED BY <2>1 DEF MarkerWithinLog
<1>11. UnderLock'
  <2>1. ASSUME NEW o \in Session \ {s}
        PROVE  \A e \in txn[o].entries : e.graph \in Graph
    BY TxnTyped, RowsTyped
  <2>2. ASSUME NEW o \in Session \ {s}
        PROVE  /\ txn'[o].status \in {"locking", "locked", "numbered"} => txn'[o].drafts # <<>>
               /\ txn'[o].status \in {"locked", "numbered"} =>
                    lockOwner'[NextGraph(o)'] = o /\ txn'[o].isolation = "read committed"
               /\ \A e \in txn'[o].entries : lockOwner'[e.graph] = o
    <3>1. txn'[o] = txn[o] /\ NextGraph(o)' = NextGraph(o)
      BY <1>1, <1>2
    <3>2. txn[o].status \in {"locking", "locked", "numbered"} => txn[o].drafts # <<>>
      BY DEF UnderLock
    <3>3. \A e \in txn[o].entries : lockOwner'[e.graph] = o
      BY <1>a, <1>3, <2>1
    <3>4. txn[o].status \in {"locked", "numbered"} => lockOwner'[NextGraph(o)] = o
      BY ZenonT(60), <1>b, <1>3
    <3> QED BY <1>b, <3>1, <3>2, <3>3, <3>4
  <2>3. txn'[s].status \in {"done", "failed"} /\ txn'[s].entries = {}
    BY <1>1
  <2> QED BY <2>2, <2>3 DEF UnderLock
<1>12. Numbered'
  <2>1. ASSUME NEW o \in Session \ {s}, NEW g \in Graph, lockOwner'[g] = o
        PROVE  Contiguous(OwnRows(o)', g)
    <3>1. lockOwner[g] = o /\ lockOwner[g] # s
      BY <1>3, <2>1
    <3>2. Contiguous(OwnRows(o), g)
      BY <3>1 DEF Numbered
    <3> QED BY <1>2, <1>7, <3>1, <3>2
  <2>2. ASSUME NEW o \in Session \ {s}, NEW r \in txn'[o].row
        PROVE  /\ txn'[o].status = "numbered"
               /\ r.graph = NextGraph(o)'
               /\ r.first = LastPosition(OwnRows(o)', r.graph) + 1
               /\ r.first <= r.last
    <3>1. /\ r \in txn[o].row /\ txn[o].status = "numbered" /\ r.graph = NextGraph(o)
          /\ r.first = LastPosition(OwnRows(o), r.graph) + 1 /\ r.first <= r.last
      BY <1>1, <2>2 DEF Numbered
    <3>2. r.graph \in Graph /\ lockOwner[r.graph] # s
      BY ZenonT(60), <1>b, <3>1
    <3>3. LastPosition(OwnRows(o)', r.graph) = LastPosition(OwnRows(o), r.graph)
      BY <1>2, <1>7, <3>2
    <3> QED BY <1>1, <1>2, <3>1, <3>3
  <2>3. txn'[s].row = {} /\ \A g \in Graph : lockOwner'[g] # s
    BY <1>1, <1>3
  <2> QED BY <2>1, <2>2, <2>3 DEF Numbered
<1>13. OneRowPerPosition'
  <2>1. ASSUME NEW o \in Session \ {s}, NEW a \in OwnRows(o)', NEW b \in OwnRows(o)',
               a.graph = b.graph, a.position = b.position
        PROVE  a = b
    <3>1. a \in OwnRows(o) \cup P /\ b \in OwnRows(o) \cup P
      BY <1>2
    <3>2. CASE a \in OwnRows(o) /\ b \in OwnRows(o)
      BY <2>1, <3>2 DEF OneRowPerPosition
    <3>3. CASE a \in OwnRows(s) /\ b \in OwnRows(s)
      BY <2>1, <3>3 DEF OneRowPerPosition
    <3>4. \A e \in P, f \in txn[o].entries : e.graph # f.graph
      BY <1>a, <1>4
    <3> QED BY <1>4, <2>1, <3>1, <3>2, <3>3, <3>4 DEF OwnRows
  <2>2. OwnRows(s)' = entries'
    BY <1>1 DEF OwnRows
  <2>3. \A a, b \in entries' : (a.graph = b.graph /\ a.position = b.position) => a = b
    BY <1>4 DEF OneRowPerPosition, OwnRows
  <2> QED BY <2>1, <2>2, <2>3 DEF OneRowPerPosition
<1>14. GroupIdsUnique'
  <2>1. ASSUME NEW a \in KnownGroups' PROVE a \in KnownGroups
    <3>1. a \in groups' \/ \E o \in Session : a \in txn'[o].groups \cup txn'[o].row
      BY DEF KnownGroups
    <3>2. CASE a \in groups'
      BY <1>4, <3>2 DEF KnownGroups
    <3>3. ASSUME NEW o \in Session, a \in txn'[o].groups \cup txn'[o].row
          PROVE  a \in txn[o].groups \cup txn[o].row
      BY <1>1, <3>3
    <3> QED BY <3>1, <3>2, <3>3 DEF KnownGroups
  <2> QED BY <2>1 DEF GroupIdsUnique
<1>15. RowsOfGroups'
  <2>1. UNION {EntriesOf(r) : r \in groups \cup G}
          = (UNION {EntriesOf(r) : r \in groups}) \cup (UNION {EntriesOf(r) : r \in G})
    OBVIOUS
  <2>2. entries' = UNION {EntriesOf(r) : r \in groups'}
    BY <2>1 DEF RowsOfGroups
  <2>3. \A o \in Session : ~(txn'[o].status \in {"idle", "done", "failed"})
          => txn'[o].entries = UNION {EntriesOf(r) : r \in txn'[o].groups}
    BY <1>1 DEF RowsOfGroups, Settled
  <2> QED BY <2>2, <2>3 DEF RowsOfGroups, Settled
<1> QED BY <1>5, <1>9, <1>10, <1>11, <1>12, <1>13, <1>14, <1>15 DEF NeverRefused

(***************************************************************************)
(* The deferred trigger finds every group row in agreement with its        *)
(* entries, because ids are unique and entries are built from group rows.  *)
(***************************************************************************)
LEMMA CommitNeverRefused ==
  ASSUME IInv, NEW s \in Session, txn[s].status = "appended"
  PROVE  GroupsMatchEntries(s)
<1> USE DEF IInv, AppendInv
<1>1. txn[s].entries = UNION {EntriesOf(r) : r \in txn[s].groups}
  BY DEF RowsOfGroups, Settled
<1>2. \A a, b \in txn[s].groups : a.id = b.id => a = b
  BY DEF GroupIdsUnique, KnownGroups
<1>3. ASSUME NEW row \in txn[s].groups
      PROVE  {e.position : e \in {r \in txn[s].entries : r.group = row.id}} = row.first..row.last
  <2>1. \A r, e : e \in EntriesOf(r) => e.group = r.id
    BY DEF EntriesOf
  <2>2. {r \in txn[s].entries : r.group = row.id} = EntriesOf(row)
    BY <1>1, <1>2, <2>1
  <2>3. PositionsOf(EntriesOf(row), row.graph) = {e.position : e \in EntriesOf(row)}
    BY DEF PositionsOf, EntriesOf
  <2> QED BY <2>2, <2>3, PositionsOfGroup
<1> QED BY <1>3 DEF GroupsMatchEntries

LEMMA CommitInv ==
  ASSUME IInv, NEW s \in Session, NEW acked \in BOOLEAN, Commit(s, acked)
  PROVE  IInv'
<1> USE DEF IInv, AppendInv
<1> DEFINE st  == IF acked THEN "done" ELSE "failed"
           new == [IdleTxn EXCEPT !.status = st, !.legs = txn[s].legs, !.groups = txn[s].groups]
<1>1. txn[s].status = "appended" /\ GroupsMatchEntries(s)
  BY CommitNeverRefused DEF Commit
<1>2. txn[s].entries = UNION {EntriesOf(r) : r \in txn[s].groups}
  BY <1>1 DEF RowsOfGroups, Settled
<1>3. \A row \in txn[s].groups : EntriesOf(row) \subseteq txn[s].entries
  BY <1>2
<1>4. /\ entries' = entries \cup txn[s].entries /\ groups' = groups \cup txn[s].groups
      /\ txn' = [txn EXCEPT ![s] = new] /\ refused' = refused
      /\ ReleaseLocks(s) /\ UNCHANGED <<marker, minted>>
  BY <1>1, <1>3 DEF Commit, RowsPublished, TypeOK
<1>5. st \in Status /\ st \in {"done", "failed"}
  BY DEF Status
<1>6. txn[s].legs \in SUBSET Graph /\ txn[s].groups \in SUBSET GroupRow
  BY TxnTyped
<1>7. /\ new \in Txn /\ new.status \in {"done", "failed"} /\ new.row = {} /\ new.entries = {}
      /\ new.groups \subseteq txn[s].groups
  <2>1. <<>> \in Seq(Draft)
    BY EmptySeq
  <2> HIDE DEF st
  <2> QED BY <1>5, <1>6, <2>1 DEF IdleTxn, Txn, Isolation, NoSwap
<1> HIDE DEF new, st
<1> QED BY <1>2, <1>4, <1>7, EndInv

LEMMA RollbackInv ==
  ASSUME IInv, NEW s \in Session, Rollback(s)
  PROVE  IInv'
<1> DEFINE new == [IdleTxn EXCEPT !.status = "failed"]
<1>1. <<>> \in Seq(Draft)
  BY EmptySeq
<1>2. new \in Txn /\ new.status = "failed" /\ new.row = {} /\ new.entries = {} /\ new.groups = {}
  BY <1>1 DEF IdleTxn, Txn, Isolation, NoSwap, Status
<1>3. /\ txn' = [txn EXCEPT ![s] = new] /\ ReleaseLocks(s)
      /\ UNCHANGED <<entries, groups, marker, minted, refused>>
  BY DEF Rollback
<1>4. entries' = entries \cup {} /\ groups' = groups \cup {} /\ {} = UNION {EntriesOf(r) : r \in {}}
  BY <1>3
<1> HIDE DEF new
<1> QED BY <1>2, <1>3, <1>4, EndInv

LEMMA AdvanceInv ==
  ASSUME IInv, NEW g \in Graph, NEW p \in Nat, AdvanceAppliedPosition(g, p)
  PROVE  IInv'
<1> USE DEF IInv, AppendInv
<1>1. /\ p <= LastPosition(entries, g) /\ marker' = [marker EXCEPT ![g] = p]
      /\ UNCHANGED <<entries, groups, txn, lockOwner, minted, refused>>
  BY DEF AdvanceAppliedPosition, MayAdvance
<1>2. TypeOK'
  BY <1>1 DEF TypeOK
<1>3. MarkerWithinLog'
  BY <1>1 DEF MarkerWithinLog, TypeOK
<1>4. GapFree' /\ NeverRefused'
  BY <1>1 DEF GapFree, NeverRefused
<1>5. \A s \in Session : OwnRows(s)' = OwnRows(s) /\ NextGraph(s)' = NextGraph(s)
  BY <1>1 DEF OwnRows, NextGraph
<1>6. UnderLock' /\ Numbered' /\ OneRowPerPosition'
  <2>1. UnderLock'
    BY <1>1 DEF UnderLock, NextGraph
  <2>2. Numbered'
    BY <1>1, <1>5 DEF Numbered
  <2>3. OneRowPerPosition'
    BY <1>5 DEF OneRowPerPosition
  <2> QED BY <2>1, <2>2, <2>3
<1>7. GroupIdsUnique' /\ RowsOfGroups'
  BY <1>1 DEF GroupIdsUnique, KnownGroups, RowsOfGroups, Settled
<1> QED BY <1>2, <1>3, <1>4, <1>6, <1>7

-----------------------------------------------------------------------------
LEMMA StandaloneInv ==
  ASSUME IInv, NEW s \in Session, NEW d \in Drafts, NEW swap \in BOOLEAN, BeginStandalone(s, d, swap)
  PROVE  IInv'
<1> DEFINE id  == IF swap THEN minted + 1 ELSE NoSwap
           new == [IdleTxn EXCEPT !.status = "locking", !.drafts = d, !.swap = id,
                                  !.legs = {d[i].graph : i \in 1..Len(d)}]
<1>1. /\ d # <<>> /\ txn' = [txn EXCEPT ![s] = new]
      /\ minted' = (IF swap THEN minted + 1 ELSE minted)
      /\ UNCHANGED <<entries, groups, marker, lockOwner, refused>>
  BY DEF BeginStandalone
<1>2. minted \in Nat /\ id \in Nat /\ minted' \in Nat /\ minted <= minted'
  BY <1>1 DEF IInv, TypeOK, NoSwap
<1>3. PICK n \in 1..Cardinality(Graph) : d \in [1..n -> Draft]
  BY DEF Drafts
<1>4. d \in Seq(Draft)
  BY <1>3
<1>5. {d[i].graph : i \in 1..Len(d)} \subseteq Graph
  <2>1. ASSUME NEW i \in 1..Len(d) PROVE d[i].graph \in Graph
    <3>1. d[i] \in Draft
      BY <1>4, ElementOfSeq
    <3> QED BY <3>1 DEF Draft
  <2> QED BY <2>1
<1> DEFINE legs == {d[i].graph : i \in 1..Len(d)}
<1> HIDE DEF id, legs
<1>6. /\ new \in Txn /\ new.status = "locking" /\ new.drafts = d /\ new.row = {} /\ new.entries = {}
      /\ new.groups = {}
  BY <1>2, <1>4, <1>5 DEF IdleTxn, Txn, Status, Isolation, legs
<1> HIDE DEF new
<1> QED BY <1>1, <1>2, <1>6, BeginInv

LEMMA CallersInv ==
  ASSUME IInv, NEW s \in Session, NEW d \in Draft, NEW i \in Isolation,
         BeginInCallersTransaction(s, d, i)
  PROVE  IInv'
<1> DEFINE view == IF i = "read committed" THEN {} ELSE entries
           new  == [IdleTxn EXCEPT !.status = "locking", !.drafts = <<d>>, !.legs = {d.graph},
                                   !.isolation = i, !.view = view]
<1>1. txn' = [txn EXCEPT ![s] = new] /\ UNCHANGED <<entries, groups, marker, lockOwner, minted, refused>>
  BY DEF BeginInCallersTransaction
<1>2. <<d>> \in Seq(Draft) /\ <<d>> # <<>> /\ {d.graph} \subseteq Graph
  BY DEF Draft
<1>3. view \subseteq EntryRow /\ minted \in Nat
  BY DEF IInv, TypeOK
<1> HIDE DEF view
<1>4. /\ new \in Txn /\ new.status = "locking" /\ new.drafts = <<d>> /\ new.row = {}
      /\ new.entries = {} /\ new.groups = {}
  BY <1>2, <1>3 DEF IdleTxn, Txn, Status, NoSwap
<1> HIDE DEF new
<1>5. new.drafts # <<>> /\ minted' \in Nat /\ minted <= minted'
  BY <1>1, <1>2, <1>3, <1>4
<1> QED BY <1>1, <1>4, <1>5, BeginInv

LEMMA StepInv == IInv /\ [Next]_vars => IInv'
<1> SUFFICES ASSUME IInv, [Next]_vars PROVE IInv'
  OBVIOUS
<1>1. CASE \E s \in Session, d \in Drafts, swap \in BOOLEAN : BeginStandalone(s, d, swap)
  BY <1>1, StandaloneInv
<1>2. CASE \E s \in Session, d \in Draft, i \in Isolation : BeginInCallersTransaction(s, d, i)
  BY <1>2, CallersInv
<1>3. CASE \E s \in Session : LockGraph(s) \/ Step(s) \/ Commit(s, FALSE) \/ Rollback(s)
  BY <1>3, LockGraphInv, InsertGroupRowInv, InsertEntriesInv, CommitInv, RollbackInv DEF Step
<1>4. CASE \E g \in Graph, p \in 1..MaxHead : AdvanceAppliedPosition(g, p)
  <2>1. 1..MaxHead \subseteq Nat
    BY BoundAssumption
  <2> QED BY <1>4, <2>1, AdvanceInv
<1>5. CASE UNCHANGED vars
  <2>1. \A s \in Session : OwnRows(s)' = OwnRows(s) /\ NextGraph(s)' = NextGraph(s)
    BY <1>5 DEF vars, OwnRows, NextGraph
  <2>2. TypeOK' /\ GapFree' /\ NeverRefused' /\ MarkerWithinLog'
    BY <1>5 DEF vars, IInv, TypeOK, GapFree, NeverRefused, MarkerWithinLog
  <2>3. UnderLock'
    BY <1>5 DEF vars, IInv, AppendInv, UnderLock, NextGraph
  <2>4. Numbered'
    BY <1>5, <2>1 DEF vars, IInv, AppendInv, Numbered
  <2>5. OneRowPerPosition'
    BY <2>1 DEF IInv, AppendInv, OneRowPerPosition
  <2>6. GroupIdsUnique' /\ RowsOfGroups'
    BY <1>5 DEF vars, IInv, AppendInv, GroupIdsUnique, KnownGroups, RowsOfGroups, Settled
  <2> QED BY <2>2, <2>3, <2>4, <2>5, <2>6 DEF IInv, AppendInv
<1> QED BY <1>1, <1>2, <1>3, <1>4, <1>5 DEF Next

(***************************************************************************)
(* The inductive invariant of the log store: rows are numbered and         *)
(* inserted under the graph's advisory lock only.                          *)
(***************************************************************************)
THEOREM Invariance == Spec => []IInv
BY InitInv, StepInv, PTL DEF Spec

(***************************************************************************)
(* store.py, append_group: "The group's entries take the graph's next      *)
(* contiguous positions", whatever appenders run at the same time.         *)
(***************************************************************************)
THEOREM LogIsGapFree == Spec => []GapFree
<1>1. IInv => GapFree
  BY DEF IInv
<1> QED BY <1>1, Invariance, PTL

(***************************************************************************)
(* The keys and triggers of migration 0001 never refuse the store's own    *)
(* appends, so an append fails only when the database does.                *)
(***************************************************************************)
THEOREM StoreNeverRefused == Spec => []NeverRefused
<1>1. IInv => NeverRefused
  BY DEF IInv
<1> QED BY <1>1, Invariance, PTL

(***************************************************************************)
(* advance_applied_position: a marker never passes the last logged         *)
(* position, and state is well-typed.                                      *)
(***************************************************************************)
THEOREM MarkersWithinLog == Spec => [](TypeOK /\ MarkerWithinLog)
<1>1. IInv => TypeOK /\ MarkerWithinLog
  BY DEF IInv
<1> QED BY <1>1, Invariance, PTL

(***************************************************************************)
(* _insert_group and the commit: a committed group has all of its entries, *)
(* and every entry belongs to a committed group.                           *)
(***************************************************************************)
THEOREM GroupsStayWhole == Spec => []GroupsWhole
<1>1. IInv => GroupsWhole
  <2> SUFFICES ASSUME IInv PROVE GroupsWhole
    OBVIOUS
  <2>1. entries = UNION {EntriesOf(r) : r \in groups}
    BY DEF IInv, AppendInv, RowsOfGroups
  <2>2. \A a, b \in groups : a.id = b.id => a = b
    BY DEF IInv, AppendInv, GroupIdsUnique, KnownGroups
  <2>3. \A r, e : e \in EntriesOf(r) => e.group = r.id
    BY DEF EntriesOf
  <2> QED BY <2>1, <2>2, <2>3 DEF GroupsWhole
<1> QED BY <1>1, Invariance, PTL

(***************************************************************************)
(* "Insert-only, authoritative record": a step only adds rows, each after  *)
(* the last position of its graph, and no marker moves back.               *)
(***************************************************************************)
THEOREM LogOnlyGrows == Spec => OnlyForward
<1> DEFINE Forward == /\ entries \subseteq entries'
                      /\ groups \subseteq groups'
                      /\ \A e \in entries' \ entries : e.position > LastPosition(entries, e.graph)
                      /\ \A g \in Graph : marker[g] <= marker'[g]
<1>1. ASSUME IInv, [Next]_vars PROVE [Forward]_<<entries, groups, marker>>
  <2>1. \A g \in Graph : marker[g] \in Nat
    BY <1>1 DEF IInv, TypeOK
  <2>2. CASE UNCHANGED <<entries, groups>> /\ marker' = marker
    BY <2>1, <2>2
  <2>3. ASSUME NEW g \in Graph, NEW p \in 1..MaxHead, AdvanceAppliedPosition(g, p)
        PROVE  Forward
    <3>1. /\ entries' = entries /\ groups' = groups /\ marker' = [marker EXCEPT ![g] = p]
          /\ marker[g] < p /\ p \in Nat
      BY <2>3, BoundAssumption DEF AdvanceAppliedPosition, MayAdvance
    <3> QED BY <1>1, <2>1, <3>1 DEF IInv, TypeOK
  <2>4. ASSUME NEW s \in Session, NEW acked \in BOOLEAN, Commit(s, acked)
        PROVE  Forward
    <3>1. /\ entries' \subseteq OwnRows(s) /\ entries \subseteq entries' /\ groups \subseteq groups'
          /\ marker' = marker
      BY <2>4 DEF Commit, RowsPublished, OwnRows
    <3>2. ASSUME NEW e \in entries' \ entries
          PROVE  e.position > LastPosition(entries, e.graph)
      <4>1. e \in txn[s].entries /\ e.graph \in Graph /\ e.position \in Nat \ {0}
        BY <1>1, <3>1, TxnTyped, RowsTyped DEF OwnRows, IInv
      <4>2. ~\E r \in entries : r.graph = e.graph /\ r.position = e.position
        BY <1>1, <4>1 DEF IInv, AppendInv, OneRowPerPosition, OwnRows
      <4>3. e.position \notin PositionsOf(entries, e.graph)
        BY <4>2 DEF PositionsOf
      <4>4. Contiguous(entries, e.graph)
        BY SMTT(60), <1>1, <4>1 DEF IInv, GapFree
      <4> QED BY <4>1, <4>3, <4>4 DEF Contiguous
    <3> QED BY <2>1, <3>1, <3>2
  <2>5. CASE Next
    BY ZenonT(60), <2>2, <2>3, <2>4, <2>5 DEF Next, Step, BeginStandalone, BeginInCallersTransaction, LockGraph,
                                  InsertGroupRow, InsertEntries, Rollback
  <2> QED BY <1>1, <2>2, <2>5 DEF vars
<1> QED BY <1>1, Invariance, PTL DEF Spec, OnlyForward

(***************************************************************************)
(* Rows, locks, transactions and the triggers, seen from outside, are the  *)
(* log GraphLog describes: a last position and a marker per graph that     *)
(* only grow, the marker within the log.                                   *)
(***************************************************************************)
THEOREM StoreImplementsGraphLog == Spec => ImplementsGraphLog
<1> DEFINE h == [g \in Graph |-> LastPosition(entries, g)]
<1>1. Init => Log!Init
  <2>1. \A g \in Graph : LastPosition({}, g) = 0
    BY DEF LastPosition, PositionsOf
  <2> QED BY <2>1 DEF Init, Log!Init
<1>2. IInv /\ IInv' /\ [Next]_vars => [Log!Next]_(Log!vars)
  <2> SUFFICES ASSUME IInv, IInv', [Next]_vars PROVE [Log!Next]_(Log!vars)
    OBVIOUS
  <2>1. \A g \in Graph : LastPosition(entries, g) \in Nat /\ LastPosition(entries', g) \in Nat
    BY DEF IInv, GapFree, Contiguous
  <2>2. ASSUME entries' = entries, marker' = marker
        PROVE  [Log!Next]_(Log!vars)
    BY <2>2 DEF Log!vars
  <2>3. ASSUME NEW s \in Session, NEW acked \in BOOLEAN, Commit(s, acked)
        PROVE  [Log!Next]_(Log!vars)
    <3>1. entries \subseteq entries' /\ marker' = marker
      BY <2>3 DEF Commit
    <3>2. ASSUME NEW g \in Graph
          PROVE  LastPosition(entries, g) <= LastPosition(entries', g)
      <4>1. /\ PositionsOf(entries, g) = 1..LastPosition(entries, g)
            /\ PositionsOf(entries', g) = 1..LastPosition(entries', g)
        BY DEF IInv, GapFree, Contiguous
      <4>2. PositionsOf(entries, g) \subseteq PositionsOf(entries', g)
        BY <3>1 DEF PositionsOf
      <4> QED BY <2>1, <4>1, <4>2
    <3>3. CASE h' = h
      BY <3>1, <3>3 DEF Log!vars
    <3>4. CASE h' # h
      <4>1. DOMAIN h' = Graph /\ \A g \in Graph : h[g] <= h'[g]
        BY <3>2
      <4>2. Log!Append
        BY <3>1, <3>4, <4>1 DEF Log!Append
      <4> QED BY <4>2 DEF Log!Next
    <3> QED BY <3>3, <3>4
  <2>4. ASSUME NEW g \in Graph, NEW p \in 1..MaxHead, AdvanceAppliedPosition(g, p)
        PROVE  [Log!Next]_(Log!vars)
    <3>1. /\ entries' = entries /\ marker' = [marker EXCEPT ![g] = p]
          /\ marker[g] < p /\ p <= LastPosition(entries, g)
      BY <2>4 DEF AdvanceAppliedPosition, MayAdvance
    <3>2. marker'[g] = p
      BY <3>1 DEF IInv, TypeOK
    <3>3. h' = h /\ h[g] = LastPosition(entries, g)
      BY <3>1
    <3>4. Log!Advance(g)
      BY <3>1, <3>2, <3>3 DEF Log!Advance
    <3> QED BY <3>4 DEF Log!Next
  <2>5. CASE Next
    BY ZenonT(60), <2>2, <2>3, <2>4, <2>5 DEF Next, Step, BeginStandalone, BeginInCallersTransaction, LockGraph,
                                  InsertGroupRow, InsertEntries, Rollback
  <2>6. CASE UNCHANGED vars
    BY <2>2, <2>6 DEF vars
  <2> QED BY <2>5, <2>6
<1> QED BY <1>1, <1>2, Invariance, PTL DEF Spec, Log!Spec, ImplementsGraphLog

-----------------------------------------------------------------------------
(***************************************************************************)
(* Transactions over several graphs.  What is yet to append of a           *)
(* transaction's graphs is in its drafts; its groups carry its swap set;   *)
(* a transaction that ended has committed all its groups or none.          *)
(***************************************************************************)
Collecting == {"locking", "locked", "numbered", "appended"}

LegsKnown(k) ==
  /\ k.status \in Collecting =>
       /\ \A row \in k.groups \cup k.row : row.swap = k.swap
       /\ \A g \in k.legs : \/ \E leg \in k.groups : leg.graph = g
                            \/ \E i \in 1..Len(k.drafts) : k.drafts[i].graph = g
  /\ k.status = "appended" => k.drafts = <<>>
  /\ k.status \in {"done", "failed"} =>
       /\ k.groups \subseteq groups
       /\ \A a, b \in k.groups : a.swap = b.swap
       /\ k.groups # {} => \A g \in k.legs : \E leg \in k.groups : leg.graph = g

\* The locks a transaction holds are on graphs before those it still wants.
InOrder(s, k) ==
  /\ k.status \in {"idle", "done", "failed"} => \A g \in Graph : lockOwner[g] # s
  /\ Ascending(k.drafts)
  /\ k.status = "locking" =>
       \A g \in Graph : lockOwner[g] = s => \A i \in 1..Len(k.drafts) : g < k.drafts[i].graph
  /\ k.status \in {"locked", "numbered"} => \A g \in Graph : lockOwner[g] = s => g <= Head(k.drafts).graph

SetInv == \A s \in Session : LegsKnown(txn[s]) /\ InOrder(s, txn[s])

\* A step of s, seen by the others.
LEMMA SessionStep ==
  ASSUME IInv, SetInv, NEW s \in Session, NEW k, txn' = [txn EXCEPT ![s] = k], groups \subseteq groups',
         \A g \in Graph : lockOwner'[g] # lockOwner[g] => {lockOwner[g], lockOwner'[g]} \subseteq {s, NoSession},
         LegsKnown(k)', InOrder(s, k)'
  PROVE  SetInv'
<1>1. txn'[s] = k /\ \A o \in Session \ {s} : txn'[o] = txn[o]
  BY DEF IInv, TypeOK
<1>2. ASSUME NEW o \in Session  PROVE LegsKnown(txn[o])' /\ InOrder(o, txn[o])'
  <2>1. CASE o = s
    BY <1>1, <2>1 DEF LegsKnown, InOrder
  <2>2. CASE o # s
    <3>1. LegsKnown(txn[o]) /\ InOrder(o, txn[o]) /\ txn'[o] = txn[o]
      BY <1>1, <2>2 DEF SetInv
    <3>2. \A g \in Graph : lockOwner'[g] = o <=> lockOwner[g] = o
      BY <2>2, SessionAssumption
    <3> QED BY <3>1, <3>2 DEF LegsKnown, InOrder
  <2> QED BY <2>1, <2>2
<1> QED BY <1>2 DEF SetInv

LEMMA DraftsLeft ==
  ASSUME NEW q \in Seq(Draft), q # <<>>
  PROVE  /\ Len(q) \in Nat \ {0} /\ Head(q) = q[1] /\ Len(Tail(q)) = Len(q) - 1
         /\ \A i \in 1..Len(Tail(q)) : Tail(q)[i] = q[i + 1]
         /\ Len(q) = 1 => Tail(q) = <<>>
         /\ \A i \in 1..Len(q) : q[i].graph \in Graph /\ q[i].graph \in Nat
<1>1. /\ Len(q) \in Nat \ {0} /\ Head(q) = q[1] /\ Len(Tail(q)) = Len(q) - 1
      /\ \A i \in 1..Len(Tail(q)) : Tail(q)[i] = q[i + 1]
  OBVIOUS
<1>2. ASSUME Len(q) = 1  PROVE Tail(q) = <<>>
  <2>1. Tail(q) \in Seq(Draft) /\ Len(Tail(q)) = 0
    BY <1>1, <1>2
  <2> QED BY <2>1, EmptySeq
<1>3. \A i \in 1..Len(q) : q[i] \in Draft
  OBVIOUS
<1>4. \A d \in Draft : d.graph \in Graph /\ d.graph \in Nat
  BY GraphAssumption DEF Draft
<1> QED BY <1>1, <1>2, <1>3, <1>4

LEMMA BeginSet ==
  ASSUME IInv, SetInv, NEW s \in Session, Settled(s), NEW k, txn' = [txn EXCEPT ![s] = k],
         k.status = "locking", k.row = {}, k.groups = {}, Ascending(k.drafts),
         k.legs = {k.drafts[i].graph : i \in 1..Len(k.drafts)}, UNCHANGED <<groups, lockOwner>>
  PROVE  SetInv'
<1>1. \A g \in Graph : lockOwner[g] # s
  BY DEF SetInv, InOrder, Settled
<1>2. LegsKnown(k)'
  BY DEF LegsKnown, Collecting
<1>3. InOrder(s, k)'
  BY <1>1 DEF InOrder
<1> QED BY <1>2, <1>3, SessionStep

LEMMA LockSet ==
  ASSUME IInv, SetInv, NEW s \in Session, LockGraph(s)
  PROVE  SetInv'
<1>1. PICK k \in Txn : k = txn[s] /\ LegsKnown(k) /\ InOrder(s, k) /\ k.status = "locking" /\ k.drafts # <<>>
  BY DEF LockGraph, SetInv, IInv, TypeOK, AppendInv, UnderLock
<1>2. PICK q \in Seq(Draft) : q = k.drafts
  BY DEF Txn
<1>3. PICK g0 \in Graph : g0 = Head(q).graph /\ g0 = q[1].graph /\ g0 = NextGraph(s) /\ g0 \in Nat
  BY <1>1, <1>2, DraftsLeft DEF NextGraph
<1>4. PICK st \in {"locked", "raised"} : st = IF IsolationAccepted(s) THEN "locked" ELSE "raised"
  OBVIOUS
<1> DEFINE m == [k EXCEPT !.status = st]
<1>5. txn' = [txn EXCEPT ![s] = m]
  BY <1>1, <1>4 DEF LockGraph
<1>6. /\ m.status = st /\ m.drafts = q /\ m.legs = k.legs /\ m.groups = k.groups /\ m.row = k.row
      /\ m.swap = k.swap
  BY <1>2 DEF Txn
<1> HIDE DEF m
<1>7. /\ lockOwner' = [lockOwner EXCEPT ![g0] = s] /\ lockOwner[g0] \in {NoSession, s}
      /\ lockOwner \in [Graph -> Session \cup {NoSession}] /\ UNCHANGED groups
  BY <1>3 DEF LockGraph, LockGranted, IInv, TypeOK
<1>8. LegsKnown(m)'
  BY <1>1, <1>2, <1>6, <1>7 DEF LegsKnown, Collecting
<1>9. \A g \in Graph : lockOwner'[g] = s => g <= g0
  <2> TAKE g \in Graph
  <2>1. g \in Nat
    BY GraphAssumption
  <2>2. 1 \in 1..Len(q)
    BY <1>1, <1>2, DraftsLeft
  <2>3. lockOwner[g] = s => g < g0
    BY <1>1, <1>2, <1>3, <2>2 DEF InOrder
  <2> QED BY <1>3, <1>7, <2>1, <2>3
<1>10. InOrder(s, m)'
  BY <1>1, <1>2, <1>3, <1>6, <1>9 DEF InOrder, Ascending
<1>11. \A g \in Graph : lockOwner'[g] # lockOwner[g] => {lockOwner[g], lockOwner'[g]} \subseteq {s, NoSession}
  BY <1>7
<1> QED BY <1>5, <1>7, <1>8, <1>10, <1>11, SessionStep

LEMMA GroupRowSet ==
  ASSUME IInv, SetInv, NEW s \in Session, InsertGroupRow(s)
  PROVE  SetInv'
<1>1. PICK k \in Txn : k = txn[s] /\ LegsKnown(k) /\ InOrder(s, k) /\ k.status = "locked"
  BY DEF InsertGroupRow, SetInv, IInv, TypeOK
<1>2. PICK row : row.swap = k.swap /\ txn' = [txn EXCEPT ![s].status = "numbered", ![s].row = {row}]
  BY <1>1 DEF InsertGroupRow
<1> DEFINE m == [k EXCEPT !.status = "numbered", !.row = {row}]
<1>3. txn' = [txn EXCEPT ![s] = m]
  BY <1>1, <1>2
<1>4. /\ m.status = "numbered" /\ m.drafts = k.drafts /\ m.legs = k.legs /\ m.groups = k.groups
      /\ m.row = {row} /\ m.swap = k.swap
  BY DEF Txn
<1> HIDE DEF m
<1>5. UNCHANGED <<groups, lockOwner>>
  BY DEF InsertGroupRow
<1>6. LegsKnown(m)'
  BY <1>1, <1>2, <1>4, <1>5 DEF LegsKnown, Collecting
<1>7. InOrder(s, m)'
  BY <1>1, <1>4, <1>5 DEF InOrder
<1> QED BY <1>3, <1>5, <1>6, <1>7, SessionStep

LEMMA EntriesSet ==
  ASSUME IInv, SetInv, NEW s \in Session, InsertEntries(s)
  PROVE  SetInv'
<1>1. PICK k \in Txn : k = txn[s] /\ LegsKnown(k) /\ InOrder(s, k) /\ k.status = "numbered" /\ k.drafts # <<>>
  BY DEF InsertEntries, SetInv, IInv, TypeOK, AppendInv, UnderLock
<1>2. PICK q \in Seq(Draft) : q = k.drafts
  BY DEF Txn
<1>3. UNCHANGED <<groups, lockOwner>>
  BY DEF InsertEntries
<1>4. PICK row \in k.row :
        \/ txn' = [txn EXCEPT ![s].status = IF Len(q) = 1 THEN "appended" ELSE "locking",
                              ![s].drafts = Tail(@), ![s].row = {},
                              ![s].entries = @ \cup EntriesOf(row), ![s].groups = @ \cup {row}]
        \/ txn' = [txn EXCEPT ![s].status = "raised", ![s].row = {}]
  BY <1>1, <1>2 DEF InsertEntries
<1>5. row.graph = q[1].graph /\ row.swap = k.swap
  <2>1. row.graph = NextGraph(s)
    BY <1>1, <1>4 DEF IInv, AppendInv, Numbered
  <2>2. Head(q) = q[1]
    BY <1>1, <1>2, DraftsLeft
  <2> QED BY <1>1, <1>2, <1>4, <2>1, <2>2 DEF NextGraph, LegsKnown, Collecting
<1>6. CASE txn' = [txn EXCEPT ![s].status = "raised", ![s].row = {}]
  <2> DEFINE m == [k EXCEPT !.status = "raised", !.row = {}]
  <2>1. txn' = [txn EXCEPT ![s] = m]
    BY <1>1, <1>6
  <2>2. m.status = "raised" /\ m.drafts = k.drafts
    BY DEF Txn
  <2> HIDE DEF m
  <2>3. LegsKnown(m)' /\ InOrder(s, m)'
    BY <1>1, <2>2 DEF LegsKnown, Collecting, InOrder
  <2> QED BY <1>3, <2>1, <2>3, SessionStep
<1>7. CASE txn' = [txn EXCEPT ![s].status = IF Len(q) = 1 THEN "appended" ELSE "locking",
                              ![s].drafts = Tail(@), ![s].row = {},
                              ![s].entries = @ \cup EntriesOf(row), ![s].groups = @ \cup {row}]
  <2> DEFINE m == [k EXCEPT !.status = IF Len(q) = 1 THEN "appended" ELSE "locking", !.drafts = Tail(q),
                            !.row = {}, !.entries = @ \cup EntriesOf(row), !.groups = @ \cup {row}]
  <2>1. txn' = [txn EXCEPT ![s] = m]
    BY <1>1, <1>2, <1>7
  <2>2. /\ m.status = IF Len(q) = 1 THEN "appended" ELSE "locking"
        /\ m.drafts = Tail(q) /\ m.legs = k.legs /\ m.groups = k.groups \cup {row}
        /\ m.row = {} /\ m.swap = k.swap
    BY DEF Txn
  <2> HIDE DEF m
  <2>3. /\ Len(q) \in Nat \ {0} /\ Head(q) = q[1] /\ Len(Tail(q)) = Len(q) - 1
        /\ \A i \in 1..Len(Tail(q)) : Tail(q)[i] = q[i + 1]
        /\ Len(q) = 1 => Tail(q) = <<>>
        /\ \A i \in 1..Len(q) : q[i].graph \in Graph /\ q[i].graph \in Nat
    BY <1>1, <1>2, DraftsLeft
  <2>4. ASSUME NEW g \in k.legs
        PROVE  \/ \E leg \in m.groups : leg.graph = g
               \/ \E i \in 1..Len(Tail(q)) : Tail(q)[i].graph = g
    <3>1. CASE \E leg \in k.groups : leg.graph = g
      BY <2>2, <3>1
    <3>2. CASE \E i \in 1..Len(q) : q[i].graph = g
      <4>1. PICK i \in 1..Len(q) : q[i].graph = g
        BY <3>2
      <4>2. CASE i = 1
        BY <1>5, <2>2, <4>1, <4>2
      <4>3. CASE i # 1
        <5>1. i - 1 \in 1..Len(Tail(q)) /\ (i - 1) + 1 = i
          BY <2>3, <4>1, <4>3
        <5>2. Tail(q)[i - 1] = q[i]
          BY <2>3, <5>1
        <5> QED BY <4>1, <5>1, <5>2
      <4> QED BY <4>2, <4>3
    <3>3. k.status \in Collecting
      BY <1>1 DEF Collecting
    <3> QED BY <1>1, <1>2, <3>1, <3>2, <3>3 DEF LegsKnown
  <2>5. \A r \in m.groups \cup m.row : r.swap = m.swap
    BY <1>1, <1>5, <2>2 DEF LegsKnown, Collecting
  <2>6. LegsKnown(m)'
    BY <2>2, <2>3, <2>4, <2>5 DEF LegsKnown
  <2>7. \A i, j \in 1..Len(q) : i < j => q[i].graph < q[j].graph
    BY <1>1, <1>2 DEF InOrder, Ascending
  <2>8. Ascending(Tail(q))
    <3> SUFFICES ASSUME NEW i \in 1..Len(Tail(q)), NEW j \in 1..Len(Tail(q)), i < j
                 PROVE  Tail(q)[i].graph < Tail(q)[j].graph
      BY DEF Ascending
    <3>1. i + 1 \in 1..Len(q) /\ j + 1 \in 1..Len(q) /\ i + 1 < j + 1
      BY <2>3
    <3>2. q[i + 1].graph < q[j + 1].graph
      BY <2>7, <3>1
    <3> QED BY <2>3, <3>2
  <2>9. ASSUME NEW g \in Graph, lockOwner[g] = s, NEW i \in 1..Len(Tail(q))
        PROVE  g < Tail(q)[i].graph
    <3>1. g <= q[1].graph
      BY <1>1, <1>2, <2>3, <2>9 DEF InOrder
    <3>2. 1 \in 1..Len(q) /\ i + 1 \in 1..Len(q) /\ 1 < i + 1
      BY <2>3
    <3>3. q[1].graph < q[i + 1].graph
      BY <2>7, <3>2
    <3>4. g \in Nat /\ q[1].graph \in Nat /\ q[i + 1].graph \in Nat /\ Tail(q)[i] = q[i + 1]
      BY <2>3, <3>2, GraphAssumption
    <3> QED BY <3>1, <3>3, <3>4
  <2>10. InOrder(s, m)'
    BY <1>3, <2>2, <2>8, <2>9 DEF InOrder, Ascending
  <2> QED BY <1>3, <2>1, <2>6, <2>10, SessionStep
<1> QED BY <1>4, <1>6, <1>7

\* A transaction that ends, with all its groups in the log or with none.
LEMMA EndSet ==
  ASSUME IInv, SetInv, NEW s \in Session, NEW m, txn' = [txn EXCEPT ![s] = m],
         m.status \in {"done", "failed"}, m.drafts = <<>>,
         groups \subseteq groups', m.groups \subseteq groups', \A a, b \in m.groups : a.swap = b.swap,
         m.groups # {} => \A g \in m.legs : \E leg \in m.groups : leg.graph = g, ReleaseLocks(s)
  PROVE  SetInv'
<1>1. LegsKnown(m)'
  BY DEF LegsKnown, Collecting
<1>2. \A g \in Graph : lockOwner'[g] = IF lockOwner[g] = s THEN NoSession ELSE lockOwner[g]
  BY DEF ReleaseLocks
<1>3. InOrder(s, m)'
  BY <1>2, SessionAssumption DEF InOrder, Ascending
<1>4. \A g \in Graph : lockOwner'[g] # lockOwner[g] => {lockOwner[g], lockOwner'[g]} \subseteq {s, NoSession}
  BY <1>2
<1> QED BY <1>1, <1>3, <1>4, SessionStep

LEMMA CommitSet ==
  ASSUME IInv, IInv', SetInv, NEW s \in Session, NEW acked \in BOOLEAN, Commit(s, acked)
  PROVE  SetInv'
<1>1. PICK k \in Txn : k = txn[s] /\ LegsKnown(k) /\ k.status = "appended"
  BY DEF Commit, SetInv, IInv, TypeOK
<1>2. GroupsMatchEntries(s)
  BY DEF Commit, IInv, NeverRefused
<1>3. \A row \in k.groups : EntriesOf(row) \subseteq k.entries
  BY <1>1 DEF IInv, AppendInv, RowsOfGroups, Settled
<1>4. k.groups \subseteq groups' /\ groups \subseteq groups' /\ ReleaseLocks(s)
  BY <1>1, <1>2, <1>3 DEF Commit, RowsPublished
<1>5. PICK st \in {"done", "failed"} : st = IF acked THEN "done" ELSE "failed"
  OBVIOUS
<1>6. PICK m : /\ m = [IdleTxn EXCEPT !.status = st, !.legs = k.legs, !.groups = k.groups]
               /\ txn' = [txn EXCEPT ![s] = m]
  BY <1>1, <1>5 DEF Commit
<1>7. m.status = st /\ m.drafts = <<>> /\ m.legs = k.legs /\ m.groups = k.groups
  BY <1>6 DEF IdleTxn
<1>8. \A a, b \in m.groups : a.swap = b.swap
  BY <1>1, <1>7 DEF LegsKnown, Collecting
<1>9. \A g \in m.legs : \E leg \in m.groups : leg.graph = g
  BY <1>1, <1>7 DEF LegsKnown, Collecting
<1>10. m.groups \subseteq groups'
  BY <1>4, <1>7
<1>11. m.status \in {"done", "failed"} /\ m.drafts = <<>> /\ txn' = [txn EXCEPT ![s] = m]
  BY <1>6, <1>7
<1>12. groups \subseteq groups' /\ ReleaseLocks(s)
  BY <1>4
<1> QED BY <1>8, <1>9, <1>10, <1>11, <1>12, EndSet

LEMMA RollbackSet ==
  ASSUME IInv, SetInv, NEW s \in Session, Rollback(s)
  PROVE  SetInv'
<1>1. PICK m : /\ m = [IdleTxn EXCEPT !.status = "failed"]
               /\ txn' = [txn EXCEPT ![s] = m] /\ ReleaseLocks(s) /\ groups' = groups
  BY DEF Rollback
<1>2. m.status = "failed" /\ m.drafts = <<>> /\ m.groups = {}
  BY <1>1 DEF IdleTxn
<1>3. groups \subseteq groups' /\ m.groups \subseteq groups' /\ \A a, b \in m.groups : a.swap = b.swap
  BY <1>1, <1>2
<1>4. m.groups # {} => \A g \in m.legs : \E leg \in m.groups : leg.graph = g
  BY <1>2
<1> QED BY <1>1, <1>2, <1>3, <1>4, EndSet

LEMMA SetInvariant == Spec => []SetInv
<1>1. Init => SetInv
  <2> SUFFICES ASSUME Init, NEW s \in Session  PROVE LegsKnown(txn[s]) /\ InOrder(s, txn[s])
    BY DEF SetInv
  <2>1. PICK k : k = txn[s]
    OBVIOUS
  <2>2. k.status = "idle" /\ k.drafts = <<>>
    BY <2>1 DEF Init, IdleTxn
  <2>3. \A g \in Graph : lockOwner[g] # s
    BY SessionAssumption DEF Init
  <2>4. LegsKnown(k)
    BY <2>2 DEF LegsKnown, Collecting
  <2>5. Ascending(k.drafts)
    BY <2>2 DEF Ascending
  <2>6. InOrder(s, k)
    BY <2>2, <2>3, <2>5 DEF InOrder
  <2> QED BY <2>1, <2>4, <2>6
<1>2. ASSUME IInv, IInv', SetInv, [Next]_vars  PROVE SetInv'
  <2>1. ASSUME NEW s \in Session, NEW d \in Drafts, NEW swap \in BOOLEAN, BeginStandalone(s, d, swap)
        PROVE  SetInv'
    <3>1. PICK k : /\ k = [IdleTxn EXCEPT !.status = "locking", !.drafts = d,
                             !.swap = IF swap THEN minted + 1 ELSE NoSwap,
                             !.legs = {d[i].graph : i \in 1..Len(d)}]
                   /\ txn' = [txn EXCEPT ![s] = k] /\ Ascending(d) /\ Settled(s)
                   /\ UNCHANGED <<groups, lockOwner>>
      BY <2>1 DEF BeginStandalone
    <3>2. /\ k.status = "locking" /\ k.row = {} /\ k.groups = {} /\ k.drafts = d
          /\ k.legs = {d[i].graph : i \in 1..Len(d)}
      BY <3>1 DEF IdleTxn
    <3>3. Ascending(k.drafts) /\ k.legs = {k.drafts[i].graph : i \in 1..Len(k.drafts)}
      BY <3>1, <3>2
    <3>4. IInv /\ SetInv /\ Settled(s) /\ txn' = [txn EXCEPT ![s] = k] /\ UNCHANGED <<groups, lockOwner>>
      BY <1>2, <3>1
    <3> QED BY <3>2, <3>3, <3>4, BeginSet
  <2>2. ASSUME NEW s \in Session, NEW d \in Draft, NEW i \in Isolation, BeginInCallersTransaction(s, d, i)
        PROVE  SetInv'
    <3>1. PICK k : /\ k = [IdleTxn EXCEPT !.status = "locking", !.drafts = <<d>>, !.legs = {d.graph},
                             !.isolation = i,
                             !.view = IF i = "read committed" THEN {} ELSE entries]
                   /\ txn' = [txn EXCEPT ![s] = k] /\ Settled(s) /\ UNCHANGED <<groups, lockOwner>>
      BY <2>2 DEF BeginInCallersTransaction
    <3>2. /\ k.status = "locking" /\ k.row = {} /\ k.groups = {} /\ k.drafts = <<d>> /\ k.legs = {d.graph}
      BY <3>1 DEF IdleTxn
    <3>3. Ascending(<<d>>) /\ {d.graph} = {<<d>>[j].graph : j \in 1..Len(<<d>>)}
      BY DEF Ascending
    <3>4. Ascending(k.drafts) /\ k.legs = {k.drafts[j].graph : j \in 1..Len(k.drafts)}
      BY <3>2, <3>3
    <3>5. IInv /\ SetInv /\ Settled(s) /\ txn' = [txn EXCEPT ![s] = k] /\ UNCHANGED <<groups, lockOwner>>
      BY <1>2, <3>1
    <3> QED BY <3>2, <3>4, <3>5, BeginSet
  <2>3. CASE \E s \in Session : LockGraph(s) \/ Step(s) \/ Commit(s, FALSE) \/ Rollback(s)
    BY <1>2, <2>3, LockSet, GroupRowSet, EntriesSet, CommitSet, RollbackSet DEF Step
  <2>4. CASE UNCHANGED <<groups, txn, lockOwner>>
    BY <1>2, <2>4 DEF SetInv, LegsKnown, InOrder
  <2> QED BY <1>2, <2>1, <2>2, <2>3, <2>4 DEF Next, AdvanceAppliedPosition, vars
<1> QED BY <1>1, <1>2, Invariance, PTL DEF Spec

(***************************************************************************)
(* append_groups_standalone: the legs of a set are committed together, so  *)
(* whoever finds one of them in the log finds all.                         *)
(***************************************************************************)
THEOREM SetsCommitWhole == Spec => []SwapSetsWhole
<1>1. IInv /\ SetInv => SwapSetsWhole
  BY DEF SetInv, LegsKnown, SwapSetsWhole
<1> QED BY <1>1, Invariance, SetInvariant, PTL

(***************************************************************************)
(* The greatest element of a set of graphs: of the sets of graphs above    *)
(* one of its elements, the least by inclusion is that of the greatest.    *)
(***************************************************************************)
LEMMA GreatestGraph ==
  ASSUME NEW W, W \subseteq Graph, W # {}
  PROVE  \E x \in W : \A y \in W : y <= x
<1> DEFINE Above(x) == {g \in Graph : g > x}
           All == {Above(x) : x \in W}
<1>1. All \subseteq FiniteSubsetsOf(Graph)
  <2> SUFFICES ASSUME NEW x \in W  PROVE Above(x) \in FiniteSubsetsOf(Graph)
    OBVIOUS
  <2>1. Above(x) \subseteq Graph
    OBVIOUS
  <2>2. IsFiniteSet(Above(x))
    BY <2>1, GraphAssumption, FS_Subset
  <2> QED BY <2>1, <2>2 DEF FiniteSubsetsOf
<1>2. All # {}
  OBVIOUS
<1>3. IsWellFoundedOn(StrictSubsetOrdering(Graph), FiniteSubsetsOf(Graph))
  BY FS_StrictSubsetOrderingWellFounded
<1> HIDE DEF All
<1>4. \E I \in All : \A J \in All : ~(<<J, I>> \in StrictSubsetOrdering(Graph))
  BY <1>1, <1>2, <1>3, WFMin
<1> USE DEF All
<1>5. PICK x \in W : \A y \in W : ~(<<Above(y), Above(x)>> \in StrictSubsetOrdering(Graph))
  BY <1>4
<1>6. \A y \in W : y <= x
  <2> SUFFICES ASSUME NEW y \in W, ~(y <= x)  PROVE FALSE
    OBVIOUS
  <2>1. x \in Nat /\ y \in Nat /\ x < y /\ y \in Graph
    BY GraphAssumption
  <2>2. Above(y) \subseteq Above(x) /\ Above(y) # Above(x)
    <3>1. \A g \in Graph : g > y => g > x
      BY <2>1, GraphAssumption
    <3>2. y \in Above(x) /\ y \notin Above(y)
      BY <2>1
    <3> QED BY <3>1, <3>2
  <2>3. <<Above(y), Above(x)>> \in StrictSubsetOrdering(Graph)
    BY <2>2 DEF StrictSubsetOrdering
  <2> QED BY <1>5, <2>3
<1> QED BY <1>6

(***************************************************************************)
(* Drafts come in ascending graph order, so the transaction that waits for *)
(* the greatest graph waits for none that waits itself: appends never      *)
(* deadlock on the advisory locks.                                         *)
(***************************************************************************)
THEOREM AppendsDoNotDeadlock == Spec => []NoLockCycle
<1>1. ASSUME IInv, SetInv  PROVE NoLockCycle
  <2> SUFFICES ASSUME NEW S \in SUBSET Session, S # {}, \A s \in S : WaitsFor(s, S)  PROVE FALSE
    BY DEF NoLockCycle
  <2>1. ASSUME NEW s \in S
        PROVE  /\ NextGraph(s) \in Graph /\ lockOwner[NextGraph(s)] \in S
               /\ \A g \in Graph : lockOwner[g] = s => g < NextGraph(s)
    <3>1. txn[s].status = "locking" /\ lockOwner[NextGraph(s)] \in S
      BY DEF WaitsFor
    <3>2. PICK q \in Seq(Draft) : q = txn[s].drafts /\ q # <<>>
      BY <1>1, <3>1, TxnTyped DEF IInv, AppendInv, UnderLock
    <3>3. 1 \in 1..Len(q) /\ Head(q) = q[1] /\ q[1].graph \in Graph
      BY <3>2, DraftsLeft
    <3>4. \A g \in Graph : lockOwner[g] = s => \A i \in 1..Len(q) : g < q[i].graph
      BY <1>1, <3>1, <3>2 DEF SetInv, InOrder
    <3> QED BY <3>1, <3>2, <3>3, <3>4 DEF NextGraph
  <2>2. {NextGraph(s) : s \in S} \subseteq Graph /\ {NextGraph(s) : s \in S} # {}
    BY <2>1
  <2>3. PICK x \in {NextGraph(s) : s \in S} : \A y \in {NextGraph(s) : s \in S} : y <= x
    BY <2>2, GreatestGraph
  <2>4. PICK s \in S : x = NextGraph(s)
    BY <2>3
  <2>5. PICK u \in S : u = lockOwner[x]
    BY <2>1, <2>4
  <2>6. x < NextGraph(u) /\ NextGraph(u) <= x
    BY <2>1, <2>3, <2>4, <2>5
  <2>7. x \in Nat /\ NextGraph(u) \in Nat
    BY <2>1, <2>4, GraphAssumption
  <2> QED BY <2>6, <2>7
<1> QED BY <1>1, Invariance, SetInvariant, PTL

====
