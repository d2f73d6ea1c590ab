------------------------------- MODULE RunLedger -------------------------------
(***************************************************************************)
(* What background ingestion promises, seen from outside: a run is         *)
(* recorded once, as running; its worker starts on a recorded run, with    *)
(* fewer than Cap others at work and none under its short name; and its    *)
(* record is closed once, by the worker, as succeeded only over a merged   *)
(* instrument, or as interrupted when nobody works on it and nobody will.  *)
(***************************************************************************)
EXTENDS Naturals, FiniteSets

CONSTANTS Run, ShortName, Cap

VARIABLES record,    \* of each run: "none", "running" or its outcome
          working,   \* the runs a worker works on, with their short names
          left,      \* the runs that were given up or are over, for good
          merged     \* the short names with an instrument

ledgerVars == <<record, working, left, merged>>

AtWork(r) == \E w \in working : w[1] = r

Init ==
  /\ record = [r \in Run |-> "none"]
  /\ working = {} /\ left = {} /\ merged = {}

Record(r) ==
  /\ record[r] = "none" /\ r \notin left
  /\ record' = [record EXCEPT ![r] = "running"]
  /\ UNCHANGED <<working, left, merged>>

Start(r, n) ==
  /\ record[r] = "running" /\ r \notin left /\ ~AtWork(r)
  /\ Cardinality(working) < Cap
  /\ \A w \in working : w[2] # n
  /\ working' = working \cup {<<r, n>>}
  /\ UNCHANGED <<record, left, merged>>

\* By a worker, by a request that is served without one, or for a run that is over.
Merge(n) ==
  /\ merged' = merged \cup {n}
  /\ UNCHANGED <<record, working, left>>

Close(r, n, outcome) ==
  /\ <<r, n>> \in working /\ record[r] = "running"
  /\ outcome = "succeeded" => n \in merged
  /\ record' = [record EXCEPT ![r] = outcome]
  /\ UNCHANGED <<working, left, merged>>

\* A request is refused or a worker ends, or all of them stop together.
Leave(runs) ==
  /\ runs \cap left = {}
  /\ left' = left \cup runs
  /\ working' = {w \in working : w[1] \notin runs}
  /\ UNCHANGED <<record, merged>>

Interrupt(r) ==
  /\ record[r] = "running" /\ r \in left
  /\ record' = [record EXCEPT ![r] = "interrupted"]
  /\ UNCHANGED <<working, left, merged>>

Next ==
  \/ \E r \in Run : Record(r) \/ Interrupt(r)
  \/ \E r \in Run, n \in ShortName :
       Start(r, n) \/ \E outcome \in {"succeeded", "failed"} : Close(r, n, outcome)
  \/ \E n \in ShortName : Merge(n)
  \/ \E runs \in SUBSET Run : Leave(runs)

Spec == Init /\ [][Next]_ledgerVars
=============================================================================
