--------------------------- MODULE MCIngestionRuns ---------------------------
(***************************************************************************)
(* Three requests and two slots: two in the background and one on the      *)
(* caller's thread for one short name, or three in the background for      *)
(* different names, two of them for one instrument.                        *)
(***************************************************************************)
EXTENDS IngestionRuns

CONSTANTS r1, r2, r3, p1, x, y, A, B, C

Background(celex, name) == [celex |-> celex, name |-> name, sync |-> FALSE]

Waited(celex, name) == [celex |-> celex, name |-> name, sync |-> TRUE]

Requests ==
  {[r \in Run |-> CASE r = r1 -> Background(x, A)
                    [] r = r2 -> Background(y, A)
                    [] r = r3 -> Waited(y, A)],
   [r \in Run |-> CASE r = r1 -> Background(x, A)
                    [] r = r2 -> Background(y, B)
                    [] r = r3 -> Background(x, C)]}
=============================================================================
