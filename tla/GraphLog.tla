-------------------------------- MODULE GraphLog --------------------------------
(***************************************************************************)
(* What the graph mutation log promises its readers: the GraphLogStore     *)
(* protocol of graph_gateway/store.py seen from outside.  Each graph has a *)
(* last position, which only grows and for several graphs at once, and an  *)
(* applied marker, which only grows and never passes the last position.    *)
(* GraphLogStore (rows, locks, transactions), GraphGateway (one graph),    *)
(* SwapSets (groups over several) and GraphReplay (startup) implement it.  *)
(***************************************************************************)
EXTENDS Naturals

CONSTANT Graph

VARIABLES head, marker

vars == <<head, marker>>

Init ==
  /\ head = [g \in Graph |-> 0]
  /\ marker = [g \in Graph |-> 0]

\* A transaction commits its groups: at least one graph gains positions.
Append ==
  /\ head' # head
  /\ UNCHANGED marker
  /\ DOMAIN head' = Graph
  /\ \A g \in Graph : head[g] <= head'[g]

\* advance_applied_position moved one graph's marker.
Advance(g) ==
  /\ marker[g] < marker'[g] /\ marker'[g] <= head[g]
  /\ marker' = [marker EXCEPT ![g] = marker'[g]]
  /\ UNCHANGED head

Next == Append \/ \E g \in Graph : Advance(g)

Spec == Init /\ [][Next]_vars

====
