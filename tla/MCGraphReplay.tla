----------------------------- MODULE MCGraphReplay -----------------------------
(***************************************************************************)
(* Model values for GraphReplay.  After two positions the log's graph is   *)
(* empty again (a node created and deleted).                               *)
(***************************************************************************)
EXTENDS GraphReplay, TLC

EmptyAfterTwo == {0, 2}

Symmetry == Permutations(Graph)
=============================================================================
