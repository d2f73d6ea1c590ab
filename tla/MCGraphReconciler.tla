--------------------------- MODULE MCGraphReconciler ---------------------------
(***************************************************************************)
(* Model values for GraphReconciler.                                       *)
(***************************************************************************)
EXTENDS GraphReconciler, TLC

Symmetry == Permutations(Worker)
=============================================================================
