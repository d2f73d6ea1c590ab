------------------------------ MODULE MCSwapSets ------------------------------
EXTENDS SwapSets

\* One request thread, and one thread that is the reconciler and the operator in turn.
CONSTANTS w1, r1
=============================================================================
