---------------------------- MODULE MCGraphLogStore ----------------------------
EXTENDS GraphLogStore, TLC

CONSTANTS s1, s2

\* Two appenders differ in name only.
Symmetry == Permutations({s1, s2})
====
