---------------------------- MODULE MCGraphGateway ----------------------------
EXTENDS GraphGateway, TLC

CONSTANTS w1, w2, o1

\* Request threads differ in name only.
Symmetry == Permutations({w1, w2})
====
