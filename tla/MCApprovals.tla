------------------------------ MODULE MCApprovals ------------------------------
(***************************************************************************)
(* A merge and its reversal, both issued to one officer, whose approval of *)
(* a merge may also be signed by a second officer; one passkey each.       *)
(***************************************************************************)
EXTENDS Approvals, TLC

CONSTANTS c1, c2, m1, u, key, keyB, anna, ben

IssuedTo == [a \in Approval |-> anna]

EnrolledBy == [k \in Credential |-> IF k = keyB THEN ben ELSE anna]

Symmetry == Permutations(Caller)
=============================================================================
