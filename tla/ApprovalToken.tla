----------------------------- MODULE ApprovalToken -----------------------------
(***************************************************************************)
(* What a passkey approval promises, seen from outside: it is consumed at  *)
(* most once, by its signature, by a refused signature or by a revocation, *)
(* and what it approves is logged at most once, after its signature.       *)
(***************************************************************************)
CONSTANT Approval

VARIABLES token,     \* what became of each approval
          ran        \* how often what it approves was logged

tokenVars == <<token, ran>>

Fate == {"none", "pending", "signed", "refused", "void"}

Init ==
  /\ token = [a \in Approval |-> "none"]
  /\ ran = [a \in Approval |-> 0]

Create(a) ==
  /\ token[a] = "none"
  /\ token' = [token EXCEPT ![a] = "pending"]
  /\ UNCHANGED ran

Consume(a) ==
  /\ token[a] = "pending"
  /\ \E fate \in {"signed", "refused"} : token' = [token EXCEPT ![a] = fate]
  /\ UNCHANGED ran

\* A revocation voids approvals together.
Void(voided) ==
  /\ \A a \in voided : token[a] = "pending"
  /\ token' = [a \in Approval |-> IF a \in voided THEN "void" ELSE token[a]]
  /\ UNCHANGED ran

Run(a) ==
  /\ token[a] = "signed" /\ ran[a] = 0
  /\ ran' = [ran EXCEPT ![a] = 1]
  /\ UNCHANGED token

Next ==
  \/ \E a \in Approval : Create(a) \/ Consume(a) \/ Run(a)
  \/ \E voided \in SUBSET Approval : Void(voided)

Spec == Init /\ [][Next]_tokenVars
=============================================================================
