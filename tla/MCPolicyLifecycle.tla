--------------------------- MODULE MCPolicyLifecycle ---------------------------
(***************************************************************************)
(* Two owners, one of them a policy manager; a policy P with a fork F, and *)
(* a policy Q; one capability, one standard with one control.              *)
(***************************************************************************)
EXTENDS PolicyLifecycle, TLC

CONSTANTS anna, ben, P, F, Q, cap, std, ctl, c1, c2

PriorOf == [p \in Policy |-> IF p = F THEN P ELSE NoPolicy]

Parent == [k \in Control |-> std]

NoTree == [i \in Item |-> "none"]

Nothing == [status |-> [p \in Policy |-> "none"], owner |-> [p \in Policy |-> NoActor],
            item |-> [p \in Policy |-> NoTree], governs |-> {}]

With(g, p, s, a, item) == [g EXCEPT !.status[p] = s, !.owner[p] = a, !.item[p] = item]

Uniform(s) == [i \in Item |-> s]

Governing(g, p) == [g EXCEPT !.governs = {<<cap, p>>}]

\* An approved policy with an old tree, and its fork proposed.
Amended == Governing(With(With(Nothing, P, "approved", anna, Uniform("unset")),
                          F, "proposed", anna, Uniform("proposed")), P)

\* A draft that claims the capability.
Claimed == Governing(With(Nothing, P, "proposed", anna, [NoTree EXCEPT ![std] = "proposed"]), P)

\* A draft of the second actor, and a fork that took its prior's place.
Drafted == With(Nothing, Q, "draft", ben, [Uniform("draft") EXCEPT ![ctl] = "none"])

Renewed == Governing(With(With(Drafted, P, "deprecated", anna, Uniform("deprecated")),
                          F, "approved", ben, Uniform("approved")), F)

Empty == {Nothing}

Starts == {Nothing, Amended, Claimed, Drafted, Renewed}

Symmetry == Permutations(Caller)
=============================================================================
