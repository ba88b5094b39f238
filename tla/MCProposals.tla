---------------------------- MODULE MCProposals ----------------------------
(* Small instances of Proposals for TLC.                                     *)
EXTENDS Proposals, TLC

CONSTANTS s1, s2, clarify, plan1, plan2, breakdown, replan, late, costly

MCKindOf == [k \in Keys |-> CASE k = clarify -> "clarify"
                              [] k \in {plan1, plan2} -> "plan"
                              [] k = breakdown -> "breakdown"
                              [] k = replan -> "replan"]

\* Reasons matter to the memory of a rejection only, which is the same for all.
MCReasonsFor == [k \in Keys |-> IF k = clarify THEN Reasons ELSE {}]

\* Sessions are alike, and so are the two calls of the plan tool and the reasons.
Symmetry == Permutations({s1, s2}) \cup Permutations({plan1, plan2})
            \cup Permutations({late, costly})
=============================================================================
