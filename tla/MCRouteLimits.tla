--------------------------- MODULE MCRouteLimits ---------------------------
(* A small instance of RouteLimits: one buyer with two lines, one of them    *)
(* with a cap of its own, and a campaign.                                    *)
EXTENDS RouteLimits, TLC

CONSTANTS l1, l2

Lines == {l1, l2}
Limits == {"campaign", "buyer", "line"}
Covered == [k \in Limits |-> IF k = "line" THEN {l1} ELSE Lines]
Maxima == [k \in Limits |-> IF k = "line" THEN 1 ELSE 2]
Symmetry == Permutations(Request)
=============================================================================
