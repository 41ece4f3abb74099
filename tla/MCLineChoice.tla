----------------------------- MODULE MCLineChoice -----------------------------
(* The calls of one caller to three small campaigns.                       *)
EXTENDS LineChoice

CONSTANTS t1, t2, t3, u, b1, b2

Line(n, b, phone, prio, weight) ==
    [num |-> n, buyer |-> b, phone |-> phone, prio |-> prio, weight |-> weight]

MCPage == [b \in {b1, b2} |-> IF b = b1 THEN <<t1, t2>> ELSE <<t3>>]

(* Priorities and weights over the buyers' own numbers.                    *)
OwnNumbers ==
    [page |-> MCPage,
     rules |-> << [kind |-> "priority",
                   lines |-> << Line(t1, b1, TRUE, 1, 1), Line(t3, b2, TRUE, 1, 0), Line(t2, b1, TRUE, 2, 1) >>] >>]

(* A rule line that names its buyer, whose lines rotate, and one number.   *)
ByBuyer ==
    [page |-> MCPage,
     rules |-> << [kind |-> "priority",
                   lines |-> << Line(Blank, b1, FALSE, 1, 1), Line(t3, b2, TRUE, 2, 1) >>] >>]

(* A pool with a number that is on no page, before a second rule.          *)
Pools ==
    [page |-> MCPage,
     rules |-> << [kind |-> "round_robin",
                   lines |-> << Line(u, b1, TRUE, 1, 1), Line(t2, b1, TRUE, 1, 1) >>],
                  [kind |-> "weighted", lines |-> << Line(t3, b2, TRUE, 1, 1) >>] >>]

MCPlans == {OwnNumbers, ByBuyer, Pools}
=============================================================================
