---------------------------- MODULE MCAccountMoney ----------------------------
(* A small instance of AccountMoney: two orders and the operator, or one   *)
(* order beside two runs of the portal fee and the settings page.          *)
EXTENDS AccountMoney, FiniteSets, TLC

CONSTANTS o1, o2, h1, h2, j1, j2

Symmetry == Permutations({o1, o2}) \cup Permutations({h1, h2}) \cup Permutations({j1, j2})

(* Bound: the fee and the page act, and the third day comes, only beside   *)
(* one order with one request at a time, the first of its day, whose       *)
(* callbacks are neither refused nor lost, and no operator.                *)
FeeActs == \/ today = LastDay \/ fees.n > 0 \/ loose \/ saves > 0
           \/ \E j \in Job : job[j].pc # "idle"
OneOrder == /\ Cardinality({o \in Order : order[o] # "none"}) <= 1
            /\ Cardinality({h \in Handler : cb[h].pc # "idle"}) <= 1
            /\ \A o \in Order : number[o][2] <= 1
            /\ again = 0 /\ byHand = 0 /\ refused = {}
Scope == FeeActs => OneOrder
=============================================================================
