--------------------------- MODULE MCRepeatReports ---------------------------
(* The tries of one call on a small instance.                              *)
EXTENDS RepeatReports, TLC

Symmetry == Permutations(Try)
=============================================================================
