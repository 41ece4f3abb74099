---------------------------- MODULE MCNumberPool ----------------------------
(* A small instance of NumberPool for TLC. *)
EXTENDS NumberPool, TLC

Symmetry == Permutations(Sweeper)
=============================================================================
