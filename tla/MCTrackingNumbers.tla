-------------------------- MODULE MCTrackingNumbers --------------------------
(* A tracking number on a small instance.                                  *)
EXTENDS TrackingNumbers, TLC

CONSTANTS o1, o2, u1, u2

Symmetry == Permutations(Org) \cup Permutations(User)
=============================================================================
