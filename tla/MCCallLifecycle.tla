-------------------------- MODULE MCCallLifecycle --------------------------
(* Small instances of CallLifecycle for TLC. *)
EXTENDS CallLifecycle, TLC

Attempts == 1 .. 2
=============================================================================
