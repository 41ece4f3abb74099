--------------------------- MODULE MCFallbackSync ---------------------------
(* Small instances of FallbackSync for TLC. *)
EXTENDS FallbackSync

Posts == 1 .. 2
=============================================================================
