------------------------------ MODULE MCLedger ------------------------------
(* A small instance of Ledger: two reports of one call, the fee of a refused *)
(* call, a portal fee, a Stripe deposit and a save of the settings page, on  *)
(* a balance that does not cover them all.                                   *)
EXTENDS Ledger

Ops == {"hangup", "repeat", "refusal", "portal", "stripe", "page"}
Kinds == [o \in Ops |-> CASE o \in {"hangup", "repeat"} -> "answered"
                          [] o = "refusal" -> "refused"
                          [] o = "portal" -> "fee"
                          [] o = "stripe" -> "deposit"
                          [] o = "page" -> "settings"]
Sids == [o \in Ops |-> IF o = "refusal" THEN "c2" ELSE "c1"]
Amounts == [o \in Ops |-> CASE o = "hangup" -> 3 [] o \in {"repeat", "portal"} -> 2 [] OTHER -> 1]
=============================================================================
