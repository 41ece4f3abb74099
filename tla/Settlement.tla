----------------------------- MODULE Settlement -----------------------------
(***************************************************************************)
(* What the platform promises about the money of a call, without a word    *)
(* about rows, reports and workers.  A call is open while the switch works *)
(* on it, over when its report is due, and closed when the switch has been *)
(* told that the report was taken and forgets the call.  CallLifecycle     *)
(* implements this specification (its property ImplementsSettlement).      *)
(***************************************************************************)
CONSTANT Call

VARIABLES
    phase,     \* "open", "over" or "closed"
    owed,      \* "no": no minutes may be charged; "may": they may; "must": they have to be
    billed     \* "no", "fee", "forgiven" or "minutes"

svars == <<phase, owed, billed>>

Init ==
    /\ phase = [c \in Call |-> "open"]
    /\ owed = [c \in Call |-> "no"]
    /\ billed = [c \in Call |-> "no"]

Unbilled(c) == billed[c] \in {"no", "forgiven"}

(* A buyer answers, or a report is taken for that of an answered call. *)
Claim(c) ==
    /\ owed[c] = "no"
    /\ owed' = [owed EXCEPT ![c] = "may"]
    /\ UNCHANGED <<phase, billed>>

(* A report that names no call is taken for this one's. *)
Doubt(c) ==
    /\ owed[c] = "must"
    /\ owed' = [owed EXCEPT ![c] = "may"]
    /\ UNCHANGED <<phase, billed>>

(* The call ends; with its end, a call that was answered may become one    *)
(* that has to be paid, and the end itself may be an answer.               *)
HangUp(c) ==
    /\ phase[c] = "open"
    /\ phase' = [phase EXCEPT ![c] = "over"]
    /\ \E o \in IF owed[c] = "no" THEN {"no", "may"} ELSE {"may", "must"} :
          /\ o = "must" => billed[c] # "fee"
          /\ owed' = [owed EXCEPT ![c] = o]
    /\ UNCHANGED billed

(* Minutes that are not owed are never charged; what is booked stays. *)
Bill(c) ==
    /\ owed[c] # "no" /\ Unbilled(c)
    /\ billed' = [billed EXCEPT ![c] = "minutes"]
    /\ UNCHANGED <<phase, owed>>

(* The charge of owed minutes was tried and came to nothing. *)
Forgive(c) ==
    /\ owed[c] # "no" /\ billed[c] = "no"
    /\ billed' = [billed EXCEPT ![c] = "forgiven"]
    /\ UNCHANGED <<phase, owed>>

(* The fee of a missed call, never in place of minutes that must be paid. *)
Fee(c) ==
    /\ owed[c] # "must" /\ Unbilled(c)
    /\ billed' = [billed EXCEPT ![c] = "fee"]
    /\ UNCHANGED <<phase, owed>>

(* The switch may forget a call that has to be paid only when its minutes  *)
(* have been charged or forgiven.                                          *)
Close(c) ==
    /\ phase[c] = "over"
    /\ owed[c] = "must" => billed[c] \in {"minutes", "forgiven"}
    /\ phase' = [phase EXCEPT ![c] = "closed"]
    /\ UNCHANGED <<owed, billed>>

Next == \E c \in Call :
    Claim(c) \/ Doubt(c) \/ HangUp(c) \/ Bill(c) \/ Forgive(c) \/ Fee(c) \/ Close(c)

Spec == Init /\ [][Next]_svars
=============================================================================
