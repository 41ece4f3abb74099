----------------------------- MODULE NumberPool -----------------------------
(***************************************************************************)
(* A pool of tracking numbers (dni): website visitors are shown a number   *)
(* each, a call on a number is tied to the visit that was shown it, and    *)
(* numbers go back to the pool when visits end.                            *)
(*                                                                         *)
(* give_number runs in a transaction that locks the number's row; every    *)
(* other handler reads rows without a lock and saves single columns later, *)
(* so they are split at their statements.  A visit's times are three       *)
(* facts: its expires_at has passed (lapsed), the cool-down after its end  *)
(* has passed (cold), and what is older is found by the order of ids.      *)
(***************************************************************************)
EXTENDS Naturals, FiniteSets

CONSTANTS
    Visitor,       \* visitor ids
    Num,           \* the numbers of the pool
    None,          \* the fallback number; nobody
    Sweeper,       \* workers that may run expire_sessions at the same time
    MaxVisits,     \* bound: visits that get a number
    MaxCalls,      \* bound: calls on pool numbers
    MaxPings,      \* bound: extensions of visits
    MaxOps,        \* bound: floods, and numbers pulled, restored or taken out by hand
    MaxCrashes,    \* bound: workers killed
    MaxEvents      \* bound: calls and these three together

ASSUME NoneAssumption == None \notin Num \cup Visitor
ASSUME BoundsAssumption == {MaxVisits, MaxCalls, MaxPings, MaxOps, MaxCrashes, MaxEvents} \subseteq Nat

Visit == 1 .. MaxVisits
CallId == 1 .. MaxCalls

VARIABLES
    num,       \* DNINumber.status; "gone": taken out of the pool
    visit,     \* the DNISession rows, by the order of their creation
    give,      \* a number request that found no held visit, with the resting numbers it read
    shown,     \* the number on the visitor's page
    ping,      \* the visit a ping has read and will extend
    sweep,     \* expire_sessions: the visits left to do and the one half done
    calls,     \* the calls on pool numbers and the worker that marks their visit
    pull,      \* the number an operator is taking out of rotation, or of the pool
    stray,     \* history: numbers set Available while a visit held them
    orphan,    \* history: numbers whose release a killed worker has lost
    used, pings, ops, crashes

bounds == <<used, pings, ops, crashes>>
vars == <<num, visit, give, shown, ping, sweep, calls, pull, stray, orphan, bounds>>

NumStatus == {"available", "in_use", "quarantined", "gone"}
CallsMade == Cardinality({k \in CallId : calls[k].pc # "none"})
EventLeft == pings + ops + crashes + CallsMade < MaxEvents
Ended == {"expired", "called", "released"}
VisitRow == [st : Ended \cup {"none", "active"}, n : Num \cup {None},
             by : Visitor \cup {None}, lapsed : BOOLEAN, cold : BOOLEAN]
Give == [pc : {"idle", "take"}, resting : SUBSET Num]
Sweep == [todo : SUBSET Visit, at : Visit \cup {0}]
CallRow == [pc : {"none", "came", "read", "saved", "done"}, n : Num \cup {None}, last : 0 .. MaxVisits,
            open : SUBSET Visit, own : 0 .. MaxVisits, tied : 0 .. MaxVisits, mark : 0 .. MaxVisits]

NoVisit == [st |-> "none", n |-> None, by |-> None, lapsed |-> FALSE, cold |-> FALSE]
IdleGive == [pc |-> "idle", resting |-> {}]
IdleSweep == [todo |-> {}, at |-> 0]
NoCall == [pc |-> "none", n |-> None, last |-> 0, open |-> {}, own |-> 0, tied |-> 0, mark |-> 0]

Init ==
    /\ num = [n \in Num |-> "available"]
    /\ visit = [i \in Visit |-> NoVisit]
    /\ give = [v \in Visitor |-> IdleGive]
    /\ shown = [v \in Visitor |-> None]
    /\ ping = [v \in Visitor |-> 0]
    /\ sweep = [w \in Sweeper |-> IdleSweep]
    /\ calls = [k \in CallId |-> NoCall]
    /\ pull = [n |-> None, to |-> "gone"]
    /\ stray = {}
    /\ orphan = {}
    /\ used = 0 /\ pings = 0 /\ ops = 0 /\ crashes = 0

-----------------------------------------------------------------------------
Active(i) == visit[i].st = "active"
Holders(n) == {i \in Visit : Active(i) /\ visit[i].n = n}
Newest(S) == CHOOSE i \in S : \A j \in S : j <= i

(* The visits of v that still stand, as give_number and keep look for them. *)
Held(v) == {i \in Visit : Active(i) /\ visit[i].by = v /\ ~visit[i].lapsed
                             /\ visit[i].n \in Num /\ num[visit[i].n] \notin {"quarantined", "gone"}}

(* cooling_ids: numbers whose last visit ended inside the cool-down. *)
Cooling == {visit[i].n : i \in {i \in Visit : visit[i].st \in Ended /\ ~visit[i].cold}}

Extended(i) == [visit EXCEPT ![i].lapsed = FALSE, ![i].cold = FALSE]

(* A number is set Available: by whom it is held makes no difference. *)
Freed(n) ==
    /\ num' = [num EXCEPT ![n] = "available"]
    /\ stray' = IF Holders(n) = {} THEN stray ELSE stray \cup {n}

-----------------------------------------------------------------------------
(* The visitor's page: number, ping, release.                              *)

(* give_number finds the visitor's own visit and extends it, under a lock. *)
GiveHeld(v) ==
    /\ give[v].pc = "idle" /\ Held(v) # {} /\ pings < MaxPings /\ EventLeft
    /\ pings' = pings + 1
    /\ visit' = Extended(Newest(Held(v)))
    /\ shown' = [shown EXCEPT ![v] = visit[Newest(Held(v))].n]
    /\ UNCHANGED <<num, give, ping, sweep, calls, pull, stray, orphan, used, ops, crashes>>

(* There is none: the resting numbers are read, and the locked query for a *)
(* free number comes after it.                                             *)
GiveLook(v) ==
    /\ give[v].pc = "idle" /\ Held(v) = {}
    /\ used + Cardinality({u \in Visitor : give[u].pc = "take"}) < MaxVisits
    /\ give' = [give EXCEPT ![v] = [pc |-> "take", resting |-> Cooling \cap Num]]
    /\ UNCHANGED <<num, visit, shown, ping, sweep, calls, pull, stray, orphan, bounds>>

Free(v) == {n \in Num : num[n] = "available" /\ n \notin give[v].resting}
On(n) == {i \in Visit : visit[i].n = n}
LastUse(n) == IF On(n) = {} THEN 0 ELSE Newest(On(n))

(* The number used longest ago; one that another request has just locked   *)
(* is skipped.                                                             *)
InTurn(v, n) ==
    Cardinality({m \in Free(v) : LastUse(m) < LastUse(n)})
        <= Cardinality({u \in Visitor \ {v} : give[u].pc = "take"})

GiveTake(v) ==
    /\ give[v].pc = "take"
    /\ give' = [give EXCEPT ![v] = IdleGive]
    /\ \/ /\ Free(v) = {}
          /\ shown' = [shown EXCEPT ![v] = None]
          /\ UNCHANGED <<num, visit, used>>
       \/ \E n \in Free(v) :
             /\ InTurn(v, n)
             /\ num' = [num EXCEPT ![n] = "in_use"]
             /\ visit' = [visit EXCEPT ![used + 1] =
                   [st |-> "active", n |-> n, by |-> v, lapsed |-> FALSE, cold |-> FALSE]]
             /\ used' = used + 1
             /\ shown' = [shown EXCEPT ![v] = n]
    /\ UNCHANGED <<ping, sweep, calls, pull, stray, orphan, pings, ops, crashes>>

PingRead(v) ==
    /\ ping[v] = 0 /\ Held(v) # {} /\ pings < MaxPings /\ EventLeft
    /\ pings' = pings + 1
    /\ ping' = [ping EXCEPT ![v] = Newest(Held(v))]
    /\ UNCHANGED <<num, visit, give, shown, sweep, calls, pull, stray, orphan, used, ops, crashes>>

(* Mutant: the whole row is saved as it was read, its status included. *)
PingSaveRevives(v) ==
    /\ ping[v] # 0
    /\ visit' = [Extended(ping[v]) EXCEPT ![ping[v]].st = "active"]
    /\ ping' = [ping EXCEPT ![v] = 0]
    /\ UNCHANGED <<num, give, shown, sweep, calls, pull, stray, orphan, bounds>>

(* keep updates the row by its key, whatever its status is by now. *)
PingSave(v) ==
    /\ ping[v] # 0
    /\ visit' = Extended(ping[v])
    /\ ping' = [ping EXCEPT ![v] = 0]
    /\ UNCHANGED <<num, give, shown, sweep, calls, pull, stray, orphan, bounds>>

(* The idle limit, or the closed-browser delay let_go has set, passes. *)
Lapse(i) ==
    /\ visit[i].st # "none" /\ ~visit[i].lapsed
    /\ visit' = [visit EXCEPT ![i].lapsed = TRUE]
    /\ UNCHANGED <<num, give, shown, ping, sweep, calls, pull, stray, orphan, bounds>>

(* The cool-down counts from expires_at for a visit that expired: swept    *)
(* late, it may be over at once; and from the end of the visit otherwise.  *)
CoolDown(i) ==
    /\ visit[i].st \in Ended /\ ~visit[i].cold
    /\ visit[i].st = "expired" => visit[i].lapsed
    /\ visit' = [visit EXCEPT ![i].cold = TRUE]
    /\ UNCHANGED <<num, give, shown, ping, sweep, calls, pull, stray, orphan, bounds>>
-----------------------------------------------------------------------------
(* expire_sessions: before every number request, and every five minutes.   *)

SweepRead(w) ==
    /\ sweep[w] = IdleSweep
    /\ \E i \in Visit : Active(i) /\ visit[i].lapsed
    /\ sweep' = [sweep EXCEPT ![w].todo = {i \in Visit : Active(i) /\ visit[i].lapsed}]
    /\ UNCHANGED <<num, visit, give, shown, ping, calls, pull, stray, orphan, bounds>>

(* Mutant: an expired visit is deleted. *)
SweepExpireDeletes(w) ==
    /\ sweep[w].at = 0
    /\ \E i \in sweep[w].todo :
          /\ visit' = [visit EXCEPT ![i] = [NoVisit EXCEPT !.n = visit[i].n]]
          /\ sweep' = [sweep EXCEPT ![w] = [todo |-> @.todo \ {i}, at |-> i]]
    /\ UNCHANGED <<num, give, shown, ping, calls, pull, stray, orphan, bounds>>

SweepExpire(w) ==
    /\ sweep[w].at = 0
    /\ \E i \in sweep[w].todo :
          /\ visit' = [visit EXCEPT ![i].st = "expired"]
          /\ sweep' = [sweep EXCEPT ![w] = [todo |-> @.todo \ {i}, at |-> i]]
    /\ UNCHANGED <<num, give, shown, ping, calls, pull, stray, orphan, bounds>>

(* Mutant: a number whose visit was extended meanwhile is not released. *)
SweepFreeLapsed(w) ==
    /\ sweep[w].at # 0
    /\ LET n == visit[sweep[w].at].n
       IN /\ IF visit[sweep[w].at].lapsed /\ num[n] # "gone" THEN Freed(n) ELSE UNCHANGED <<num, stray>>
          /\ sweep' = [sweep EXCEPT ![w].at = 0]
    /\ UNCHANGED <<visit, give, shown, ping, calls, pull, orphan, bounds>>

(* The number's row is saved as Available; a row deleted since the sweep   *)
(* read it raises an error, and the rest is left to the next sweep.        *)
SweepFree(w) ==
    /\ sweep[w].at # 0
    /\ LET n == visit[sweep[w].at].n
       IN IF num[n] = "gone"
          THEN /\ sweep' \in {[sweep EXCEPT ![w] = IdleSweep], [sweep EXCEPT ![w].at = 0]}
               /\ UNCHANGED <<num, stray>>
          ELSE Freed(n) /\ sweep' = [sweep EXCEPT ![w].at = 0]
    /\ UNCHANGED <<visit, give, shown, ping, calls, pull, orphan, bounds>>

-----------------------------------------------------------------------------
(* Calls on pool numbers: check_inbound, record_call, mark_called.         *)

(* Mutant: the oldest visit that still stands is taken. *)
TiesOldest(n) == {i \in On(n) : \A j \in On(n) : j < i => visit[j].lapsed}
                 \cup (IF \A j \in On(n) : visit[j].lapsed THEN {0} ELSE {})

(* visit_for_call: the newest visit on the number that had not ended more  *)
(* than the grace time before the call.                                    *)
Ties(n) == {i \in On(n) : \A j \in On(n) : j > i => visit[j].lapsed}
           \cup (IF \A j \in On(n) : visit[j].lapsed THEN {0} ELSE {})

Call(k, v) ==
    /\ EventLeft /\ calls[k].pc = "none" /\ \A j \in CallId : j < k => calls[j].pc # "none"
    /\ shown[v] \in Num /\ num[shown[v]] \notin {"quarantined", "gone"}
    /\ LET n == shown[v]
           mine == {i \in Held(v) : visit[i].n = n}
       IN \E t \in Ties(n) :
             calls' = [calls EXCEPT ![k] = [pc |-> "came", n |-> n, last |-> used, tied |-> t, mark |-> 0,
                 open |-> {i \in On(n) : ~visit[i].lapsed},
                 own |-> IF mine = {} \/ n \in stray THEN 0 ELSE Newest(mine)]]
    /\ UNCHANGED <<num, visit, give, shown, ping, sweep, pull, stray, orphan, bounds>>

Done(k) == [NoCall EXCEPT !.pc = "done", !.own = calls[k].own, !.tied = calls[k].tied]

CallMarkRead(k) ==
    /\ calls[k].pc = "came"
    /\ LET S == {i \in Holders(calls[k].n) : i <= calls[k].last /\ (i \in calls[k].open \/ ~visit[i].lapsed)}
       IN calls' = [calls EXCEPT ![k] = IF S = {} THEN Done(k)
                                                  ELSE [@ EXCEPT !.pc = "read", !.mark = Newest(S)]]
    /\ UNCHANGED <<num, visit, give, shown, ping, sweep, pull, stray, orphan, bounds>>

CallMarkSave(k) ==
    /\ calls[k].pc = "read"
    /\ visit' = [visit EXCEPT ![calls[k].mark].st = "called", ![calls[k].mark].cold = FALSE]
    /\ calls' = [calls EXCEPT ![k].pc = "saved"]
    /\ UNCHANGED <<num, give, shown, ping, sweep, pull, stray, orphan, bounds>>

CallMarkFree(k) ==
    /\ calls[k].pc = "saved"
    /\ calls' = [calls EXCEPT ![k] = Done(k)]
    /\ IF num[calls[k].n] = "in_use" THEN Freed(calls[k].n) ELSE UNCHANGED <<num, stray>>
    /\ UNCHANGED <<visit, give, shown, ping, sweep, pull, orphan, bounds>>

(* Too many calls in a minute: the number is pulled, its visits stand.     *)
Flood(n) ==
    /\ num[n] \notin {"quarantined", "gone"} /\ ops < MaxOps /\ EventLeft
    /\ ops' = ops + 1
    /\ num' = [num EXCEPT ![n] = "quarantined"]
    /\ UNCHANGED <<visit, give, shown, ping, sweep, calls, pull, stray, orphan, used, pings, crashes>>

-----------------------------------------------------------------------------
(* The pool page: set_number_status and remove_number.                     *)

(* Its visits are released first ... *)
PullStart(n, to) ==
    /\ pull.n = None /\ num[n] # "gone" /\ ops < MaxOps /\ EventLeft
    /\ ops' = ops + 1
    /\ visit' = [i \in Visit |-> IF i \in Holders(n) THEN [visit[i] EXCEPT !.st = "released", !.cold = FALSE]
                                                     ELSE visit[i]]
    /\ pull' = [n |-> n, to |-> to]
    /\ UNCHANGED <<num, give, shown, ping, sweep, calls, stray, orphan, used, pings, crashes>>

(* ... and then the number is saved as Quarantined, or deleted. *)
PullEnd ==
    /\ pull.n # None
    /\ num' = [num EXCEPT ![pull.n] = pull.to]
    /\ pull' = [pull EXCEPT !.n = None]
    /\ UNCHANGED <<visit, give, shown, ping, sweep, calls, stray, orphan, bounds>>

(* Put back into rotation, whatever its status was. *)
Restore(n) ==
    /\ num[n] # "gone" /\ ops < MaxOps /\ EventLeft
    /\ ops' = ops + 1
    /\ Freed(n)
    /\ UNCHANGED <<visit, give, shown, ping, sweep, calls, pull, orphan, used, pings, crashes>>

(* A killed worker: what it had read is lost, and so is the release of a   *)
(* number whose visit it had already ended.                                *)
KillSweep(w) ==
    /\ sweep[w] # IdleSweep /\ crashes < MaxCrashes /\ EventLeft
    /\ crashes' = crashes + 1
    /\ sweep' = [sweep EXCEPT ![w] = IdleSweep]
    /\ orphan' = IF sweep[w].at = 0 THEN orphan ELSE orphan \cup {visit[sweep[w].at].n}
    /\ UNCHANGED <<num, visit, give, shown, ping, calls, pull, stray, used, pings, ops>>

KillMark(k) ==
    /\ calls[k].pc \in {"read", "saved"} /\ crashes < MaxCrashes /\ EventLeft
    /\ crashes' = crashes + 1
    /\ orphan' = IF calls[k].pc = "read" THEN orphan ELSE orphan \cup {calls[k].n}
    /\ calls' = [calls EXCEPT ![k] = Done(k)]
    /\ UNCHANGED <<num, visit, give, shown, ping, sweep, pull, stray, used, pings, ops>>

-----------------------------------------------------------------------------
SweepStep(w) == SweepRead(w) \/ SweepExpire(w) \/ SweepFree(w)
MarkStep(k) == CallMarkRead(k) \/ CallMarkSave(k) \/ CallMarkFree(k)
PageStep(v) == GiveHeld(v) \/ GiveLook(v) \/ GiveTake(v) \/ PingRead(v) \/ PingSave(v)

Next ==
    \/ \E v \in Visitor : PageStep(v) \/ \E k \in CallId : Call(k, v)
    \/ \E i \in Visit : Lapse(i) \/ CoolDown(i)
    \/ \E w \in Sweeper : SweepStep(w) \/ KillSweep(w)
    \/ \E k \in CallId : MarkStep(k) \/ KillMark(k)
    \/ \E n \in Num : Flood(n) \/ Restore(n) \/ PullStart(n, "quarantined") \/ PullStart(n, "gone")
    \/ PullEnd

(* The beat runs the sweep, the lookup worker marks its calls, a request   *)
(* of the pool page ends, and a visit that is no longer extended runs out. *)
Fairness ==
    /\ \A w \in Sweeper : WF_vars(SweepStep(w))
    /\ \A k \in CallId : WF_vars(MarkStep(k))
    /\ \A i \in Visit : WF_vars(Lapse(i))
    /\ WF_vars(PullEnd)

Spec == Init /\ [][Next]_vars
FairSpec == Spec /\ Fairness

-----------------------------------------------------------------------------
(* Properties.                                                             *)

(* Every variable stays in its type, and a visit that exists has a number. *)
TypeOK ==
    /\ num \in [Num -> NumStatus]
    /\ visit \in [Visit -> VisitRow]
    /\ \A i \in Visit : IF i <= used THEN visit[i].st # "none" /\ visit[i].n \in Num ELSE visit[i] = NoVisit
    /\ give \in [Visitor -> Give]
    /\ shown \in [Visitor -> Num \cup {None}]
    /\ ping \in [Visitor -> 0 .. used]
    /\ sweep \in [Sweeper -> Sweep]
    /\ \A w \in Sweeper : sweep[w].todo \cup {sweep[w].at} \subseteq 0 .. used
    /\ calls \in [CallId -> CallRow]
    /\ pull \in [n : Num \cup {None}, to : {"quarantined", "gone"}]
    /\ stray \subseteq Num /\ orphan \subseteq Num
    /\ used \in 0 .. MaxVisits /\ pings \in 0 .. MaxPings
    /\ ops \in 0 .. MaxOps /\ crashes \in 0 .. MaxCrashes

(* DNINumber: "Each number can only be assigned to one active session at a *)
(* time."  Two visits share a number only after one of the three unlocked  *)
(* writers (the sweep, mark_called, a restore by hand) has set the number  *)
(* Available while a visit held it; however requests, pings, sweeps and    *)
(* calls interleave, there is no other way.                                *)
SharedOnlyIfStray == \A n \in Num : Cardinality(Holders(n)) > 1 => n \in stray

(* visit_for_call: a call made from the page of a standing visit is tied   *)
(* to that visit and to no other, unless its number went astray before.    *)
RightVisit == \A k \in CallId : calls[k].own # 0 => calls[k].tied = calls[k].own

(* expire_sessions: a number does not stay In Use for ever, unless the     *)
(* worker that had to release it was killed between its two saves.         *)
NumbersComeBack == \A n \in Num : num[n] = "in_use" ~> num[n] # "in_use" \/ n \in orphan

(* DNINumber.Status: a quarantined number is "pulled out of rotation (by   *)
(* hand, or a call flood) until restored".                                 *)
QuarantineHolds == [][\A n \in Num : num[n] = "quarantined" /\ num'[n] = "available" => ops' > ops]_vars
=============================================================================
