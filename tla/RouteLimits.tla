----------------------------- MODULE RouteLimits -----------------------------
(***************************************************************************)
(* The concurrency limits of a workspace and the route lock that makes     *)
(* them exact (routing/asterisk_handler.py, routing/engine.py).            *)
(*                                                                         *)
(* Routing counts the live calls of the campaign, the buyer and the line,  *)
(* and then saves the call as sent: two steps.  The lock is one cache key  *)
(* per workspace with a time to live and no owner.  A request waits a few  *)
(* seconds for it and then routes anyway, and at its end deletes the key   *)
(* it took, whoever holds it by then.                                      *)
(***************************************************************************)
EXTENDS Naturals, FiniteSets

CONSTANTS
    Request,     \* calls, each with its row and the request that is routing it
    Line,        \* the lines routing can choose
    Pool,        \* those of Round Robin and Weighted rules
    NoLine,      \* an empty destination_number
    Limit,       \* the limits in force: one per campaign, buyer and line with a cap
    Covers,      \* the lines whose calls a limit counts
    Cap,         \* how many it allows
    Campaign,    \* the campaign's own limit
    Nobody,      \* the lock's key is not in the cache
    MaxFaults    \* bound: how often the key times out or a worker is killed

ASSUME RequestAssumption == IsFiniteSet(Request) /\ Nobody \notin Request
ASSUME LimitAssumption ==
    /\ Covers \in [Limit -> SUBSET Line]
    /\ Cap \in [Limit -> Nat \ {0}]
    /\ Campaign \in Limit /\ Covers[Campaign] = Line
    /\ NoLine \notin Line /\ Pool \subseteq Line
ASSUME FaultsAssumption == MaxFaults \in Nat

VARIABLES
    status,    \* the row's status; "ended" once ended_at is set
    line,      \* its destination
    pc,        \* where the request that routes the call is
    key,       \* request._route_lock_key: the requests that took the lock
    owner,     \* who set the key that is in the cache, if it is there
    pick,      \* the line a request has chosen and not saved yet
    tried,     \* the lines that already missed the call
    faults,    \* key timeouts and killed workers so far
    loose      \* history: the live calls saved by a request without the lock

vars == <<status, line, pc, key, owner, pick, tried, faults, loose>>

Init ==
    /\ status = [r \in Request |-> "none"]
    /\ line = [r \in Request |-> NoLine]
    /\ pc = [r \in Request |-> "idle"]
    /\ key = {}
    /\ owner = Nobody
    /\ pick = [r \in Request |-> NoLine]
    /\ tried = [r \in Request |-> {}]
    /\ faults = 0
    /\ loose = {}

-----------------------------------------------------------------------------
Sent(k) == {r \in Request : status[r] = "in_progress" /\ line[r] \in Covers[k]}

(* check_campaign_caps counts the rows that still ring, all but the call's *)
(* own; the buyer's and the line's counts need a destination on the row,   *)
(* and do count the call's own when it asks for its next buyer.            *)
Counted(k, r) == IF k = Campaign
                 THEN (Sent(k) \cup {q \in Request : status[q] = "ringing"}) \ {r}
                 ELSE Sent(k)

Room(k, r) == Cardinality(Counted(k, r)) < Cap[k]

(* _destination_refusal asks the buyer's and the line's limits; a Round     *)
(* Robin or Weighted rule takes its line without asking anything.          *)
Takes(l, r) == l \in Pool \/ \A k \in Limit \ {Campaign} : l \in Covers[k] => Room(k, r)

(* The row is created before the lock is asked for. *)
Create(r) ==
    /\ pc[r] = "idle" /\ status[r] = "none"
    /\ status' = [status EXCEPT ![r] = "ringing"]
    /\ pc' = [pc EXCEPT ![r] = "waiting"]
    /\ UNCHANGED <<line, key, owner, pick, tried, faults, loose>>

(* Mutant: a row without a destination is let through. *)
AskNextUnrouted(r) ==
    /\ pc[r] = "idle" /\ status[r] \in {"ringing", "in_progress"}
    /\ tried' = [tried EXCEPT ![r] = @ \cup {line[r]}]
    /\ pc' = [pc EXCEPT ![r] = "waiting"]
    /\ UNCHANGED <<status, line, key, owner, pick, faults, loose>>

(* Its line did not answer: route_next. *)
AskNext(r) ==
    /\ pc[r] = "idle" /\ status[r] = "in_progress"
    /\ tried' = [tried EXCEPT ![r] = @ \cup {line[r]}]
    /\ pc' = [pc EXCEPT ![r] = "waiting"]
    /\ UNCHANGED <<status, line, key, owner, pick, faults, loose>>

(* cache.add *)
Take(r) ==
    /\ pc[r] = "waiting"
    /\ owner = Nobody
    /\ owner' = r
    /\ key' = key \cup {r}
    /\ pc' = [pc EXCEPT ![r] = "decide"]
    /\ UNCHANGED <<status, line, pick, tried, faults, loose>>

(* ROUTE_LOCK_WAIT is over, or the cache is down: "routing anyway". *)
GiveUp(r) ==
    /\ pc[r] = "waiting"
    /\ pc' = [pc EXCEPT ![r] = "decide"]
    /\ UNCHANGED <<status, line, key, owner, pick, tried, faults, loose>>

(* Mutant: the buyer's and the line's limits are off by one. *)
DecideOffByOne(r) ==
    /\ pc[r] = "decide"
    /\ Room(Campaign, r)
    /\ \E l \in Line \ tried[r] :
          /\ \A k \in Limit \ {Campaign} : l \in Covers[k] => Cardinality(Counted(k, r)) <= Cap[k]
          /\ pick' = [pick EXCEPT ![r] = l]
    /\ pc' = [pc EXCEPT ![r] = "save"]
    /\ UNCHANGED <<status, line, key, owner, tried, faults, loose>>

(* RoutingEngine.route_call finds a line with room. *)
Decide(r) ==
    /\ pc[r] = "decide"
    /\ Room(Campaign, r)
    /\ \E l \in Line \ tried[r] : Takes(l, r) /\ pick' = [pick EXCEPT ![r] = l]
    /\ pc' = [pc EXCEPT ![r] = "save"]
    /\ UNCHANGED <<status, line, key, owner, tried, faults, loose>>

(* No room: a new call is refused, a call that asked for its next buyer    *)
(* keeps its row as it is.                                                 *)
Refuse(r) ==
    /\ pc[r] = "decide"
    /\ \/ ~Room(Campaign, r)
       \/ \A l \in Line \ tried[r] : ~Takes(l, r)
    /\ status' = [status EXCEPT ![r] = IF @ = "ringing" THEN "failed" ELSE @]
    /\ pc' = [pc EXCEPT ![r] = "release"]
    /\ UNCHANGED <<line, key, owner, pick, tried, faults, loose>>

(* _send_to_destination.  A call that has ended meanwhile keeps its        *)
(* ended_at, so no limit counts it.                                        *)
Save(r) ==
    /\ pc[r] = "save"
    /\ status' = [status EXCEPT ![r] = IF @ = "ended" THEN @ ELSE "in_progress"]
    /\ line' = [line EXCEPT ![r] = pick[r]]
    /\ loose' = IF status[r] = "ended" \/ (owner = r /\ r \in key) THEN loose \ {r} ELSE loose \cup {r}
    /\ pick' = [pick EXCEPT ![r] = NoLine]
    /\ pc' = [pc EXCEPT ![r] = "release"]
    /\ UNCHANGED <<key, owner, tried, faults>>

(* Mutant: the key is deleted by a request that never took it. *)
ReleaseAlways(r) ==
    /\ pc[r] = "release"
    /\ owner' = Nobody
    /\ key' = key \ {r}
    /\ pc' = [pc EXCEPT ![r] = "idle"]
    /\ UNCHANGED <<status, line, pick, tried, faults, loose>>

(* The finally clause: cache.delete of the key this request took. *)
Release(r) ==
    /\ pc[r] = "release"
    /\ owner' = IF r \in key THEN Nobody ELSE owner
    /\ key' = key \ {r}
    /\ pc' = [pc EXCEPT ![r] = "idle"]
    /\ UNCHANGED <<status, line, pick, tried, faults, loose>>

(* ROUTE_LOCK_SECONDS: the key times out. *)
Expire ==
    /\ owner # Nobody
    /\ faults < MaxFaults
    /\ faults' = faults + 1
    /\ owner' = Nobody
    /\ UNCHANGED <<status, line, pc, key, pick, tried, loose>>

(* The worker is killed: its key stays in the cache until it times out. *)
Die(r) ==
    /\ pc[r] # "idle"
    /\ faults < MaxFaults
    /\ faults' = faults + 1
    /\ pc' = [pc EXCEPT ![r] = "idle"]
    /\ key' = key \ {r}
    /\ pick' = [pick EXCEPT ![r] = NoLine]
    /\ UNCHANGED <<status, line, owner, tried, loose>>

(* The hang-up report, or a sweep, sets ended_at, at whatever point the    *)
(* request that routes the call is.                                        *)
End(r) ==
    /\ status[r] \in {"ringing", "in_progress"}
    /\ status' = [status EXCEPT ![r] = "ended"]
    /\ loose' = loose \ {r}
    /\ UNCHANGED <<line, pc, key, owner, pick, tried, faults>>

-----------------------------------------------------------------------------
Handler(r) == Take(r) \/ GiveUp(r) \/ Decide(r) \/ Refuse(r) \/ Save(r) \/ Release(r)

Next == \/ \E r \in Request : Create(r) \/ AskNext(r) \/ Handler(r) \/ Die(r) \/ End(r)
        \/ Expire

Spec == Init /\ [][Next]_vars

-----------------------------------------------------------------------------
(* Properties.                                                             *)

(* Every variable stays in its type. *)
TypeOK ==
    /\ status \in [Request -> {"none", "ringing", "in_progress", "ended", "failed"}]
    /\ line \in [Request -> Line \cup {NoLine}]
    /\ pc \in [Request -> {"idle", "waiting", "decide", "save", "release"}]
    /\ key \subseteq Request
    /\ owner \in Request \cup {Nobody}
    /\ pick \in [Request -> Line \cup {NoLine}]
    /\ tried \in [Request -> SUBSET Line]
    /\ faults \in 0 .. MaxFaults
    /\ loose \subseteq Request

(* The limits that every line they cover is asked about. *)
Kept == {k \in Limit : k = Campaign \/ Covers[k] \cap Pool = {}}

(* The live calls that were saved under the lock never exceed a limit of   *)
(* the campaign, the buyer or the line.  Each request that routed without  *)
(* the lock adds at most itself.                                           *)
LimitsExact == \A k \in Kept : Cardinality(Sent(k) \ loose) <= Cap[k]

(* "Buyer, line and campaign concurrency limits are exact" (CH-467): the   *)
(* same of every limit, those of the lines of Round Robin and Weighted     *)
(* rules included.                                                         *)
EveryLimitExact == \A k \in Limit : Cardinality(Sent(k) \ loose) <= Cap[k]

(* _take_route_lock and the finally clause: although a request deletes the *)
(* key without looking whose it is, each timeout of the key lets at most   *)
(* one more request route at the same time.                                *)
HoldersBounded == Cardinality(key) <= 1 + faults

(* check_campaign_caps: "'Campaign cap reached' is reserved for a FULL     *)
(* concurrency limit".                                                     *)
OverflowOnlyWhenFull ==
    [][\A r \in Request : status[r] = "ringing" /\ status'[r] = "failed" /\ ~Room(Campaign, r)
                            => Cardinality(Sent(Campaign) \ {r}) >= Cap[Campaign]]_vars
=============================================================================
