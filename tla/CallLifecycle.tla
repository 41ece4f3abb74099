--------------------------- MODULE CallLifecycle ---------------------------
(***************************************************************************)
(* The life of one call row (routing.models.CallLog), from the moment the  *)
(* switch (Server A, Asterisk) asks the platform (Server B, Django) for a  *)
(* buyer until the row is finished and paid for.                           *)
(*                                                                         *)
(* Every HTTP handler of Server B is split at its database statements:     *)
(* the database is in autocommit, the web service runs several workers,    *)
(* and no handler locks the row, so any two handlers interleave between    *)
(* a read of the row and the save that follows it.                         *)
(*                                                                         *)
(* Time is abstracted: a row may be old enough for a sweep at any moment,  *)
(* and a request may time out at any moment while it is unanswered.        *)
(***************************************************************************)
EXTENDS Naturals, FiniteSets

CONSTANTS
    Call,          \* calls, all of one caller: the worst case for a blind report
    Line,          \* the buyers' lines (TFNs) a campaign can dial
    NoLine,        \* an empty destination_number
    Attempt,       \* how many hang-up reports of a call B may process at once
    Failover,      \* FAILOVER_RING_SECONDS > 0
    HeldRelay,     \* the SIP relay that holds our CANCEL is installed
    BlindAssumes,  \* BLIND_HANGUP_ASSUMES_ANSWERED
    ZeroIsMissed,  \* ZERO_SECOND_ANSWER_IS_NOT_CONNECTED
    MaxTries,      \* FAILOVER_MAX_TRIES
    Strikes,       \* ASTERISK_SYNC_STRIKES
    MaxCrashes,    \* bound: restarts of Server B
    MaxTimeouts,   \* bound: hang-up reports the switch gives up waiting for
    MaxOdd,        \* bound: channel lists that miss a call which is up
    MaxFaults      \* bound: all of these together

ASSUME LineAssumption == NoLine \notin Line
ASSUME SwitchesAssumption ==
    {Failover, HeldRelay, BlindAssumes, ZeroIsMissed} \subseteq BOOLEAN
ASSUME BoundsAssumption ==
    /\ MaxTries \in Nat \ {0}
    /\ Strikes \in Nat \ {0}
    /\ MaxCrashes \in Nat
    /\ MaxTimeouts \in Nat
    /\ MaxOdd \in Nat
    /\ MaxFaults \in Nat

VARIABLES
    row,       \* the CallLog row: status, block_reason, ended_at set, destination_number
    older,     \* created_at: the rows that were there when this one was created
    tries,     \* the lines kept as hidden "#try" rows of the call
    held,      \* the cache key held_answer:<id>
    misses,    \* the cache counter asterisk_sync_miss:<id>
    paid,      \* what the CHARGE transaction of the call's sid took, if any
    sw,        \* the switch's side of the call, with the line it dials
    rep,       \* the hang-up report on the switch (call_ended.sh and its spool)
    route,     \* the route request of the call on Server B
    next,      \* its latest route-next request
    ends,      \* its hang-up reports being processed
    relay,     \* its held-answer report
    sweep,     \* the two sweeps that are about to close its row
    crashes,   \* restarts so far
    timeouts,  \* reports given up on so far
    odd,       \* odd channel lists so far
    truth,     \* history: how the last dial really ended
    rang,      \* history: the lines that rang and did not take the call
    blind      \* history: what a report without an id did to the row

bVars == <<row, older, tries, held, misses, paid>>
aVars == <<sw, rep, truth, rang>>
jobs == <<route, next, ends, relay, sweep>>
bounds == <<crashes, timeouts, odd>>
vars == <<bVars, aVars, jobs, bounds, blind>>

FaultLeft == crashes + timeouts + odd < MaxFaults

Live == {"ringing", "in_progress"}
Swept == {"asterisk_gone", "stale_timeout"}
Sweeper == {"sync", "stale"}

(* "fee": the VoIP Shield fee of a call that was taken for missed;         *)
(* "minutes": the minutes of an answered one; "forgiven" (history): there  *)
(* is no CHARGE, though one for the minutes was tried.                     *)
Charge == {"no", "fee", "forgiven", "minutes"}

Status == Live \cup {"none", "completed", "no_answer", "failed"}
Reason == Swept \cup {"", "Not Connected", "No Answer", "refused"}
Row == [status : Status, reason : Reason, ended : BOOLEAN, dest : Line \cup {NoLine}]

(* What A knows of a call, and where B's handlers of it are. *)
Up == {"asking", "ready", "ringing", "nextask", "talking", "moved"}
Channel == [pc : Up \cup {"idle", "down"}, line : Line \cup {NoLine}]
Report == [st : {"none", "due", "posted", "acked"}, id : BOOLEAN,
           ds : {"", "ANSWER", "CANCEL", "MISS"}, secs : BOOLEAN, try : Attempt \cup {0}]
RouteJob == [pc : {"none", "sent", "decide", "dial", "hangup", "lost"}, line : Line \cup {NoLine}]
NextJob == [pc : {"idle", "sent", "decide", "save", "dial", "hangup", "lost"},
            tried : SUBSET Line, dest : Line \cup {NoLine}]
EndJob == [pc : {"idle", "save", "charge", "ack"}, of : Call, out : Row, pays : BOOLEAN]
RelayJob == [pc : {"none", "sent", "remember", "mark", "charge", "done"}, out : Row]

NoRow == [status |-> "none", reason |-> "", ended |-> FALSE, dest |-> NoLine]
NoReport == [st |-> "none", id |-> FALSE, ds |-> "", secs |-> FALSE, try |-> 0]
IdleEnd(c) == [pc |-> "idle", of |-> c, out |-> NoRow, pays |-> FALSE]
IdleRelay == [pc |-> "none", out |-> NoRow]
IdleRoute == [pc |-> "none", line |-> NoLine]
IdleNext == [pc |-> "idle", tried |-> {}, dest |-> NoLine]

Init ==
    /\ row = [c \in Call |-> NoRow]
    /\ older = [c \in Call |-> {}]
    /\ tries = [c \in Call |-> {}]
    /\ held = [c \in Call |-> FALSE]
    /\ misses = [c \in Call |-> 0]
    /\ paid = [c \in Call |-> "no"]
    /\ sw = [c \in Call |-> [pc |-> "idle", line |-> NoLine]]
    /\ rep = [c \in Call |-> NoReport]
    /\ route = [c \in Call |-> IdleRoute]
    /\ next = [c \in Call |-> IdleNext]
    /\ ends = [c \in Call |-> [i \in Attempt |-> IdleEnd(c)]]
    /\ relay = [c \in Call |-> IdleRelay]
    /\ sweep = [c \in Call |-> [s \in Sweeper |-> "idle"]]
    /\ crashes = 0
    /\ timeouts = 0
    /\ odd = 0
    /\ truth = [c \in Call |-> "none"]
    /\ rang = [c \in Call |-> {}]
    /\ blind = [c \in Call |-> "no"]

-----------------------------------------------------------------------------
(* Server B: the route request (route_incoming_call).                      *)

RouteCreate(c) ==
    /\ route[c].pc = "sent"
    /\ row' = [row EXCEPT ![c].status = "ringing"]
    /\ older' = [older EXCEPT ![c] = {d \in Call : row[d].status # "none"}]
    /\ route' = [route EXCEPT ![c].pc = "decide"]
    /\ UNCHANGED <<tries, held, misses, paid, aVars, next, ends, relay, sweep, bounds, blind>>

(* Mutant: a destination that is already on the row is kept. *)
SendToKeepsLine(c, l) ==
    row' = [row EXCEPT ![c].status = "in_progress", ![c].dest = IF @ = NoLine THEN l ELSE @]

(* _send_to_destination saves only the columns it names: a block_reason or *)
(* an ended_at that another handler has written meanwhile stays.           *)
SendTo(c, l) == row' = [row EXCEPT ![c].status = "in_progress", ![c].dest = l]

RouteDecide(c) ==
    /\ route[c].pc = "decide"
    /\ \E l \in Line : SendTo(c, l) /\ route' = [route EXCEPT ![c] = [pc |-> "dial", line |-> l]]
    /\ UNCHANGED <<older, tries, held, misses, paid, aVars, next, ends, relay, sweep, bounds, blind>>

RouteRefuse(c) ==
    /\ route[c].pc = "decide"
    /\ \E s \in {"failed", "no_answer"} :
          row' = [row EXCEPT ![c].status = s, ![c].reason = "refused", ![c].ended = TRUE]
    /\ route' = [route EXCEPT ![c].pc = "hangup"]
    /\ UNCHANGED <<older, tries, held, misses, paid, aVars, next, ends, relay, sweep, bounds, blind>>

-----------------------------------------------------------------------------
(* Mutant: only the row's own destination counts as tried. *)
NextReadForgetsTries(c) ==
    /\ next[c].pc = "sent"
    /\ LET on == row[c].status \in Live /\ row[c].dest # NoLine
       IN next' = [next EXCEPT ![c] = IF on THEN [pc |-> "decide", tried |-> {row[c].dest}, dest |-> row[c].dest]
                                            ELSE [@ EXCEPT !.pc = "hangup"]]
    /\ UNCHANGED <<bVars, aVars, route, ends, relay, sweep, bounds, blind>>

(* Server B: the next buyer (route_next).  The row is read and found live  *)
(* before the route lock is waited for; the miss and the new destination   *)
(* are written after it.                                                   *)

NextRead(c) ==
    /\ next[c].pc = "sent"
    /\ LET tried == (tries[c] \cup {row[c].dest}) \ {NoLine}
           on == row[c].status \in Live /\ row[c].dest # NoLine /\ Cardinality(tried) < MaxTries
       IN next' = [next EXCEPT ![c] = IF on THEN [pc |-> "decide", tried |-> tried, dest |-> row[c].dest]
                                            ELSE [@ EXCEPT !.pc = "hangup"]]
    /\ UNCHANGED <<bVars, aVars, route, ends, relay, sweep, bounds, blind>>

NextRefuse(c) ==
    /\ next[c].pc = "decide"
    /\ next' = [next EXCEPT ![c].pc = "hangup"]
    /\ UNCHANGED <<bVars, aVars, route, ends, relay, sweep, bounds, blind>>

(* failover.record_miss: the line just missed is kept as a hidden row. *)
NextRecord(c) ==
    /\ next[c].pc = "decide"
    /\ Line \ next[c].tried # {}
    /\ tries' = [tries EXCEPT ![c] = @ \cup {next[c].dest}]
    /\ next' = [next EXCEPT ![c].pc = "save"]
    /\ UNCHANGED <<row, older, held, misses, paid, aVars, route, ends, relay, sweep, bounds, blind>>

NextSave(c) ==
    /\ next[c].pc = "save"
    /\ \E l \in Line \ next[c].tried :
          /\ SendTo(c, l)
          /\ next' = [next EXCEPT ![c].pc = "dial", ![c].dest = l]
    /\ UNCHANGED <<older, tries, held, misses, paid, aVars, route, ends, relay, sweep, bounds, blind>>

-----------------------------------------------------------------------------
(* Server B: the hang-up report (call_ended).                              *)

(* A report without an id is matched to a row of the same caller: an open  *)
(* one, in progress before ringing, else one a sweep closed; the newest.   *)
Rank(c) == CASE row[c].status = "in_progress" -> 4
             [] row[c].status = "ringing" -> 3
             [] row[c].status \notin Live /\ row[c].reason = "asterisk_gone" -> 2
             [] row[c].status \notin Live /\ row[c].reason = "stale_timeout" -> 1
             [] OTHER -> 0

BlindMatches == {c \in Call : /\ Rank(c) > 0
                              /\ \A d \in Call \ {c} : \/ Rank(d) < Rank(c)
                                                       \/ Rank(d) = Rank(c) /\ d \in older[c]}

(* No id, no dial result, a destination, and a row at least five seconds   *)
(* older than the hang-up (`old`): taken for an answered call.             *)
Assumes(r, p, old) == BlindAssumes /\ ~p.id /\ p.ds = "" /\ old /\ r.dest # NoLine

(* Mutant: an answer of zero seconds counts as connected. *)
OutcomeCountsZero(r, p, assumed, took) ==
    LET answered == p.ds = "ANSWER" \/ assumed \/ took
    IN [pays |-> answered,
        out |-> [status |-> IF answered THEN "completed" ELSE "no_answer",
                 reason |-> IF answered /\ r.reason \in Swept THEN "" ELSE r.reason,
                 ended |-> TRUE,
                 dest |-> r.dest]]

(* What the report `p` makes of the row `r` it has read; `took` is a held  *)
(* answer found in the cache.                                              *)
Outcome(r, p, assumed, took) ==
    LET picked == p.ds = "ANSWER" \/ assumed \/ took
        zero == picked /\ p.ds = "ANSWER" /\ ~p.secs /\ ZeroIsMissed
        answered == picked /\ ~zero
        open == r.status \in Live /\ r.dest # NoLine
        kept == IF zero /\ r.dest # NoLine /\ r.reason \in Swept \cup {""} THEN "Not Connected"
                ELSE IF answered /\ r.reason \in Swept THEN "" ELSE r.reason
        why == CASE p.ds = "MISS" -> "No Answer"
                 [] p.ds = "CANCEL" \/ (p.ds = "" /\ open) -> "Not Connected"
                 [] OTHER -> ""
    IN [pays |-> answered,
        out |-> [status |-> IF answered THEN "completed" ELSE "no_answer",
                 reason |-> IF ~answered /\ r.dest # NoLine /\ kept = "" THEN why ELSE kept,
                 ended |-> TRUE,
                 dest |-> r.dest]]

(* No row matches: the report is answered and dropped. *)
EndUnmatched(c, i) ==
    /\ ends' = [ends EXCEPT ![c][i].pc = "ack"]
    /\ UNCHANGED <<held, blind>>

(* The row of call d is the one: the held answer is taken out of the cache *)
(* and the row to be saved is made up.                                     *)
EndMatched(c, i, d, old) ==
    LET assumed == Assumes(row[d], rep[c], old)
        took == held[d] /\ row[d].dest # NoLine /\ rep[c].ds # "ANSWER" /\ ~assumed
        o == Outcome(row[d], rep[c], assumed, took)
    IN /\ ends' = [ends EXCEPT ![c][i] = [pc |-> "save", of |-> d, out |-> o.out, pays |-> o.pays]]
       /\ held' = [held EXCEPT ![d] = @ /\ ~took]
       /\ blind' = [blind EXCEPT ![d] = IF assumed \/ @ = "assumed" THEN "assumed"
                                        ELSE IF rep[c].id THEN @ ELSE "hit"]

(* The report reaches attempt i, the first that is free, and the row is    *)
(* found and read.                                                         *)
EndRead(c, i) ==
    /\ rep[c].st = "due"
    /\ ends[c][i].pc = "idle" /\ \A j \in Attempt : j < i => ends[c][j].pc # "idle"
    /\ rep' = [rep EXCEPT ![c].st = "posted", ![c].try = i]
    /\ \E found \in IF rep[c].id THEN {{c}} ELSE {BlindMatches, {}} :
          IF found = {} THEN EndUnmatched(c, i)
          ELSE \E d \in found, old \in BOOLEAN : EndMatched(c, i, d, old)
    /\ UNCHANGED <<row, older, tries, misses, paid, sw, truth, rang, route, next, relay, sweep, bounds>>

(* Mutant: a row that is already Completed is taken for a settled one. *)
EndSaveSettledOnce(c, i) ==
    /\ ends[c][i].pc = "save"
    /\ row' = [row EXCEPT ![ends[c][i].of] = ends[c][i].out]
    /\ ends' = [ends EXCEPT ![c][i].pc = IF row[ends[c][i].of].status = "completed" THEN "ack" ELSE "charge",
                            ![c][i].out = NoRow]
    /\ UNCHANGED <<older, tries, held, misses, paid, aVars, route, next, relay, sweep, bounds, blind>>

(* settle_call_money: call_log.save() writes every column as it was read. *)
EndSave(c, i) ==
    /\ ends[c][i].pc = "save"
    /\ row' = [row EXCEPT ![ends[c][i].of] = ends[c][i].out]
    /\ ends' = [ends EXCEPT ![c][i].pc = "charge", ![c][i].out = NoRow]
    /\ UNCHANGED <<older, tries, held, misses, paid, aVars, route, next, relay, sweep, bounds, blind>>

(* Mutant: no look for a CHARGE that is there. *)
ChargedAnew(had, pays) ==
    IF pays THEN {"minutes", "forgiven"} ELSE {"fee", had}

(* What settle_call_money leaves under the sid of a call for which it had  *)
(* already booked `had`.  charge_call returns a CHARGE that is there,      *)
(* whatever it was for.  Else an answered call pays its minutes, unless    *)
(* the charge fails (logged and swallowed), finds no account or comes to   *)
(* nothing; a missed one pays only a fee, and only if it was checked.      *)
Charged(had, pays) ==
    IF had \in {"fee", "minutes"} THEN {had}
    ELSE IF pays THEN {"minutes", "forgiven"} ELSE {"fee", had}

EndCharge(c, i) ==
    /\ ends[c][i].pc = "charge"
    /\ LET d == ends[c][i].of
       IN \E p \in Charged(paid[d], ends[c][i].pays) : paid' = [paid EXCEPT ![d] = p]
    /\ ends' = [ends EXCEPT ![c][i] = [IdleEnd(c) EXCEPT !.pc = "ack"]]
    /\ UNCHANGED <<row, older, tries, held, misses, aVars, route, next, relay, sweep, bounds, blind>>

(* The 200 OK.  It counts only if the switch still waits for this attempt. *)
EndAck(c, i) ==
    /\ ends[c][i].pc = "ack"
    /\ ends' = [ends EXCEPT ![c][i] = IdleEnd(c)]
    /\ rep' = [rep EXCEPT ![c].st = IF @ = "posted" /\ rep[c].try = i THEN "acked" ELSE @]
    /\ UNCHANGED <<bVars, sw, truth, rang, route, next, relay, sweep, bounds, blind>>

-----------------------------------------------------------------------------
(* Server B: the SIP relay's report (held_answer_report, late_answer.mark). *)

HeldRead(c) ==
    /\ relay[c].pc = "sent"
    /\ relay' = [relay EXCEPT ![c] =
          IF row[c].status = "no_answer" /\ row[c].reason = "Not Connected"
          THEN [pc |-> "mark", out |-> [row[c] EXCEPT !.status = "completed", !.reason = ""]]
          ELSE [IdleRelay EXCEPT !.pc = IF row[c].status \in Live THEN "remember" ELSE "done"]]
    /\ UNCHANGED <<bVars, aVars, route, next, ends, sweep, bounds, blind>>

HeldRemember(c) ==
    /\ relay[c].pc = "remember"
    /\ held' = [held EXCEPT ![c] = TRUE]
    /\ relay' = [relay EXCEPT ![c] = [IdleRelay EXCEPT !.pc = "done"]]
    /\ UNCHANGED <<row, older, tries, misses, paid, aVars, route, next, ends, sweep, bounds, blind>>

HeldMark(c) ==
    /\ relay[c].pc = "mark"
    /\ row' = [row EXCEPT ![c] = relay[c].out]
    /\ relay' = [relay EXCEPT ![c] = [IdleRelay EXCEPT !.pc = "charge"]]
    /\ UNCHANGED <<older, tries, held, misses, paid, aVars, route, next, ends, sweep, bounds, blind>>

HeldCharge(c) ==
    /\ relay[c].pc = "charge"
    /\ \E p \in Charged(paid[c], TRUE) : paid' = [paid EXCEPT ![c] = p]
    /\ relay' = [relay EXCEPT ![c] = [IdleRelay EXCEPT !.pc = "done"]]
    /\ UNCHANGED <<row, older, tries, held, misses, aVars, route, next, ends, sweep, bounds, blind>>

(* held_answer.TTL: the cache forgets the answer after fifteen minutes. *)
HeldExpire(c) ==
    /\ held[c]
    /\ held' = [held EXCEPT ![c] = FALSE]
    /\ UNCHANGED <<row, older, tries, misses, paid, aVars, jobs, bounds, blind>>

-----------------------------------------------------------------------------
(* Server B: the two sweeps.  The row is refreshed, found live, and then   *)
(* saved: status, ended_at and block_reason, whatever happened in between. *)

(* active_channels keeps a row while any channel has its caller's number;  *)
(* all calls here have the same caller.                                    *)
ChannelUp == \E c \in Call : sw[c].pc \in Up

(* The list A posts misses the call: it is over, or the list is odd (a     *)
(* channel caught mid-replacement, a CLI hiccup).                          *)
NotListed == \/ ~ChannelUp /\ odd' = odd
             \/ ChannelUp /\ odd < MaxOdd /\ FaultLeft /\ odd' = odd + 1

SyncSeen(c) ==
    /\ row[c].status \in Live /\ ChannelUp /\ misses[c] > 0
    /\ misses' = [misses EXCEPT ![c] = 0]
    /\ UNCHANGED <<row, older, tries, held, paid, aVars, jobs, bounds, blind>>

(* Mutant: one strike too many is counted. *)
SyncMissingOffByOne(c) ==
    /\ sweep[c]["sync"] = "idle"
    /\ row[c].status \in Live
    /\ NotListed
    /\ IF misses[c] <= Strikes
       THEN misses' = [misses EXCEPT ![c] = @ + 1] /\ sweep' = sweep
       ELSE misses' = misses /\ sweep' = [sweep EXCEPT ![c]["sync"] = "close"]
    /\ UNCHANGED <<row, older, tries, held, paid, aVars, route, next, ends, relay, crashes, timeouts, blind>>

(* Mutant: the first report without the call closes its row. *)
SyncMissingAtOnce(c) ==
    /\ sweep[c]["sync"] = "idle"
    /\ row[c].status \in Live
    /\ NotListed
    /\ misses' = misses
    /\ sweep' = [sweep EXCEPT ![c]["sync"] = "close"]
    /\ UNCHANGED <<row, older, tries, held, paid, aVars, route, next, ends, relay, crashes, timeouts, blind>>

(* Mutant: a row that has an end time is left out of the sweep. *)
SyncMissingOpenOnly(c) ==
    /\ sweep[c]["sync"] = "idle"
    /\ row[c].status \in Live /\ ~row[c].ended
    /\ NotListed
    /\ IF misses[c] + 1 < Strikes
       THEN misses' = [misses EXCEPT ![c] = @ + 1] /\ sweep' = sweep
       ELSE misses' = misses /\ sweep' = [sweep EXCEPT ![c]["sync"] = "close"]
    /\ UNCHANGED <<row, older, tries, held, paid, aVars, route, next, ends, relay, crashes, timeouts, blind>>

SyncMissing(c) ==
    /\ sweep[c]["sync"] = "idle"
    /\ row[c].status \in Live
    /\ NotListed
    /\ IF misses[c] + 1 < Strikes
       THEN misses' = [misses EXCEPT ![c] = @ + 1] /\ sweep' = sweep
       ELSE misses' = misses /\ sweep' = [sweep EXCEPT ![c]["sync"] = "close"]
    /\ UNCHANGED <<row, older, tries, held, paid, aVars, route, next, ends, relay, crashes, timeouts, blind>>

(* close_stale_calls: with no channel sync a call still up can be closed.  *)
StaleRead(c) ==
    /\ sweep[c]["stale"] = "idle"
    /\ row[c].status \in Live
    /\ sweep' = [sweep EXCEPT ![c]["stale"] = "close"]
    /\ UNCHANGED <<bVars, aVars, route, next, ends, relay, bounds, blind>>

SweepSave(c, s) ==
    /\ sweep[c][s] = "close"
    /\ row' = [row EXCEPT ![c].status = "no_answer", ![c].ended = TRUE,
                          ![c].reason = IF s = "sync" THEN "asterisk_gone" ELSE "stale_timeout"]
    /\ misses' = IF s = "sync" THEN [misses EXCEPT ![c] = 0] ELSE misses
    /\ sweep' = [sweep EXCEPT ![c][s] = "idle"]
    /\ UNCHANGED <<older, tries, held, paid, aVars, route, next, ends, relay, bounds, blind>>

(* Mutant: the switch waits for ever for a request the restart has lost. *)
CrashHangsReport ==
    /\ crashes < MaxCrashes /\ FaultLeft
    /\ crashes' = crashes + 1
    /\ route' = [c \in Call |-> IF route[c].pc = "none" THEN IdleRoute ELSE [IdleRoute EXCEPT !.pc = "lost"]]
    /\ next' = [c \in Call |-> IF next[c].pc = "idle" THEN IdleNext ELSE [IdleNext EXCEPT !.pc = "lost"]]
    /\ ends' = [c \in Call |-> [i \in Attempt |-> IdleEnd(c)]]
    /\ relay' = [c \in Call |-> IF relay[c].pc = "none" THEN IdleRelay ELSE [IdleRelay EXCEPT !.pc = "done"]]
    /\ sweep' = [c \in Call |-> [s \in Sweeper |-> "idle"]]
    /\ UNCHANGED <<bVars, aVars, timeouts, odd, blind>>

(* A restart of Server B: every request it was working on is gone; the     *)
(* database and the cache stay.                                            *)
Crash ==
    /\ crashes < MaxCrashes /\ FaultLeft
    /\ crashes' = crashes + 1
    /\ route' = [c \in Call |-> IF route[c].pc = "none" THEN IdleRoute ELSE [IdleRoute EXCEPT !.pc = "lost"]]
    /\ next' = [c \in Call |-> IF next[c].pc = "idle" THEN IdleNext ELSE [IdleNext EXCEPT !.pc = "lost"]]
    /\ ends' = [c \in Call |-> [i \in Attempt |-> IdleEnd(c)]]
    /\ relay' = [c \in Call |-> IF relay[c].pc = "none" THEN IdleRelay ELSE [IdleRelay EXCEPT !.pc = "done"]]
    /\ sweep' = [c \in Call |-> [s \in Sweeper |-> "idle"]]
    /\ rep' = [c \in Call |-> [rep[c] EXCEPT !.st = IF @ = "posted" THEN "due" ELSE @]]
    /\ UNCHANGED <<bVars, sw, truth, rang, timeouts, odd, blind>>

-----------------------------------------------------------------------------
(* Server A: the dialplan, its AGI and call_ended.sh.                      *)

Reports(c, id, ds, secs) ==
    rep' = [rep EXCEPT ![c] = [st |-> "due", id |-> id, ds |-> ds, secs |-> secs, try |-> 0]]
Goes(c, pc) == sw' = [sw EXCEPT ![c].pc = pc]
RingsOut(c) == rang' = [rang EXCEPT ![c] = @ \cup {sw[c].line}]

Arrive(c) ==
    /\ sw[c].pc = "idle"
    /\ Goes(c, "asking")
    /\ route' = [route EXCEPT ![c].pc = "sent"]
    /\ UNCHANGED <<bVars, rep, truth, rang, next, ends, relay, sweep, bounds, blind>>

GetLine(c) ==
    /\ sw[c].pc = "asking" /\ route[c].pc = "dial"
    /\ sw' = [sw EXCEPT ![c] = [pc |-> "ready", line |-> route[c].line]]
    /\ UNCHANGED <<bVars, rep, truth, rang, jobs, bounds, blind>>

(* Refused: the h extension runs without an id. *)
GetRefusal(c) ==
    /\ sw[c].pc = "asking" /\ route[c].pc = "hangup"
    /\ Goes(c, "down")
    /\ Reports(c, FALSE, "", FALSE)
    /\ UNCHANGED <<bVars, truth, rang, jobs, bounds, blind>>

(* The caller leaves, or the AGI waits ROUTE_TIMEOUT for nothing: again no *)
(* id, and the request may still be running on Server B.                   *)
LeaveAsking(c) ==
    /\ sw[c].pc = "asking"
    /\ Goes(c, "down")
    /\ Reports(c, FALSE, "", FALSE)
    /\ UNCHANGED <<bVars, truth, rang, jobs, bounds, blind>>

LeaveReady(c) ==
    /\ sw[c].pc = "ready"
    /\ Goes(c, "down")
    /\ Reports(c, TRUE, "", FALSE)
    /\ UNCHANGED <<bVars, truth, rang, jobs, bounds, blind>>

Ring(c) ==
    /\ sw[c].pc = "ready"
    /\ Goes(c, "ringing")
    /\ UNCHANGED <<bVars, rep, truth, rang, jobs, bounds, blind>>

Answer(c) ==
    /\ sw[c].pc = "ringing"
    /\ Goes(c, "talking")
    /\ truth' = [truth EXCEPT ![c] = "talk"]
    /\ UNCHANGED <<bVars, rep, rang, jobs, bounds, blind>>

AnswerZero(c) ==
    /\ sw[c].pc = "ringing"
    /\ Goes(c, "down")
    /\ truth' = [truth EXCEPT ![c] = "zero"]
    /\ Reports(c, TRUE, "ANSWER", FALSE)
    /\ UNCHANGED <<bVars, rang, jobs, bounds, blind>>

Cancel(c) ==
    /\ sw[c].pc = "ringing"
    /\ Goes(c, "down")
    /\ truth' = [truth EXCEPT ![c] = "cancel"]
    /\ Reports(c, TRUE, "CANCEL", FALSE)
    /\ UNCHANGED <<bVars, rang, jobs, bounds, blind>>

(* The buyer answers while the relay holds our CANCEL. *)
CancelHeld(c) ==
    /\ HeldRelay
    /\ sw[c].pc = "ringing"
    /\ Goes(c, "down")
    /\ truth' = [truth EXCEPT ![c] = "late"]
    /\ Reports(c, TRUE, "CANCEL", FALSE)
    /\ relay' = [relay EXCEPT ![c].pc = "sent"]
    /\ UNCHANGED <<bVars, rang, route, next, ends, sweep, bounds, blind>>

Miss(c) ==
    /\ sw[c].pc = "ringing"
    /\ RingsOut(c)
    /\ truth' = [truth EXCEPT ![c] = "miss"]
    /\ IF Failover
       THEN /\ Goes(c, "nextask")
            /\ next' = [next EXCEPT ![c] = [IdleNext EXCEPT !.pc = "sent"]]
            /\ rep' = rep
       ELSE /\ Goes(c, "down")
            /\ Reports(c, TRUE, "MISS", FALSE)
            /\ next' = next
    /\ UNCHANGED <<bVars, route, ends, relay, sweep, bounds, blind>>

NextDial(c) ==
    /\ sw[c].pc = "nextask" /\ next[c].pc = "dial"
    /\ sw' = [sw EXCEPT ![c] = [pc |-> "ringing", line |-> next[c].dest]]
    /\ next' = [next EXCEPT ![c] = IdleNext]
    /\ UNCHANGED <<bVars, rep, truth, rang, route, ends, relay, sweep, bounds, blind>>

(* No next buyer, Server B not reached in ten seconds, or the caller gone. *)
NextEnds(c) ==
    /\ sw[c].pc = "nextask"
    /\ Goes(c, "down")
    /\ Reports(c, TRUE, "MISS", FALSE)
    /\ UNCHANGED <<bVars, truth, rang, jobs, bounds, blind>>

Hangup(c) ==
    /\ sw[c].pc = "talking"
    /\ Goes(c, "down")
    /\ Reports(c, TRUE, "ANSWER", TRUE)
    /\ UNCHANGED <<bVars, truth, rang, jobs, bounds, blind>>

(* A transfer at the buyer: the channel that ends has no variables. *)
Transfer(c) ==
    /\ sw[c].pc = "talking"
    /\ Goes(c, "moved")
    /\ UNCHANGED <<bVars, rep, truth, rang, jobs, bounds, blind>>

HangupMoved(c) ==
    /\ sw[c].pc = "moved"
    /\ Goes(c, "down")
    /\ Reports(c, FALSE, "", FALSE)
    /\ UNCHANGED <<bVars, truth, rang, jobs, bounds, blind>>

(* curl --max-time: the report goes back to the spool, its attempt goes on. *)
ReportTimeout(c) ==
    /\ rep[c].st = "posted"
    /\ timeouts < MaxTimeouts /\ FaultLeft
    /\ timeouts' = timeouts + 1
    /\ rep' = [rep EXCEPT ![c].st = "due"]
    /\ UNCHANGED <<bVars, sw, truth, rang, jobs, crashes, odd, blind>>

-----------------------------------------------------------------------------
RouteStep(c) == RouteCreate(c) \/ RouteDecide(c) \/ RouteRefuse(c)
NextStep(c) == NextRead(c) \/ NextRefuse(c) \/ NextRecord(c) \/ NextSave(c)
EndStep(c) == \E i \in Attempt : EndRead(c, i) \/ EndSave(c, i) \/ EndCharge(c, i) \/ EndAck(c, i)
HeldStep(c) == HeldRead(c) \/ HeldRemember(c) \/ HeldMark(c) \/ HeldCharge(c)
SyncStep(c) == SyncMissing(c) \/ SweepSave(c, "sync")
StaleStep(c) == StaleRead(c) \/ SweepSave(c, "stale")
SwitchEnds(c) ==
    \/ GetLine(c) \/ GetRefusal(c) \/ LeaveAsking(c) \/ LeaveReady(c)
    \/ AnswerZero(c) \/ Cancel(c) \/ CancelHeld(c) \/ Miss(c)
    \/ NextDial(c) \/ NextEnds(c) \/ Hangup(c) \/ HangupMoved(c)

Next ==
    \/ \E c \in Call :
          \/ RouteStep(c) \/ NextStep(c) \/ EndStep(c) \/ HeldStep(c) \/ HeldExpire(c)
          \/ SyncSeen(c) \/ SyncStep(c) \/ StaleStep(c)
          \/ Arrive(c) \/ Ring(c) \/ Answer(c) \/ Transfer(c) \/ SwitchEnds(c) \/ ReportTimeout(c)
    \/ Crash

(* The workers keep working, the replay cron and the channel sync keep     *)
(* running, and a call does not last for ever (max_duration).              *)
Fairness ==
    \A c \in Call : /\ WF_vars(RouteStep(c)) /\ WF_vars(NextStep(c)) /\ WF_vars(HeldStep(c))
                    /\ WF_vars(EndStep(c)) /\ WF_vars(SyncStep(c)) /\ WF_vars(SwitchEnds(c))

Spec == Init /\ [][Next]_vars
FairSpec == Spec /\ Fairness

-----------------------------------------------------------------------------
(* Properties.                                                             *)

(* Every variable stays in its type. *)
TypeOK ==
    /\ row \in [Call -> Row]
    /\ older \in [Call -> SUBSET Call]
    /\ tries \in [Call -> SUBSET Line]
    /\ held \in [Call -> BOOLEAN]
    /\ misses \in [Call -> 0 .. Strikes]
    /\ paid \in [Call -> Charge]
    /\ sw \in [Call -> Channel]
    /\ rep \in [Call -> Report]
    /\ route \in [Call -> RouteJob]
    /\ next \in [Call -> NextJob]
    /\ ends \in [Call -> [Attempt -> EndJob]]
    /\ relay \in [Call -> RelayJob]
    /\ sweep \in [Call -> [Sweeper -> {"idle", "close"}]]
    /\ crashes \in 0 .. MaxCrashes
    /\ timeouts \in 0 .. MaxTimeouts
    /\ odd \in 0 .. MaxOdd
    /\ truth \in [Call -> {"none", "talk", "zero", "cancel", "late", "miss"}]
    /\ rang \in [Call -> SUBSET Line]
    /\ blind \in [Call -> {"no", "hit", "assumed"}]

(* failover.tried_numbers: a call never rings a line that already missed   *)
(* it, however its next-buyer requests and their replies interleave.       *)
NoLineTwice == [][\A c \in Call : sw'[c].pc = "ringing" /\ sw[c].pc # "ringing"
                                     => sw'[c].line \notin rang[c]]_vars

(* A buyer answered the last dial, and the report of it carries the id;    *)
(* something was taken for an answer.                                      *)
Answered(c) == truth[c] = "talk" /\ rep[c].st # "none" /\ rep[c].id
Chargeable(c) == \/ truth[c] \in {"talk", "late"}
                 \/ truth[c] = "zero" /\ ~ZeroIsMissed
                 \/ blind[c] = "assumed"

(* call_ended and call_ended.sh: once the switch stops repeating the       *)
(* report of an answered call, the charge of its minutes has been booked   *)
(* or has been tried and swallowed, whatever restarts, timeouts,           *)
(* duplicates and sweeps came before; only a blind report that was matched *)
(* to the call can have put a fee in their place.                          *)
AnsweredIsPaid ==
    \A c \in Call : rep[c].st = "acked" /\ Answered(c)
        => \/ paid[c] \in {"minutes", "forgiven"}
           \/ paid[c] = "fee" /\ blind[c] # "no"

(* The converse: minutes are charged only for a call that a buyer          *)
(* answered, unless a blind report was assumed to be answered.  A call     *)
(* nobody answered may pay the VoIP Shield fee (call_cost), no minutes.    *)
PaidWasAnswered == \A c \in Call : paid[c] \in {"minutes", "forgiven"} => Chargeable(c)

(* No request of Server B is about to write the call's row. *)
Quiet(c) == /\ \A d \in Call, i \in Attempt : ends[d][i].pc = "idle"
            /\ next[c].pc \notin {"decide", "save"}
            /\ relay[c].pc \in {"none", "done"}

(* Completed on the line that answered, or with the mark of a sweep, by    *)
(* which a later report can find the row.                                  *)
ShownOf(c) == /\ row[c].dest = sw[c].line
              /\ \/ row[c].status = "completed"
                 \/ row[c].status = "no_answer" /\ row[c].reason \in Swept

(* An answered call is shown so from its report's acknowledgement on,      *)
(* whatever repeated reports and sweeps still do to the row, unless a      *)
(* report without an id has been matched to it.                            *)
AnsweredIsShown ==
    \A c \in Call : rep[c].st = "acked" /\ Answered(c) /\ blind[c] = "no" => ShownOf(c)

(* active_channels: fewer odd lists than strikes never make the sync close *)
(* a row whose call is up, whatever it had counted before.                 *)
OddListSpares ==
    MaxOdd < Strikes => \A c \in Call : sweep[c]["sync"] = "close" => sw[c].pc \notin Up

(* close_stale_calls, active_channels: no call row stays live for ever. *)
RowsFinish == \A c \in Call : row[c].status \in Live ~> row[c].status \notin Live

(* active_channels: "a call that already finished keeps the outcome it     *)
(* was given".  The code refreshes the status and saves in two statements. *)
SweepKeepsOutcome ==
    [][\A c \in Call : row[c].status = "completed" => row'[c].reason # "asterisk_gone"]_vars

(* held_answer: whichever of the relay's report and the hang-up report     *)
(* comes first, the call ends up Completed.                                *)
HeldAnswerCounts ==
    \A c \in Call : truth[c] = "late" /\ relay[c].pc = "done" /\ rep[c].st = "acked" /\ Quiet(c)
        => row[c].status = "completed"

(* settle_call_money: "every ANSWERED call pays its minutes".  A late      *)
(* answer comes after the hang-up report, which may have booked the fee of *)
(* a missed call under the same sid.                                       *)
LateAnswerPays ==
    \A c \in Call : truth[c] = "late" /\ relay[c].pc = "done" /\ rep[c].st = "acked" /\ Quiet(c)
                     /\ row[c].status = "completed" => paid[c] # "fee"

(* call_ended: a report without an id "belongs to a channel that replaced  *)
(* the original, and a channel is only replaced after a buyer answered".   *)
BlindWasAnswered == \A c \in Call : paid[c] = "minutes" => truth[c] \in {"talk", "late"}

(* call_ended.sh: a report is repeated until Server B has taken it. *)
ReportsArrive == \A c \in Call : rep[c].st = "due" ~> rep[c].st = "acked"

(* The call as its money sees it: what its report, its last dial and the   *)
(* reports that were taken for its own make of it.                         *)
Phase(c) == IF rep[c].st = "none" THEN "open" ELSE IF rep[c].st = "acked" THEN "closed" ELSE "over"
Owed(c) == IF Answered(c) /\ blind[c] = "no" THEN "must" ELSE IF Chargeable(c) THEN "may" ELSE "no"

Settled == INSTANCE Settlement WITH
    phase <- [c \in Call |-> Phase(c)], owed <- [c \in Call |-> Owed(c)], billed <- paid

(* call_ended, held_answer_report and the report's repetition implement    *)
(* the settlement of a call step by step: a charge is never taken back,    *)
(* minutes are owed before they are charged or forgiven, a fee never takes *)
(* the place of minutes that have to be paid, and the switch never takes   *)
(* back an acknowledged report nor acknowledges one whose minutes are      *)
(* still to be charged or forgiven.                                        *)
ImplementsSettlement == Settled!Spec
=============================================================================
