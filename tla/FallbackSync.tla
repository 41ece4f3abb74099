---------------------------- MODULE FallbackSync ----------------------------
(***************************************************************************)
(* Server A routes while Server B does not answer, and hands the calls     *)
(* over afterwards (scripts/fallback, routing/fallback.py, call_ended.sh). *)
(*                                                                         *)
(* A asks B and, without an answer, decides itself: it writes a marker     *)
(* that holds the call's hang-up report, then the journal row, then dials. *)
(* The sync service sends the journal to B, marks what B has as synced and *)
(* removes the markers.  B may still work on a route request A has given   *)
(* up on, and on a post whose answer nobody waits for: its two handlers    *)
(* meet at the unique twilio_call_sid.                                     *)
(*                                                                         *)
(* Every call has its own caller.  What B's call_ended does in detail is   *)
(* in CallLifecycle; here it is one step.                                  *)
(***************************************************************************)
EXTENDS Naturals, FiniteSets

CONSTANTS
    Call,          \* calls A receives
    Line,          \* the buyers' lines
    NoLine,        \* an empty destination
    Post,          \* bound: posts of the sync B works on at once
    NoPost,        \* the sync waits for no post
    MaxTimeouts,   \* bound: posts whose answer never arrives
    MaxRestarts    \* bound: restarts of the sync service

ASSUME NoneAssumption == NoLine \notin Line /\ NoPost \notin Post
ASSUME BoundsAssumption == MaxTimeouts \in Nat /\ MaxRestarts \in Nat

VARIABLES
    sw,         \* the call on A
    placed,     \* the line A dials
    marked,     \* the calls with a marker in PENDING_DIR
    jour,       \* A's journal: what it decided alone
    synced,     \* the journal's synced column
    rep,        \* the hang-up report, and whether it carries the call's id
    route,      \* B's route handler: its position, and the row it works on
    rows,       \* B's rows of the call: the one with A's id, the one with B's
    gone,       \* the calls whose campaign is no longer on B
    rec,        \* B's record_call of each posted call
    sync,       \* the sync service: its position, and the post it waits for
    timeouts,   \* posts without an answer so far
    restarts,   \* restarts so far
    talked,     \* history: the calls a buyer answered
    billed,     \* the calls that were settled as answered, and so handed to their charge
    leaked      \* history: synced calls whose marker a restart left behind

aVars == <<sw, placed, marked, jour, rep, talked>>
bVars == <<route, rows, billed, gone>>
syncVars == <<synced, rec, sync, timeouts, restarts, leaked>>
vars == <<aVars, bVars, syncVars>>

Live == {"ringing", "in_progress"}
Status == Live \cup {"none", "failed", "finished"}
Owner == {"a", "b"}    \* whose id a row has
NoRow == [st |-> "none", line |-> NoLine, ended |-> FALSE, hidden |-> FALSE]
NoJob == [pc |-> "none", suffix |-> FALSE]

Init ==
    /\ sw = [c \in Call |-> "idle"]
    /\ placed = [c \in Call |-> NoLine]
    /\ marked = {}
    /\ jour = [c \in Call |-> "none"]
    /\ synced = {}
    /\ rep = [c \in Call |-> [st |-> "none", id |-> FALSE]]
    /\ route = [c \in Call |-> [pc |-> "none", on |-> "b"]]
    /\ rows = [c \in Call |-> [o \in Owner |-> NoRow]]
    /\ rec = [c \in Call |-> [p \in Post |-> NoJob]]
    /\ sync = [pc |-> "idle", post |-> NoPost]
    /\ timeouts = 0
    /\ restarts = 0
    /\ talked = {}
    /\ billed = {}
    /\ gone = {}
    /\ leaked = {}

Exists(c, o) == rows[c][o].st # "none"

-----------------------------------------------------------------------------
(* Server A: route_call.py and fallback_agi.route.                         *)

Goes(c, pc) == sw' = [sw EXCEPT ![c] = pc]
Reports(c, id) == rep' = [rep EXCEPT ![c] = [st |-> "due", id |-> id]]

Ask(c) ==
    /\ sw[c] = "idle"
    /\ Goes(c, "asking")
    /\ route' = [route EXCEPT ![c].pc = "sent"]
    /\ UNCHANGED <<placed, marked, jour, rep, talked, rows, billed, gone, syncVars>>

(* reachable: nothing answers there, or nothing did a moment ago. *)
Unreachable(c) ==
    /\ sw[c] = "idle"
    /\ Goes(c, "deciding")
    /\ UNCHANGED <<placed, marked, jour, rep, talked, bVars, syncVars>>

(* A timeout, a reset connection, a 5xx: B may still be at work. *)
NoAnswer(c) ==
    /\ sw[c] = "asking"
    /\ Goes(c, "deciding")
    /\ UNCHANGED <<placed, marked, jour, rep, talked, bVars, syncVars>>

Answered(c) ==
    /\ sw[c] = "asking" /\ route[c].pc = "dial"
    /\ Goes(c, "up_b")
    /\ placed' = [placed EXCEPT ![c] = rows[c][route[c].on].line]
    /\ UNCHANGED <<marked, jour, rep, talked, bVars, syncVars>>

(* The call ends before it is dialled: B refused it, the caller left (the  *)
(* switch kills the script), or the plan cannot be used.                   *)
Ends(c) ==
    /\ sw[c] \in {"asking", "deciding", "marked", "journaled"}
    /\ Goes(c, "down")
    /\ Reports(c, FALSE)
    /\ UNCHANGED <<placed, marked, jour, talked, bVars, syncVars>>

DecideRefuse(c) ==
    /\ sw[c] = "deciding"
    /\ jour' = [jour EXCEPT ![c] = "refused"]
    /\ Goes(c, "down")
    /\ Reports(c, FALSE)
    /\ UNCHANGED <<placed, marked, talked, bVars, syncVars>>

(* mark_pending comes before the journal row. *)
DecideMark(c) ==
    /\ sw[c] = "deciding"
    /\ marked' = marked \cup {c}
    /\ Goes(c, "marked")
    /\ \E l \in Line : placed' = [placed EXCEPT ![c] = l]
    /\ UNCHANGED <<jour, rep, talked, bVars, syncVars>>

DecideJournal(c) ==
    /\ sw[c] = "marked"
    /\ jour' = [jour EXCEPT ![c] = "dial"]
    /\ Goes(c, "journaled")
    /\ UNCHANGED <<placed, marked, rep, talked, bVars, syncVars>>

(* The journal cannot be written: unmark_pending, and the call is hung up. *)
JournalFails(c) ==
    /\ sw[c] = "marked"
    /\ marked' = marked \ {c}
    /\ Goes(c, "down")
    /\ Reports(c, FALSE)
    /\ UNCHANGED <<placed, jour, talked, bVars, syncVars>>

Dial(c) ==
    /\ sw[c] = "journaled"
    /\ Goes(c, "up_a")
    /\ UNCHANGED <<placed, marked, jour, rep, talked, bVars, syncVars>>

(* The call ends; a transfer at the buyer loses its id. *)
Hangup(c) ==
    /\ sw[c] \in {"up_a", "up_b"}
    /\ Goes(c, IF sw[c] = "up_a" THEN "down_a" ELSE "down_b")
    /\ \/ Reports(c, TRUE) /\ talked' = talked
       \/ \E id \in BOOLEAN : Reports(c, id) /\ talked' = talked \cup {c}
    /\ UNCHANGED <<placed, marked, jour, bVars, syncVars>>

-----------------------------------------------------------------------------
(* call_ended.sh.  While the call is marked, the report stays in the spool. *)

(* Mutant: a report without an id is never held. *)
DeliverIdOnly(c) ==
    /\ rep[c].st = "due" /\ ~(rep[c].id /\ c \in marked)
    /\ rep' = [rep EXCEPT ![c].st = "posted"]
    /\ UNCHANGED <<sw, placed, marked, jour, talked, bVars, syncVars>>

Deliver(c) ==
    /\ rep[c].st = "due" /\ c \notin marked
    /\ rep' = [rep EXCEPT ![c].st = "posted"]
    /\ UNCHANGED <<sw, placed, marked, jour, talked, bVars, syncVars>>

(* B's call_ended settles row `o`; it may take a blind report of a call    *)
(* with a destination for an answered one.  What becomes of the charge is  *)
(* CallLifecycle's.                                                        *)
Settle(c, o) ==
    /\ rows' = [rows EXCEPT ![c][o].st = "finished", ![c][o].ended = TRUE]
    /\ IF rep[c].id
       THEN billed' = IF c \in talked THEN billed \cup {c} ELSE billed
       ELSE billed' \in {b \in {billed, billed \cup {c}} : /\ c \in talked => c \in b
                                                           /\ rows[c][o].line = NoLine => b = billed}

(* A report with an id: an unknown id is answered 404, which is final. *)
EndById(c) ==
    /\ rep[c].st = "posted" /\ rep[c].id
    /\ LET o == IF sw[c] = "down_a" THEN "a" ELSE "b"
       IN IF Exists(c, o)
          THEN /\ Settle(c, o)
               /\ rep' = [rep EXCEPT ![c].st = "done"]
          ELSE /\ rep' = [rep EXCEPT ![c].st = "dropped"]
               /\ UNCHANGED <<rows, billed>>
    /\ UNCHANGED <<sw, placed, marked, jour, talked, route, gone, syncVars>>

(* A report without an id is matched to a live row of the caller.          *)
EndBlind(c) ==
    /\ rep[c].st = "posted" /\ ~rep[c].id
    /\ LET found == {o \in Owner : rows[c][o].st = "in_progress"}
           live == IF found # {} THEN found ELSE {o \in Owner : rows[c][o].st = "ringing"}
       IN IF live = {} THEN UNCHANGED <<rows, billed>> ELSE \E o \in live : Settle(c, o)
    /\ rep' = [rep EXCEPT ![c].st = "done"]
    /\ UNCHANGED <<sw, placed, marked, jour, talked, route, gone, syncVars>>

-----------------------------------------------------------------------------
(* Server B: _route_incoming_call, perhaps long after A has gone on.       *)

(* CallLog.objects.create; with the sid taken, the row that has it is used. *)
RouteCreate(c) ==
    /\ route[c].pc = "sent"
    /\ LET o == IF Exists(c, "a") THEN "a" ELSE "b"
       IN /\ route' = [route EXCEPT ![c] = [pc |-> "decide", on |-> o]]
          /\ rows' = IF o = "a" THEN rows ELSE [rows EXCEPT ![c]["b"].st = "ringing"]
    /\ UNCHANGED <<aVars, billed, gone, syncVars>>

RouteSend(c) ==
    /\ route[c].pc = "decide"
    /\ \E l \in Line : rows' = [rows EXCEPT ![c][route[c].on].st = "in_progress",
                                            ![c][route[c].on].line = l]
    /\ route' = [route EXCEPT ![c].pc = "dial"]
    /\ UNCHANGED <<aVars, billed, gone, syncVars>>

RouteRefuse(c) ==
    /\ route[c].pc = "decide"
    /\ rows' = [rows EXCEPT ![c][route[c].on].st = "failed", ![c][route[c].on].ended = TRUE]
    /\ route' = [route EXCEPT ![c].pc = "hangup"]
    /\ UNCHANGED <<aVars, billed, gone, syncVars>>

(* The campaign of the call is deleted on B. *)
CampaignGone(c) ==
    /\ c \notin gone
    /\ gone' = gone \cup {c}
    /\ UNCHANGED <<aVars, route, rows, billed, syncVars>>

-----------------------------------------------------------------------------
(* fallback_sync.push_round.                                               *)

Waiting == {c \in Call : jour[c] # "none"} \ synced
Batch(p) == {c \in Call : rec[c][p].pc # "none"}
Taken(p) == {c \in Call : rec[c][p].pc = "ok"}
Finished(p) == Batch(p) # {} /\ \A c \in Batch(p) : rec[c][p].pc \in {"ok", "error"}
Without(p) == [c \in Call |-> [rec[c] EXCEPT ![p] = NoJob]]

Push ==
    /\ sync.pc = "idle" /\ Waiting # {}
    /\ \E p \in Post :
          /\ Batch(p) = {}
          /\ sync' = [pc |-> "posted", post |-> p]
          /\ rec' = [c \in Call |-> [rec[c] EXCEPT ![p].pc = IF c \in Waiting THEN "queued" ELSE @]]
    /\ UNCHANGED <<aVars, bVars, synced, timeouts, restarts, leaked>>

PushTimeout ==
    /\ sync.pc = "posted"
    /\ timeouts < MaxTimeouts
    /\ timeouts' = timeouts + 1
    /\ sync' = [pc |-> "idle", post |-> NoPost]
    /\ UNCHANGED <<aVars, bVars, synced, rec, restarts, leaked>>

(* Mutant: every call that was posted is marked as synced. *)
PushAllAccepted ==
    /\ sync.pc = "posted" /\ Finished(sync.post)
    /\ synced' = synced \cup Batch(sync.post)
    /\ sync' = [sync EXCEPT !.pc = "release"]
    /\ UNCHANGED <<aVars, bVars, rec, timeouts, restarts, leaked>>

(* The accepted calls are committed as synced. *)
PushAccepted ==
    /\ sync.pc = "posted" /\ Finished(sync.post)
    /\ synced' = synced \cup Taken(sync.post)
    /\ sync' = [sync EXCEPT !.pc = "release"]
    /\ UNCHANGED <<aVars, bVars, rec, timeouts, restarts, leaked>>

(* release_reports *)
Release ==
    /\ sync.pc = "release"
    /\ marked' = marked \ (Taken(sync.post) \cap synced)
    /\ rec' = Without(sync.post)
    /\ sync' = [pc |-> "idle", post |-> NoPost]
    /\ UNCHANGED <<sw, placed, jour, rep, talked, bVars, synced, timeouts, restarts, leaked>>

Restart ==
    /\ sync.pc # "idle"
    /\ restarts < MaxRestarts
    /\ restarts' = restarts + 1
    /\ leaked' = IF sync.pc = "release" THEN leaked \cup Taken(sync.post) ELSE leaked
    /\ sync' = [pc |-> "idle", post |-> NoPost]
    /\ UNCHANGED <<aVars, bVars, synced, rec, timeouts>>

(* Mutant: the answer is dropped while the sync still waits for it. *)
ForgetAny(p) ==
    /\ Finished(p)
    /\ rec' = Without(p)
    /\ UNCHANGED <<aVars, bVars, synced, sync, timeouts, restarts, leaked>>

(* B has answered a post nobody waits for any more. *)
Forget(p) ==
    /\ sync.post # p /\ Finished(p)
    /\ rec' = Without(p)
    /\ UNCHANGED <<aVars, bVars, synced, sync, timeouts, restarts, leaked>>

-----------------------------------------------------------------------------
(* Server B: record_call.                                                  *)

RecordDone(c, p, res) == rec' = [rec EXCEPT ![c][p] = [pc |-> res, suffix |-> FALSE]]

(* _set_aside_phantom *)
Aside(r) == IF r.st \in Live THEN [r EXCEPT !.st = "failed", !.ended = TRUE, !.hidden = TRUE]
                             ELSE [r EXCEPT !.hidden = TRUE]

(* "exists", "skipped", or the phantom is set aside and A's row gets       *)
(* another sid.                                                            *)
RecordCheck(c, p) ==
    /\ rec[c][p].pc = "queued"
    /\ IF Exists(c, "a") \/ c \in gone
       THEN RecordDone(c, p, "ok") /\ UNCHANGED rows
       ELSE /\ rec' = [rec EXCEPT ![c][p] = [pc |-> "insert", suffix |-> Exists(c, "b")]]
            /\ rows' = [rows EXCEPT ![c]["b"] = IF Exists(c, "b") THEN Aside(@) ELSE @]
    /\ UNCHANGED <<aVars, route, billed, gone, synced, sync, timeouts, restarts, leaked>>

(* Mutant: the insert does not mind a sid B has used meanwhile. *)
RecordInsertAnySid(c, p) ==
    /\ rec[c][p].pc = "insert"
    /\ RecordDone(c, p, "ok")
    /\ rows' = IF Exists(c, "a") THEN rows
               ELSE [rows EXCEPT ![c]["a"] =
                   IF jour[c] = "dial" THEN [NoRow EXCEPT !.st = "in_progress", !.line = placed[c]]
                                       ELSE [NoRow EXCEPT !.st = "failed", !.ended = TRUE]]
    /\ UNCHANGED <<aVars, route, billed, gone, synced, sync, timeouts, restarts, leaked>>

(* The insert fails on a row with the same id (exists), or on a sid B's    *)
(* late handler has used meanwhile (error: A sends the call again).        *)
RecordInsert(c, p) ==
    /\ rec[c][p].pc = "insert"
    /\ LET clash == ~rec[c][p].suffix /\ Exists(c, "b")
       IN IF Exists(c, "a") \/ clash
          THEN /\ RecordDone(c, p, IF Exists(c, "a") THEN "ok" ELSE "error")
               /\ UNCHANGED rows
          ELSE /\ RecordDone(c, p, "ok")
               /\ rows' = [rows EXCEPT ![c]["a"] =
                      IF jour[c] = "dial" THEN [NoRow EXCEPT !.st = "in_progress", !.line = placed[c]]
                                          ELSE [NoRow EXCEPT !.st = "failed", !.ended = TRUE]]
    /\ UNCHANGED <<aVars, route, billed, gone, synced, sync, timeouts, restarts, leaked>>

-----------------------------------------------------------------------------
AskStep(c) == NoAnswer(c) \/ Answered(c) \/ Ends(c)
DecideStep(c) == \/ DecideRefuse(c) \/ DecideMark(c) \/ DecideJournal(c) \/ JournalFails(c)
                 \/ Dial(c) \/ Hangup(c)
ReportStep(c) == Deliver(c) \/ EndById(c) \/ EndBlind(c)
RouteStep(c) == RouteCreate(c) \/ RouteSend(c) \/ RouteRefuse(c)
RecordStep == \E c \in Call, p \in Post : RecordCheck(c, p) \/ RecordInsert(c, p)
SyncStep == Push \/ PushAccepted \/ Release

Next ==
    \/ \E c \in Call : Ask(c) \/ Unreachable(c) \/ AskStep(c) \/ DecideStep(c) \/ ReportStep(c) \/ RouteStep(c)
                    \/ CampaignGone(c)
    \/ RecordStep \/ SyncStep
    \/ PushTimeout \/ Restart \/ \E p \in Post : Forget(p)

(* The sync loop and the replay cron keep running, and B is back some day: *)
(* it works on what the sync and call_ended.sh post.  Nothing says that B  *)
(* finishes a route request.                                               *)
Fairness == /\ \A c \in Call : WF_vars(AskStep(c)) /\ WF_vars(DecideStep(c)) /\ WF_vars(ReportStep(c))
            /\ WF_vars(RecordStep) /\ WF_vars(SyncStep)
            /\ \A p \in Post : WF_vars(Forget(p))

Spec == Init /\ [][Next]_vars
FairSpec == Spec /\ Fairness

-----------------------------------------------------------------------------
(* Properties.                                                             *)

(* Every variable stays in its type: the sync service marks as synced only *)
(* what the journal holds, and waits only for a post B still has.          *)
TypeOK ==
    /\ sw \in [Call -> {"idle", "asking", "deciding", "marked", "journaled", "up_a", "up_b",
                        "down", "down_a", "down_b"}]
    /\ placed \in [Call -> Line \cup {NoLine}]
    /\ marked \subseteq Call
    /\ jour \in [Call -> {"none", "dial", "refused"}]
    /\ synced \subseteq {c \in Call : jour[c] # "none"}
    /\ rep \in [Call -> [st : {"none", "due", "posted", "done", "dropped"}, id : BOOLEAN]]
    /\ route \in [Call -> [pc : {"none", "sent", "decide", "dial", "hangup"}, on : Owner]]
    /\ rows \in [Call -> [Owner -> [st : Status, line : Line \cup {NoLine},
                                    ended : BOOLEAN, hidden : BOOLEAN]]]
    /\ rec \in [Call -> [Post -> [pc : {"none", "queued", "insert", "ok", "error"}, suffix : BOOLEAN]]]
    /\ \/ sync = [pc |-> "idle", post |-> NoPost]
       \/ sync \in [pc : {"posted", "release"}, post : {p \in Post : Batch(p) # {}}]
    /\ timeouts \in 0 .. MaxTimeouts
    /\ restarts \in 0 .. MaxRestarts
    /\ gone \subseteq Call /\ talked \subseteq Call /\ billed \subseteq Call /\ leaked \subseteq Call

(* call_ended.sh and mark_pending: B never gets a hang-up report of a call *)
(* A placed before it has the call itself, whatever is repeated or lost.   *)
(* (A call B skips, because its campaign is gone, is given up.)            *)
ReportNotEarly ==
    \A c \in Call : sw[c] = "down_a" /\ rep[c].st \in {"posted", "done", "dropped"}
                      => Exists(c, "a") \/ c \in gone

(* _set_aside_phantom: a call is shown and counted once.  As soon as A's   *)
(* row is there, a row of B's late handler is hidden.                      *)
CountedOnce == \A c \in Call : Exists(c, "a") /\ Exists(c, "b") => rows[c]["b"].hidden

(* "Every call is billed as usual": an answered call whose report carries  *)
(* its id is settled as one in the end, unless a restart of the sync left  *)
(* its marker behind.  (Without the id, a late refusal of B that has taken *)
(* over A's row can hide the row from the report.)                         *)
AnsweredIsBilled ==
    \A c \in Call : c \in talked /\ rep[c].id ~> c \in billed \/ c \in leaked \cup gone

(* call_ended.sh: the marker stays "until B has written the call".         *)
MarkerGoes == \A c \in Call : c \in synced ~> c \notin marked

(* _set_aside_phantom: a late answer of B "describes a call that was never *)
(* placed" and is hidden.  So a row that is shown has the line A dialled.  *)
ShownWasPlaced ==
    \A c \in Call : Exists(c, "a") /\ rows[c]["a"].line # NoLine => rows[c]["a"].line = placed[c]
=============================================================================
