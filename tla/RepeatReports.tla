---------------------------- MODULE RepeatReports ----------------------------
(***************************************************************************)
(* The tries of one call (routing.retry_group) and their copies in Reports *)
(* (analytics CallRecord, written by routing.signals).                     *)
(*                                                                         *)
(* A sending platform redials a call nobody took, and each try is a row of *)
(* its own; the newest try is shown and the ones before it are hidden.     *)
(* Every save of a finished row mirrors it into Reports in the request     *)
(* that saved it.  No statement of this code runs in a transaction with    *)
(* another and no row is locked, so a handler is at one statement at a     *)
(* time, and the handlers interleave between statements.                   *)
(*                                                                         *)
(* All tries are of one caller, on one number of one campaign.  The gap    *)
(* and the lengths is_retry measures are free choices.                     *)
(***************************************************************************)
EXTENDS Naturals, FiniteSets

CONSTANTS
    Try,          \* the tries: calls of one caller
    None,         \* no try
    Workers,      \* requests and tasks Server B runs at once
    MaxAgain,     \* bound: hang-up reports the switch repeats
    MaxHeld,      \* bound: answers the SIP relay saw while it held a CANCEL
    MaxSwept,     \* bound: rows a sweep closes before their report
    MaxFails,     \* bound: mirrors that raise, and workers killed
    MaxOdd        \* bound: these four together

ASSUME TryAssumption == IsFiniteSet(Try) /\ None \notin Try
ASSUME BoundsAssumption == {Workers, MaxAgain, MaxHeld, MaxSwept, MaxFails, MaxOdd} \subseteq Nat

VARIABLES
    row,      \* the CallLog rows: status, block_reason, created_at, retry_root, retry_hidden
    copy,     \* the CallRecord rows, by the id of their call
    job,      \* the handlers of a try: the next statement, what they read
    dial,     \* how the dial of a try ends: a talk, or the switch's words for none
    held,     \* the cache key held_answer:<id>
    queued,   \* mirror_call_record tasks in the Celery queue
    again, relays, swept, fails,
    late,     \* history: copies last written or deleted on the word of an older row
    cut,      \* history: tries whose mirror or link was lost with its worker
    twice     \* history: tries that two handlers at once brought to be shown beside another

bounds == <<again, relays, swept, fails>>
vars == <<row, copy, job, dial, held, queued, bounds, late, cut, twice>>
OddLeft == again + relays + swept + fails < MaxOdd

Finished == {"no_answer", "completed"}
Reason == {"", "refused", "Not Connected", "swept"}
Row == [st : {"none", "ringing"} \cup Finished, why : Reason, at : 0 .. Cardinality(Try),
        root : Try \cup {None}, hid : BOOLEAN]
(* What a copy shows: the outcome, and the try it is dated from. *)
Copy == [st : {"none"} \cup Finished, root : Try \cup {None}]
Step == {"create", "root", "hide", "drop", "decide", "save", "read", "write", "check", "clear", "fold"}
DialEnd == {"talk", "Not Connected"}
Handler == {"route", "end", "again", "held", "sweep", "worker"}
Job == [at : Step \cup {"new", "done"}, seen : Row, prev : Try \cup {None}, head : Try \cup {None},
        plain : BOOLEAN]

NoRow == [st |-> "none", why |-> "", at |-> 0, root |-> None, hid |-> FALSE]
NoCopy == [st |-> "none", root |-> None]
NewJob == [at |-> "new", seen |-> NoRow, prev |-> None, head |-> None, plain |-> FALSE]
DoneJob == [NewJob EXCEPT !.at = "done"]

Init ==
    /\ row = [c \in Try |-> NoRow]
    /\ copy = [c \in Try |-> NoCopy]
    /\ job = [c \in Try |-> [h \in Handler |-> NewJob]]
    /\ dial = [c \in Try |-> "none"]
    /\ held = [c \in Try |-> FALSE]
    /\ queued = {}
    /\ again = 0 /\ relays = 0 /\ swept = 0 /\ fails = 0
    /\ late = {} /\ cut = {} /\ twice = {}

At(c, h, s) == job[c][h].at = s
Idle(c, h) == job[c][h].at \in {"new", "done"}
WorkerFree == Cardinality({j \in Try \X Handler : ~Idle(j[1], j[2])}) < Workers
Fresh(c, h) == At(c, h, "new") /\ WorkerFree

(* mirror_call_log is called after a save, and once more after a fold.     *)
AfterMirror(c, h) == IF h = "route" /\ ~job[c][h].plain THEN "fold" ELSE "done"

(* The statement of a handler after the one it is at.                      *)
Following(c, h) ==
    LET j == job[c][h]
    IN CASE j.at = "create" -> IF j.prev = None THEN "decide" ELSE "root"
         [] j.at = "root" -> "hide"
         [] j.at = "hide" -> "drop"
         [] j.at = "drop" -> IF j.plain THEN "read" ELSE "decide"
         [] j.at = "save" -> "read"
         [] j.at = "read" -> "write"
         [] j.at = "write" -> "check"
         [] OTHER -> AfterMirror(c, h)

Goto(c, h, s) ==
    job' = [job EXCEPT ![c][h] = IF s = "done" THEN DoneJob ELSE [@ EXCEPT !.at = s]]
Continue(c, h) == Goto(c, h, Following(c, h))

Root(r, c) == IF r.root = None THEN c ELSE r.root
View(r) == [st |-> r.st, root |-> r.root]
Newest(S) == CHOOSE c \in S : \A d \in S : row[d].at <= row[c].at
(* Mutant: created_at is not compared. *)
BeforeOrAfter(c) == {d \in Try \ {c} : 0 < row[d].at}

Before(c) == {d \in Try : 0 < row[d].at /\ row[d].at < row[c].at}

(* Two tries are of one call when the links connect them: no set that has  *)
(* every try together with its root, and every root with its tries, has    *)
(* one of them alone.  A root may have been folded into an earlier one.    *)
Closed(S) == \A e \in Try : e \in S <=> Root(row[e], e) \in S
SameCall(c, d) == \A S \in SUBSET Try : (c \in S /\ Closed(S)) => d \in S

-----------------------------------------------------------------------------
(* The route request of a try (asterisk_handler.route_incoming_call).      *)

(* is_retry: prev ended unanswered, and a line or we refused it, or it ran *)
(* its full length.  The gap and the lengths are free.                     *)
MayBeRetried(r) == r.st = "no_answer"

FindPrev(shown) ==
    LET prev == Newest(shown)
    IN IF shown # {} /\ MayBeRetried(row[prev]) THEN {None, prev} ELSE {None}

RouteFind(c) ==
    /\ Fresh(c, "route")
    /\ \E prev \in FindPrev({d \in Try : row[d].at > 0 /\ ~row[d].hid}) :
          job' = [job EXCEPT ![c]["route"] =
                    [NewJob EXCEPT !.at = "create", !.prev = prev,
                                   !.head = IF prev = None THEN None ELSE Root(row[prev], prev)]]
    /\ UNCHANGED <<row, copy, dial, held, queued, bounds, late, cut, twice>>

RouteCreate(c) ==
    /\ At(c, "route", "create")
    /\ row' = [row EXCEPT ![c] = [NoRow EXCEPT !.st = "ringing",
                                  !.at = 1 + Cardinality({d \in Try : row[d].at > 0})]]
    /\ Continue(c, "route")
    /\ UNCHANGED <<copy, dial, held, queued, bounds, late, cut, twice>>

(* A line is dialled: a save of the columns it names, status among them. *)
RouteSend(c) ==
    /\ At(c, "route", "decide")
    /\ row' = [row EXCEPT ![c].st = "ringing"]
    /\ \E how \in DialEnd : dial' = [dial EXCEPT ![c] = how]
    /\ Goto(c, "route", "done")
    /\ UNCHANGED <<copy, held, queued, bounds, late, cut, twice>>

(* No line can: the refusal is saved, mirrored by post_save, then folded.  *)
RouteRefuse(c) ==
    /\ At(c, "route", "decide")
    /\ row' = [row EXCEPT ![c].st = "no_answer", ![c].why = "refused"]
    /\ Goto(c, "route", "read")
    /\ UNCHANGED <<copy, dial, held, queued, bounds, late, cut, twice>>

(* fold_refused_repeat: a call already linked by this request is left.  The *)
(* earlier refusal is linked, then this row's copy is written again.       *)
RouteFold(c) ==
    /\ At(c, "route", "fold")
    /\ LET shown == {d \in Before(c) : ~row[d].hid /\ row[d].why = "refused"}
           prev == Newest(shown)
       IN IF job[c]["route"].prev = None /\ shown # {}
          THEN job' = [job EXCEPT ![c]["route"] =
                          [@ EXCEPT !.at = "root", !.plain = TRUE, !.prev = prev,
                                    !.head = Root(row[prev], prev)]]
          ELSE Goto(c, "route", "done")
    /\ UNCHANGED <<row, copy, dial, held, queued, bounds, late, cut, twice>>

-----------------------------------------------------------------------------
(* A copy is deleted; the deletion is late when the row is shown again.    *)
Clear(c) ==
    /\ copy' = [copy EXCEPT ![c] = NoCopy]
    /\ late' = IF row[c].hid THEN late \ {c} ELSE late \cup {c}

(* link(call, prev): the root, then the hiding, then the copy.             *)

LinkRoot(c) ==
    /\ At(c, "route", "root")
    /\ row' = [row EXCEPT ![c].root = job[c]["route"].head]
    /\ Continue(c, "route")
    /\ UNCHANGED <<copy, dial, held, queued, bounds, late, cut, twice>>

(* Mutant: the root is hidden, not the try before. *)
LinkHideRoot(c) ==
    LET prev == job[c]["route"].prev
    IN /\ At(c, "route", "hide")
       /\ row' = [row EXCEPT ![job[c]["route"].head].hid = TRUE]
       /\ twice' = IF row[prev].hid THEN twice \cup {c} ELSE twice
       /\ Continue(c, "route")
       /\ UNCHANGED <<copy, dial, held, queued, bounds, late, cut>>

LinkHide(c) ==
    LET prev == job[c]["route"].prev
    IN /\ At(c, "route", "hide")
       /\ row' = [row EXCEPT ![prev].hid = TRUE]
       /\ twice' = IF row[prev].hid THEN twice \cup {c} ELSE twice
       /\ Continue(c, "route")
       /\ UNCHANGED <<copy, dial, held, queued, bounds, late, cut>>

LinkDrop(c) ==
    /\ At(c, "route", "drop")
    /\ Clear(job[c]["route"].prev)
    /\ Continue(c, "route")
    /\ UNCHANGED <<row, dial, held, queued, bounds, cut, twice>>

-----------------------------------------------------------------------------
(* The handlers that finish a row.                                         *)

Start(c, h, seen) == job' = [job EXCEPT ![c][h] = [NewJob EXCEPT !.at = "save", !.seen = seen]]

Missed(r, why) == [r EXCEPT !.st = "no_answer", !.why = IF @ = "" THEN why ELSE @]
Answered(r, unless) == [r EXCEPT !.st = "completed", !.why = IF @ = unless THEN "" ELSE @]

(* call_ended reads the row, and takes a held answer if there is one.      *)
EndRead(c, h) ==
    /\ h \in {"end", "again"} /\ Fresh(c, h)
    /\ dial[c] # "none"
    /\ h = "again" => ~At(c, "end", "new") /\ again < MaxAgain /\ OddLeft
    /\ again' = IF h = "again" THEN again + 1 ELSE again
    /\ held' = [held EXCEPT ![c] = @ /\ dial[c] = "talk"]
    /\ Start(c, h, IF dial[c] = "talk" \/ held[c] THEN Answered(row[c], "swept") ELSE Missed(row[c], dial[c]))
    /\ UNCHANGED <<row, copy, dial, queued, relays, swept, fails, late, cut, twice>>

(* held_answer_report: a live row is left, and the answer remembered; a    *)
(* missed one is made answered.                                            *)
HeldRead(c) ==
    /\ Fresh(c, "held") /\ dial[c] = "Not Connected"
    /\ relays < MaxHeld /\ OddLeft
    /\ relays' = relays + 1
    /\ CASE row[c].st = "ringing" ->
              Start(c, "held", row[c])
         [] row[c].st = "no_answer" /\ row[c].why = "Not Connected" ->
              Start(c, "held", Answered(row[c], "Not Connected"))
         [] OTHER -> UNCHANGED job
    /\ UNCHANGED <<row, copy, dial, held, queued, again, swept, fails, late, cut, twice>>

HeldRemember(c) ==
    /\ At(c, "held", "save") /\ job[c]["held"].seen.st = "ringing"
    /\ held' = [held EXCEPT ![c] = TRUE]
    /\ Goto(c, "held", "done")
    /\ UNCHANGED <<row, copy, dial, queued, bounds, late, cut, twice>>

(* settle_call_money saves every column of the row the handler has read:   *)
(* a try hidden meanwhile is shown again.                                  *)
SaveWhole(c, h) ==
    /\ h \in {"end", "again", "held"}
    /\ At(c, h, "save") /\ job[c][h].seen.st \in Finished
    /\ row' = [row EXCEPT ![c] = job[c][h].seen]
    /\ twice' = IF row[c].hid /\ ~row'[c].hid THEN twice \cup {c} ELSE twice
    /\ Continue(c, h)
    /\ UNCHANGED <<copy, dial, held, queued, bounds, late, cut>>

(* The two sweeps re-read the status and save the columns they name.       *)
SweepRead(c) ==
    /\ Fresh(c, "sweep") /\ row[c].st = "ringing"
    /\ swept < MaxSwept /\ OddLeft
    /\ swept' = swept + 1
    /\ Start(c, "sweep", row[c])
    /\ UNCHANGED <<row, copy, dial, held, queued, again, relays, fails, late, cut, twice>>

SweepSave(c) ==
    /\ At(c, "sweep", "save")
    /\ row' = [row EXCEPT ![c].st = "no_answer", ![c].why = "swept"]
    /\ Continue(c, "sweep")
    /\ UNCHANGED <<copy, dial, held, queued, bounds, late, cut, twice>>

-----------------------------------------------------------------------------
(* mirror_call_log(c), called after a save, by fold_refused_repeat or by   *)
(* the Celery task.                                                        *)

(* Mutant: the status is not checked again in the worker. *)
MirrorReadAny(c, h) ==
    /\ At(c, h, "read")
    /\ IF ~row[c].hid
       THEN job' = [job EXCEPT ![c][h] = [@ EXCEPT !.seen = row[c], !.at = "write"]]
       ELSE Goto(c, h, "clear")
    /\ UNCHANGED <<row, copy, dial, held, queued, bounds, late, cut, twice>>

MirrorRead(c, h) ==
    /\ At(c, h, "read")
    /\ IF row[c].st \in Finished /\ ~row[c].hid
       THEN job' = [job EXCEPT ![c][h] = [@ EXCEPT !.seen = row[c], !.at = "write"]]
       ELSE Goto(c, h, IF row[c].st \in Finished THEN "clear" ELSE AfterMirror(c, h))
    /\ UNCHANGED <<row, copy, dial, held, queued, bounds, late, cut, twice>>

MirrorWrite(c, h) ==
    /\ At(c, h, "write")
    /\ copy' = [copy EXCEPT ![c] = View(job[c][h].seen)]
    /\ late' = IF View(row[c]) = View(job[c][h].seen) THEN late \ {c} ELSE late \cup {c}
    /\ Continue(c, h)
    /\ UNCHANGED <<row, dial, held, queued, bounds, cut, twice>>

(* Mutant: what was read before the write is believed. *)
MirrorCheckOnce(c, h) ==
    /\ At(c, h, "check")
    /\ Continue(c, h)
    /\ UNCHANGED <<row, copy, dial, held, queued, bounds, late, cut, twice>>

(* Checked again after writing: the try may have been hidden meanwhile.    *)
MirrorCheck(c, h) ==
    /\ At(c, h, "check")
    /\ Goto(c, h, IF row[c].hid THEN "clear" ELSE AfterMirror(c, h))
    /\ UNCHANGED <<row, copy, dial, held, queued, bounds, late, cut, twice>>

MirrorClear(c, h) ==
    /\ At(c, h, "clear")
    /\ Clear(c)
    /\ Continue(c, h)
    /\ UNCHANGED <<row, dial, held, queued, bounds, cut, twice>>

(* It raises before it has written: after a save it is queued; in the      *)
(* worker, and in fold_refused_repeat, the exception is only logged.       *)
MirrorFails(c, h) ==
    /\ At(c, h, "read") \/ At(c, h, "write")
    /\ fails < MaxFails /\ OddLeft
    /\ fails' = fails + 1
    /\ Goto(c, h, AfterMirror(c, h))
    /\ IF h = "worker" \/ job[c][h].plain
       THEN cut' = cut \cup {c} /\ UNCHANGED queued
       ELSE queued' = queued \cup {c} /\ UNCHANGED cut
    /\ UNCHANGED <<row, copy, dial, held, again, relays, swept, late, twice>>

WorkerTake(c) ==
    /\ c \in queued /\ Idle(c, "worker") /\ WorkerFree
    /\ queued' = queued \ {c}
    /\ job' = [job EXCEPT ![c]["worker"] = [NewJob EXCEPT !.at = "read"]]
    /\ UNCHANGED <<row, copy, dial, held, bounds, late, cut, twice>>

(* A worker process is killed: the rest of its handler never runs.         *)
Killed(c, h) ==
    /\ ~Idle(c, h) /\ ~At(c, h, "create")
    /\ fails < MaxFails /\ OddLeft
    /\ fails' = fails + 1
    /\ Goto(c, h, "done")
    /\ cut' = cut \cup ({c, job[c][h].prev} \ {None})
    /\ UNCHANGED <<row, copy, dial, held, queued, again, relays, swept, late, twice>>

-----------------------------------------------------------------------------
Next ==
    \E c \in Try :
       \/ RouteFind(c) \/ RouteCreate(c) \/ RouteSend(c) \/ RouteRefuse(c) \/ RouteFold(c)
       \/ LinkRoot(c) \/ LinkHide(c) \/ LinkDrop(c)
       \/ HeldRead(c) \/ HeldRemember(c) \/ SweepRead(c) \/ SweepSave(c) \/ WorkerTake(c)
       \/ \E h \in Handler :
             \/ EndRead(c, h) \/ SaveWhole(c, h)
             \/ MirrorRead(c, h) \/ MirrorWrite(c, h) \/ MirrorCheck(c, h) \/ MirrorClear(c, h)
             \/ MirrorFails(c, h) \/ Killed(c, h)

Spec == Init /\ [][Next]_vars

TypeOK ==
    /\ row \in [Try -> Row]
    /\ copy \in [Try -> Copy]
    /\ job \in [Try -> [Handler -> Job]]
    /\ dial \in [Try -> DialEnd \cup {"none"}]
    /\ held \in [Try -> BOOLEAN]
    /\ queued \cup late \cup cut \cup twice \subseteq Try
    /\ again \in 0 .. MaxAgain /\ relays \in 0 .. MaxHeld /\ swept \in 0 .. MaxSwept /\ fails \in 0 .. MaxFails

Quiet == queued = {} /\ \A c \in Try, h \in Handler : Idle(c, h)
Shown == {c \in Try : row[c].at > 0 /\ ~row[c].hid}

(* Once the handlers are through, a try that is hidden is in no report:    *)
(* the mirror that read it shown and the link that hides it may run in any *)
(* order (signals.py, "whichever runs last, the copy goes").  A try that   *)
(* is shown and finished is there as its row has it, dated from its call's *)
(* root, unless a mirror wrote what it had read before the last change.    *)
ReportsCurrent ==
    Quiet => \A c \in Try \ cut :
        /\ row[c].hid => copy[c] = NoCopy
        /\ (c \in Shown \ late /\ row[c].st \in Finished) => copy[c] = View(row[c])

(* A call never leaves the log: whatever is hidden has a later try of the  *)
(* same call that is shown.                                                *)
CallStaysShown ==
    \A c \in Try : row[c].hid =>
       \E d \in Shown : row[c].at < row[d].at /\ SameCall(c, d)

(* Two rows are shown of one call only after two handlers overlapped: two  *)
(* redials linked to one try, a whole-row save of a try hidden meanwhile,  *)
(* or a link that was cut short.                                           *)
ShownTwiceOnlyByOverlap ==
    Quiet => \A c, d \in Shown :
       c # d /\ SameCall(c, d) => \E e \in twice \cup cut : SameCall(c, e)

(* "The grouped call is shown once: its latest try" (retry_group.py:32).   *)
GroupedOnce == Quiet => \A c, d \in Shown : SameCall(c, d) => c = d
=============================================================================
