--------------------------- MODULE TrackingNumbers ---------------------------
(***************************************************************************)
(* A tracking number (phone_numbers): the account it belongs to, its pool, *)
(* its retirement and its quarantine, while users of its account edit it   *)
(* and background tasks retire it.                                         *)
(*                                                                         *)
(* A user's request reads the row, changes some columns and saves all of   *)
(* them; the tasks save the columns they name.  Every write passes the     *)
(* pool rules (pools.before_save, and avx_tfn_pool_guard in the database). *)
(* Days are counted from 1; a day stands for any stretch of time between   *)
(* the statements below.                                                   *)
(***************************************************************************)
EXTENDS Naturals

CONSTANTS
    Org,          \* customer accounts
    Main,         \* our own account
    User,         \* requests of users, one at a time each
    Quarantine,   \* TFN_QUARANTINE_DAYS
    Lifetime,     \* Carrier.lifetime_hours, in days
    LastDay,      \* bound: the days modelled
    MaxEdits,     \* bound: requests of users
    MaxKilled     \* bound: background tasks lost with their worker

ASSUME OrgAssumption == Main \notin Org
ASSUME DaysAssumption == {Quarantine, Lifetime, LastDay} \subseteq Nat \ {0}
ASSUME BoundsAssumption == {MaxEdits, MaxKilled} \subseteq Nat

VARIABLES
    row,      \* the PhoneNumber row
    terms,    \* its carrier's terms
    today,
    busy,     \* it has taken more answered calls today than its carrier allows
    over,     \* it did so yesterday
    user,     \* the requests: the row read, the edit to make
    task,     \* retire_used_number, after an answered call
    night,    \* nightly_answered_sweep, once a day
    edits, killed,
    freed,    \* history: the day the number was last released
    behind,   \* history: a row read before another write has been written
    revived   \* history: a request put a released number back in service

vars == <<row, terms, today, busy, over, user, task, night, edits, killed, freed, behind,
          revived>>

Account == Org \cup {Main}
Day == 1 .. LastDay
Row == [st : {"none", "active", "pending", "released"}, org : Account,
        pool : {"main", "inventory", "quarantine"}, until : 0 .. LastDay + Quarantine,
        camp : BOOLEAN, used : 0 .. LastDay, exp : 0 .. LastDay + Lifetime]
Terms == {"single_use", "lifetime", "daily", "none"}
Edit == {"assign", "detach", "activate", "pause", "mark", "release"}
Request == [pc : {"idle", "save"}, seen : Row, edit : Edit]
Task == [pc : {"idle", "queued", "used", "terms"}, seen : Row]
Night == [pc : {"idle", "retire"}, seen : Row, ran : 0 .. LastDay]

NoRow == [st |-> "none", org |-> Main, pool |-> "main", until |-> 0,
          camp |-> FALSE, used |-> 0, exp |-> 0]
IdleRequest == [pc |-> "idle", seen |-> NoRow, edit |-> "assign"]
IdleTask == [pc |-> "idle", seen |-> NoRow]

Init ==
    /\ row = NoRow
    /\ terms \in Terms
    /\ today = 1
    /\ busy = FALSE /\ over = FALSE
    /\ user = [u \in User |-> IdleRequest]
    /\ task = IdleTask
    /\ night = [pc |-> "idle", seen |-> NoRow, ran |-> 0]
    /\ edits = 0 /\ killed = 0
    /\ freed = 0 /\ behind = FALSE /\ revived = FALSE

-----------------------------------------------------------------------------
(* The pool rules, and the one write they all pass through.                *)

MayMove(old, new) == old.pool = "quarantine" /\ old.until <= today /\ new.pool = "inventory"

(* Mutant: any quarantined number may change account. *)
AllowedEarly(old, new) ==
    /\ (new.pool = "main") = (new.org = Main)
    /\ old.pool = "main" => new.pool = "main"
    /\ new.org # old.org => old.pool = "quarantine" /\ new.pool = "inventory"

Allowed(old, new) ==
    /\ (new.pool = "main") = (new.org = Main)
    /\ old.pool = "main" => new.pool = "main"
    /\ new.org # old.org => MayMove(old, new)

(* The handler read `seen`; a write the rules refuse changes nothing.      *)
Write(new, seen) ==
    IF Allowed(row, new)
    THEN /\ row' = new
         /\ freed' = IF new.st = "released" /\ row.st # "released" THEN today ELSE freed
         /\ behind' = (behind \/ seen # row)
         /\ revived' = \/ revived
                       \/ row.st = "released" /\ new.st # "released" /\ new.org = row.org
    ELSE UNCHANGED <<row, freed, behind, revived>>

(* pools.on_release: a customer's number goes to quarantine. *)
OnRelease(seen, new) ==
    IF seen.pool = "inventory"
    THEN [new EXCEPT !.pool = "quarantine", !.until = today + Quarantine]
    ELSE new

(* purchase_number and import_existing_number: a number not known yet.     *)
Create(o) ==
    /\ row.st = "none"
    /\ \E st \in {"active", "pending"} :
          row' = [NoRow EXCEPT !.st = st, !.org = o, !.pool = IF o = Main THEN "main" ELSE "inventory"]
    /\ UNCHANGED <<terms, today, busy, over, user, task, night, edits, killed, freed, behind, revived>>

-----------------------------------------------------------------------------
(* assign_number, update_number, release_number.  update_number takes any  *)
(* status: "mark" is its released, without the quarantine.                 *)

UserRead(u) ==
    /\ user[u].pc = "idle" /\ row.st # "none"
    /\ edits < MaxEdits /\ edits' = edits + 1
    /\ \E e \in Edit : user' = [user EXCEPT ![u] = [pc |-> "save", seen |-> row, edit |-> e]]
    /\ UNCHANGED <<row, terms, today, busy, over, task, night, killed, freed, behind, revived>>

Edited(r, e) ==
    CASE e = "assign" -> [r EXCEPT !.camp = TRUE]
      [] e = "detach" -> [r EXCEPT !.camp = FALSE]
      [] e = "activate" -> [r EXCEPT !.st = "active"]
      [] e = "pause" -> [r EXCEPT !.st = "pending"]
      [] e = "mark" -> [r EXCEPT !.st = "released"]
      [] e = "release" -> OnRelease(r, [r EXCEPT !.st = "released", !.camp = FALSE])

UserSave(u) ==
    /\ user[u].pc = "save"
    /\ Write(Edited(user[u].seen, user[u].edit), user[u].seen)
    /\ user' = [user EXCEPT ![u] = IdleRequest]
    /\ UNCHANGED <<terms, today, busy, over, task, night, edits, killed>>

-----------------------------------------------------------------------------
(* Calls, and the task each answered one queues.                           *)

Answered ==
    /\ row.st = "active" /\ row.camp
    /\ task.pc = "idle"
    /\ task' = [IdleTask EXCEPT !.pc = "queued"]
    /\ busy' \in {busy, TRUE}
    /\ UNCHANGED <<row, terms, today, over, user, night, edits, killed, freed, behind, revived>>

(* retire_if_single_use: an active number with a carrier; used_at first.   *)
TaskRead ==
    /\ task.pc = "queued"
    /\ task' = IF row.st = "active" /\ terms # "none"
               THEN [pc |-> IF row.used # 0 THEN "terms" ELSE "used", seen |-> row]
               ELSE IdleTask
    /\ UNCHANGED <<row, terms, today, busy, over, user, night, edits, killed, freed, behind, revived>>

TaskStampUsed ==
    /\ task.pc = "used"
    /\ Write([row EXCEPT !.used = today], row)
    /\ task' = [pc |-> "terms", seen |-> [task.seen EXCEPT !.used = today]]
    /\ UNCHANGED <<terms, today, busy, over, user, night, edits, killed>>

(* retire: the columns it saves.  The pool is decided on the row it read.  *)
Retired(seen) == OnRelease(seen, [row EXCEPT !.st = "released", !.camp = FALSE])

TaskRetire ==
    /\ task.pc = "terms" /\ terms = "single_use"
    /\ Write(Retired(task.seen), [row EXCEPT !.pool = task.seen.pool])
    /\ task' = IdleTask
    /\ UNCHANGED <<terms, today, busy, over, user, night, edits, killed>>

(* Mutant: the lifetime is added at every use. *)
TaskStampLifetimeAgain ==
    /\ task.pc = "terms" /\ terms # "single_use"
    /\ IF terms = "lifetime"
       THEN Write([row EXCEPT !.exp = (IF @ = 0 THEN task.seen.used ELSE @) + Lifetime], row)
       ELSE UNCHANGED <<row, freed, behind, revived>>
    /\ task' = IdleTask
    /\ UNCHANGED <<terms, today, busy, over, user, night, edits, killed>>

(* stamp_lifetime: counted from the first use, set once. *)
TaskStampLifetime ==
    /\ task.pc = "terms" /\ terms # "single_use"
    /\ IF terms = "lifetime" /\ task.seen.exp = 0
       THEN Write([row EXCEPT !.exp = task.seen.used + Lifetime], row)
       ELSE UNCHANGED <<row, freed, behind, revived>>
    /\ task' = IdleTask
    /\ UNCHANGED <<terms, today, busy, over, user, night, edits, killed>>

-----------------------------------------------------------------------------
(* nightly_answered_sweep: the day's marker, then the numbers over their   *)
(* limit yesterday and the numbers whose time is up; each is retired.      *)

Due == \/ terms = "daily" /\ over
       \/ terms = "lifetime" /\ row.exp # 0 /\ row.exp <= today

NightRead ==
    /\ night.pc = "idle" /\ night.ran < today
    /\ night' = IF row.st \in {"active", "pending"} /\ Due
                THEN [pc |-> "retire", seen |-> row, ran |-> today]
                ELSE [night EXCEPT !.ran = today]
    /\ UNCHANGED <<row, terms, today, busy, over, user, task, edits, killed, freed, behind, revived>>

NightRetire ==
    /\ night.pc = "retire"
    /\ Write(Retired(night.seen), [row EXCEPT !.pool = night.seen.pool])
    /\ night' = [night EXCEPT !.pc = "idle", !.seen = NoRow]
    /\ UNCHANGED <<terms, today, busy, over, user, task, edits, killed>>

(* A worker is killed: the task is not run again, the marker stays.        *)
Killed ==
    /\ killed < MaxKilled /\ killed' = killed + 1
    /\ \/ task.pc # "idle" /\ task' = IdleTask /\ UNCHANGED night
       \/ night.pc # "idle" /\ night' = [night EXCEPT !.pc = "idle", !.seen = NoRow] /\ UNCHANGED task
    /\ UNCHANGED <<row, terms, today, busy, over, user, edits, freed, behind, revived>>

-----------------------------------------------------------------------------
(* An operator gives a number to another account, by hand. *)
Move(o) ==
    /\ row.st # "none" /\ o # row.org
    /\ LET new == [row EXCEPT !.org = o, !.pool = "inventory", !.st = "active"]
       IN Allowed(row, new) /\ Write(new, row)
    /\ UNCHANGED <<terms, today, busy, over, user, task, night, edits, killed>>

NextDay ==
    /\ today < LastDay /\ today' = today + 1
    /\ over' = busy /\ busy' = FALSE
    /\ UNCHANGED <<row, terms, user, task, night, edits, killed, freed, behind, revived>>

Next ==
    \/ \E o \in Account : Create(o) \/ Move(o)
    \/ \E u \in User : UserRead(u) \/ UserSave(u)
    \/ Answered \/ TaskRead \/ TaskStampUsed \/ TaskRetire \/ TaskStampLifetime
    \/ NightRead \/ NightRetire \/ Killed
    \/ NextDay

Spec == Init /\ [][Next]_vars

-----------------------------------------------------------------------------
TypeOK ==
    /\ row \in Row
    /\ terms \in Terms
    /\ today \in Day
    /\ busy \in BOOLEAN /\ over \in BOOLEAN
    /\ user \in [User -> Request]
    /\ task \in Task
    /\ night \in Night
    /\ edits \in Nat /\ killed \in Nat
    /\ freed \in 0 .. LastDay
    /\ behind \in BOOLEAN /\ revived \in BOOLEAN

(* "Numbers released by a customer go into quarantine before any reuse":   *)
(* another account has the number only when TFN_QUARANTINE_DAYS have       *)
(* passed since it was last released, unless a request wrote back a row it *)
(* had read earlier, or one put the released number back in service        *)
(* (which leaves the first quarantine running).                            *)
FullQuarantine ==
    [][row.st # "none" /\ row'.org # row.org =>
          \/ freed # 0 /\ freed + Quarantine <= today
          \/ behind \/ revived]_vars
=============================================================================
