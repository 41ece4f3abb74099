------------------------ MODULE TrackingNumbers_proofs ------------------------
(***************************************************************************)
(* Proofs about TrackingNumbers: no number changes account before its      *)
(* quarantine is over, for any accounts, users, days and terms.            *)
(*                                                                         *)
(* The pool rules only compare the quarantine's end with today.  That the  *)
(* end is far enough from the release is QuarantineInv: a number in        *)
(* quarantine is released (Quarantined), and a released number's last      *)
(* release is known and past (Freed).                                      *)
(***************************************************************************)
EXTENDS TrackingNumbers, TLAPS

Freed == freed <= today /\ (row.st = "released" => freed # 0)

Quarantined == row.pool = "quarantine" /\ ~behind /\ ~revived =>
                   row.st = "released" /\ freed + Quarantine <= row.until

QuarantineInv == TypeOK /\ Freed /\ Quarantined

(* What a write has to bring for the invariant to survive it: a row of the *)
(* right type, in quarantine only if it was, or if it is released with the *)
(* whole quarantine ahead, whenever the handler's view was not behind.     *)
Sound(new, seen) ==
    /\ new \in Row
    /\ seen = row /\ new.pool = "quarantine" =>
           \/ row.pool = "quarantine" /\ new.until = row.until
              /\ (new.st = row.st \/ new.st = "released" \/ new.org = row.org)
           \/ new.st = "released" /\ new.until = today + Quarantine

-----------------------------------------------------------------------------
(* The types of what the handlers write.                                   *)
LEMMA Released == TypeOK => \A seen, new \in Row :
    /\ OnRelease(seen, new) \in Row
    /\ OnRelease(seen, new).st = new.st /\ OnRelease(seen, new).org = new.org
    /\ seen.pool = "inventory" => /\ OnRelease(seen, new).pool = "quarantine"
                                  /\ OnRelease(seen, new).until = today + Quarantine
    /\ seen.pool # "inventory" => OnRelease(seen, new) = new
<1> SUFFICES ASSUME TypeOK, NEW seen \in Row, NEW new \in Row
             PROVE  /\ OnRelease(seen, new) \in Row
                    /\ OnRelease(seen, new).st = new.st /\ OnRelease(seen, new).org = new.org
                    /\ seen.pool = "inventory" => /\ OnRelease(seen, new).pool = "quarantine"
                                                  /\ OnRelease(seen, new).until = today + Quarantine
                    /\ seen.pool # "inventory" => OnRelease(seen, new) = new
    OBVIOUS
<1>1. today + Quarantine \in 0 .. LastDay + Quarantine
    BY DaysAssumption DEF TypeOK, Day
<1> QED BY <1>1 DEF OnRelease, Row

(* A sound write keeps the part of the invariant that speaks of the row.   *)
LEMMA WriteIsSound ==
    ASSUME QuarantineInv, NEW new, NEW seen, Sound(new, seen), Write(new, seen), today' = today
    PROVE  /\ row' \in Row /\ freed' \in 0 .. LastDay
           /\ behind' \in BOOLEAN /\ revived' \in BOOLEAN
           /\ Freed' /\ Quarantined'
<1> USE DaysAssumption DEF QuarantineInv, TypeOK, Day
<1>1. CASE ~Allowed(row, new)
    BY <1>1 DEF Write, Freed, Quarantined
<1>2. CASE Allowed(row, new)
  <2>1. /\ row' = new
        /\ freed' = IF new.st = "released" /\ row.st # "released" THEN today ELSE freed
        /\ behind' = (behind \/ seen # row)
        /\ revived' = \/ revived
                      \/ row.st = "released" /\ new.st # "released" /\ new.org = row.org
      BY <1>2 DEF Write
  <2>2. row' \in Row /\ behind' \in BOOLEAN /\ revived' \in BOOLEAN
      BY <2>1 DEF Sound
  <2>3. freed' \in 0 .. LastDay
      BY <2>1
  <2>4. Freed'
      BY <2>1 DEF Freed
  <2>5. Quarantined'
    <3> SUFFICES ASSUME new.pool = "quarantine", ~behind', ~revived'
                 PROVE  new.st = "released" /\ freed' + Quarantine <= new.until
        BY <2>1 DEF Quarantined
    <3>1. seen = row /\ ~behind /\ ~revived
        BY <2>1
    <3>2. ~(row.st = "released" /\ new.st # "released" /\ new.org = row.org)
        BY <2>1
    <3>3. new.org = row.org
        BY <1>2 DEF Allowed, MayMove
    <3>4. CASE row.pool = "quarantine" /\ new.until = row.until
      <4>1. row.st = "released" /\ freed + Quarantine <= row.until
          BY <3>1, <3>4 DEF Quarantined
      <4> QED BY <2>1, <3>2, <3>3, <3>4, <4>1
    <3>5. CASE new.st = "released" /\ new.until = today + Quarantine
      <4>1. freed' <= today
          BY <2>1 DEF Freed
      <4> QED BY <2>3, <3>5, <4>1
    <3> QED BY <3>1, <3>4, <3>5 DEF Sound
  <2> QED BY <2>2, <2>3, <2>4, <2>5
<1> QED BY <1>1, <1>2

(* A user's edit of the row that was read.                                 *)
LEMMA EditsAreSound ==
    ASSUME QuarantineInv, NEW r \in Row, NEW e \in Edit
    PROVE  Sound(Edited(r, e), r)
<1> DEFINE gone == [r EXCEPT !.st = "released", !.camp = FALSE]
<1>1. gone \in Row /\ gone.st = "released" /\ gone.pool = r.pool /\ gone.until = r.until
    BY DEF Row
<1>2. CASE e = "release"
  <2>1. Edited(r, e) = OnRelease(r, gone)
      BY <1>2 DEF Edited
  <2> HIDE DEF gone
  <2> QED BY <1>1, <2>1, Released DEF QuarantineInv, Sound
<1>3. CASE e # "release"
  <2>1. /\ Edited(r, e) \in Row
        /\ Edited(r, e).pool = r.pool /\ Edited(r, e).until = r.until /\ Edited(r, e).org = r.org
      BY <1>3 DEF Edited, Edit, Row
  <2> QED BY <2>1 DEF Sound
<1> QED BY <1>2, <1>3

(* A task's retirement, decided on the pool that was read.                 *)
LEMMA RetiringIsSound ==
    ASSUME QuarantineInv, NEW seen \in Row
    PROVE  Sound(Retired(seen), [row EXCEPT !.pool = seen.pool])
<1> DEFINE gone == [row EXCEPT !.st = "released", !.camp = FALSE]
<1>1. row \in Row
    BY DEF QuarantineInv, TypeOK
<1>2. gone \in Row /\ gone.st = "released" /\ gone.pool = row.pool /\ gone.until = row.until
    BY <1>1 DEF Row
<1>3. Retired(seen) = OnRelease(seen, gone)
    BY DEF Retired
<1>4. [row EXCEPT !.pool = seen.pool] = row => seen.pool = row.pool
    BY <1>1 DEF Row
<1> HIDE DEF gone
<1> QED BY <1>1, <1>2, <1>3, <1>4, Released DEF QuarantineInv, Sound

-----------------------------------------------------------------------------
(* The initial states: there is no number yet. *)
LEMMA InitInv == Init => QuarantineInv
<1> SUFFICES ASSUME Init PROVE QuarantineInv
    OBVIOUS
<1>1. NoRow \in Row
    BY DaysAssumption DEF NoRow, Row, Account
<1>2. TypeOK
  <2>1. IdleRequest \in Request /\ IdleTask \in Task
      BY <1>1 DEF Request, IdleRequest, Edit, Task, IdleTask
  <2>2. night \in Night
      BY <1>1, DaysAssumption DEF Init, Night
  <2>3. user \in [User -> Request]
      BY <2>1 DEF Init
  <2>4. today \in Day /\ freed \in 0 .. LastDay
      BY DaysAssumption DEF Init, Day
  <2> QED BY <1>1, <2>1, <2>2, <2>3, <2>4 DEF Init, TypeOK
<1>3. Freed /\ Quarantined
    BY DEF Init, NoRow, Freed, Quarantined
<1> QED BY <1>2, <1>3 DEF QuarantineInv

(* Every step keeps the invariant.                                         *)
LEMMA StepInv == QuarantineInv /\ [Next]_vars => QuarantineInv'
<1> SUFFICES ASSUME QuarantineInv, [Next]_vars PROVE QuarantineInv'
    OBVIOUS
<1> USE DaysAssumption, BoundsAssumption
<1>1. TypeOK /\ Freed /\ Quarantined
    BY DEF QuarantineInv
<1>2. NoRow \in Row /\ IdleTask \in Task /\ IdleRequest \in Request
    BY DEF NoRow, Row, Account, Task, IdleTask, Request, IdleRequest, Edit
<1>3. ASSUME NEW o \in Account, Create(o) PROVE QuarantineInv'
  <2>1. PICK st \in {"active", "pending"} :
            row' = [NoRow EXCEPT !.st = st, !.org = o, !.pool = IF o = Main THEN "main" ELSE "inventory"]
      BY <1>3 DEF Create
  <2>2. row' \in Row /\ row'.st # "released" /\ row'.pool # "quarantine"
    <3>1. row' = [st |-> st, org |-> o, pool |-> IF o = Main THEN "main" ELSE "inventory",
                  until |-> 0, camp |-> FALSE, used |-> 0, exp |-> 0]
        BY <2>1 DEF NoRow
    <3> QED BY <3>1 DEF Row
  <2>3. UNCHANGED <<terms, today, busy, over, user, task, night, edits, killed, freed, behind, revived>>
      BY <1>3 DEF Create
  <2> QED BY <1>1, <2>2, <2>3 DEF QuarantineInv, TypeOK, Freed, Quarantined
<1>4. ASSUME NEW o \in Account, Move(o) PROVE QuarantineInv'
  <2> DEFINE new == [row EXCEPT !.org = o, !.pool = "inventory", !.st = "active"]
  <2>1. Write(new, row) /\ UNCHANGED <<terms, today, busy, over, user, task, night, edits, killed>>
      BY <1>4 DEF Move
  <2>2. Sound(new, row)
      BY <1>1 DEF Sound, TypeOK, Row
  <2>3. /\ row' \in Row /\ freed' \in 0 .. LastDay
        /\ behind' \in BOOLEAN /\ revived' \in BOOLEAN
        /\ Freed' /\ Quarantined'
      BY <2>1, <2>2, WriteIsSound
  <2> QED BY <1>1, <2>1, <2>3 DEF QuarantineInv, TypeOK
<1>5. ASSUME NEW u \in User, UserRead(u) PROVE QuarantineInv'
  <2>1. PICK e \in Edit : user' = [user EXCEPT ![u] = [pc |-> "save", seen |-> row, edit |-> e]]
      BY <1>5 DEF UserRead
  <2>2. user' \in [User -> Request] /\ edits' \in Nat
      BY <1>1, <1>5, <2>1 DEF UserRead, TypeOK, Request
  <2> QED BY <1>1, <1>5, <2>2 DEF UserRead, QuarantineInv, TypeOK, Freed, Quarantined
<1>6. ASSUME NEW u \in User, UserSave(u) PROVE QuarantineInv'
  <2>1. user[u].seen \in Row /\ user[u].edit \in Edit
      BY <1>1 DEF TypeOK, Request
  <2>2. Sound(Edited(user[u].seen, user[u].edit), user[u].seen)
      BY <2>1, EditsAreSound
  <2>3. Write(Edited(user[u].seen, user[u].edit), user[u].seen) /\ today' = today
      BY <1>6 DEF UserSave
  <2>4. /\ row' \in Row /\ freed' \in 0 .. LastDay
        /\ behind' \in BOOLEAN /\ revived' \in BOOLEAN
        /\ Freed' /\ Quarantined'
      BY <2>2, <2>3, WriteIsSound
  <2>5. user' \in [User -> Request]
      BY <1>1, <1>2, <1>6 DEF UserSave, TypeOK
  <2> QED BY <1>1, <1>6, <2>4, <2>5 DEF UserSave, QuarantineInv, TypeOK
<1>7. CASE Answered
  <2>1. task' \in Task
    <3>1. task' = [pc |-> "queued", seen |-> NoRow]
        BY <1>7 DEF Answered, IdleTask
    <3> QED BY <1>2, <3>1 DEF Task
  <2>2. busy' \in BOOLEAN
      BY <1>1, <1>7 DEF Answered, TypeOK
  <2> QED BY <1>1, <1>7, <2>1, <2>2 DEF Answered, QuarantineInv, TypeOK, Freed, Quarantined
<1>8. CASE TaskRead
  <2>1. task' \in Task
      BY <1>1, <1>2, <1>8 DEF TaskRead, TypeOK, Task
  <2> QED BY <1>1, <1>8, <2>1 DEF TaskRead, QuarantineInv, TypeOK, Freed, Quarantined
<1>9. CASE TaskStampUsed
  <2> DEFINE new == [row EXCEPT !.used = today]
  <2>1. Write(new, row) /\ UNCHANGED <<terms, today, busy, over, user, night, edits, killed>>
      BY <1>9 DEF TaskStampUsed
  <2>2. Sound(new, row)
      BY <1>1 DEF Sound, TypeOK, Row, Day
  <2>3. /\ row' \in Row /\ freed' \in 0 .. LastDay
        /\ behind' \in BOOLEAN /\ revived' \in BOOLEAN
        /\ Freed' /\ Quarantined'
      BY <2>1, <2>2, WriteIsSound
  <2>4. task' \in Task
      BY <1>1, <1>9 DEF TaskStampUsed, TypeOK, Task, Row, Day
  <2> QED BY <1>1, <2>1, <2>3, <2>4 DEF QuarantineInv, TypeOK
<1>10. CASE TaskRetire
  <2>1. task.seen \in Row
      BY <1>1 DEF TypeOK, Task
  <2>2. Write(Retired(task.seen), [row EXCEPT !.pool = task.seen.pool]) /\ today' = today
      BY <1>10 DEF TaskRetire
  <2>3. /\ row' \in Row /\ freed' \in 0 .. LastDay
        /\ behind' \in BOOLEAN /\ revived' \in BOOLEAN
        /\ Freed' /\ Quarantined'
      BY <2>1, <2>2, RetiringIsSound, WriteIsSound
  <2> QED BY <1>1, <1>2, <1>10, <2>3 DEF TaskRetire, QuarantineInv, TypeOK
<1>11. CASE TaskStampLifetime
  <2>1. task.seen.used \in 0 .. LastDay
      BY <1>1 DEF TypeOK, Task, Row
  <2> DEFINE new == [row EXCEPT !.exp = task.seen.used + Lifetime]
  <2>2. UNCHANGED <<terms, today, busy, over, user, night, edits, killed>> /\ task' = IdleTask
      BY <1>11 DEF TaskStampLifetime
  <2>3. Sound(new, row)
      BY <1>1, <2>1 DEF Sound, TypeOK, Row
  <2>4. CASE Write(new, row)
    <3>1. /\ row' \in Row /\ freed' \in 0 .. LastDay
          /\ behind' \in BOOLEAN /\ revived' \in BOOLEAN
          /\ Freed' /\ Quarantined'
        BY <2>2, <2>3, <2>4, WriteIsSound
    <3> QED BY <1>1, <1>2, <2>2, <3>1 DEF QuarantineInv, TypeOK
  <2>5. CASE UNCHANGED <<row, freed, behind, revived>>
      BY <1>1, <1>2, <2>2, <2>5 DEF QuarantineInv, TypeOK, Freed, Quarantined
  <2> QED BY <1>11, <2>4, <2>5 DEF TaskStampLifetime
<1>12. CASE NightRead
  <2>1. night' \in Night
      BY <1>1, <1>12 DEF NightRead, TypeOK, Night, Day
  <2> QED BY <1>1, <1>12, <2>1 DEF NightRead, QuarantineInv, TypeOK, Freed, Quarantined
<1>13. CASE NightRetire
  <2>1. night.seen \in Row
      BY <1>1 DEF TypeOK, Night
  <2>2. Write(Retired(night.seen), [row EXCEPT !.pool = night.seen.pool]) /\ today' = today
      BY <1>13 DEF NightRetire
  <2>3. /\ row' \in Row /\ freed' \in 0 .. LastDay
        /\ behind' \in BOOLEAN /\ revived' \in BOOLEAN
        /\ Freed' /\ Quarantined'
      BY <2>1, <2>2, RetiringIsSound, WriteIsSound
  <2>4. night' \in Night
      BY <1>1, <1>2, <1>13 DEF NightRetire, TypeOK, Night
  <2> QED BY <1>1, <1>13, <2>3, <2>4 DEF NightRetire, QuarantineInv, TypeOK
<1>14. CASE Killed
  <2>1. killed' \in Nat
      BY <1>1, <1>14 DEF Killed, TypeOK
  <2>2. task' \in Task /\ night' \in Night
      BY <1>1, <1>2, <1>14 DEF Killed, TypeOK, Night
  <2> QED BY <1>1, <1>14, <2>1, <2>2 DEF Killed, QuarantineInv, TypeOK, Freed, Quarantined
<1>15. CASE NextDay
  <2>1. today' \in Day /\ today <= today'
      BY <1>1, <1>15 DEF NextDay, TypeOK, Day
  <2>2. over' \in BOOLEAN /\ busy' \in BOOLEAN
      BY <1>1, <1>15 DEF NextDay, TypeOK
  <2>3. Freed'
      BY <1>1, <1>15, <2>1 DEF NextDay, TypeOK, Freed, Day
  <2>4. Quarantined'
      BY <1>1, <1>15 DEF NextDay, Quarantined
  <2> QED BY <1>1, <1>15, <2>1, <2>2, <2>3, <2>4 DEF NextDay, QuarantineInv, TypeOK
<1>16. CASE UNCHANGED vars
    BY <1>1, <1>16 DEF vars, QuarantineInv, TypeOK, Freed, Quarantined
<1> QED BY <1>3, <1>4, <1>5, <1>6, <1>7, <1>8, <1>9, <1>10, <1>11, <1>12, <1>13, <1>14, <1>15, <1>16
        DEF Next

(* A write that changes the account passed the pool rules.                 *)
LEMMA StepFull ==
    QuarantineInv /\ [Next]_vars =>
        [row.st # "none" /\ row'.org # row.org =>
             \/ freed # 0 /\ freed + Quarantine <= today
             \/ behind \/ revived]_vars
<1> SUFFICES ASSUME QuarantineInv, Next, row.st # "none", row'.org # row.org, ~behind, ~revived
             PROVE  freed # 0 /\ freed + Quarantine <= today
    BY DEF vars
<1>1. PICK new : row' = new /\ Allowed(row, new)
    BY DEF Next, Create, Move, UserRead, UserSave, Answered, TaskRead, TaskStampUsed, TaskRetire,
           TaskStampLifetime, NightRead, NightRetire, Killed, NextDay, Write
<1>2. row.pool = "quarantine" /\ row.until <= today
    BY <1>1 DEF Allowed, MayMove
<1>3. row.st = "released" /\ freed + Quarantine <= row.until /\ freed # 0
    BY <1>2 DEF QuarantineInv, Quarantined, Freed
<1>4. row.until \in Nat /\ today \in Nat /\ freed \in Nat /\ Quarantine \in Nat
    BY DaysAssumption DEF QuarantineInv, TypeOK, Row, Day
<1> QED BY <1>2, <1>3, <1>4

-----------------------------------------------------------------------------
(* A number's columns, requests and tasks keep their types, for any        *)
(* accounts, users and terms and however many days pass.                   *)
THEOREM TypesHold == Spec => []TypeOK
<1>1. QuarantineInv => TypeOK
    BY DEF QuarantineInv
<1> QED BY <1>1, InitInv, StepInv, PTL DEF Spec

(* No customer's number reaches another account before its quarantine is   *)
(* over, whatever users edit and tasks retire meanwhile, unless a request  *)
(* wrote back an older row or put the released number back in service.     *)
THEOREM QuarantineIsFull == Spec => FullQuarantine
<1>1. Init => QuarantineInv
    BY InitInv
<1>2. QuarantineInv /\ [Next]_vars => QuarantineInv'
    BY StepInv
<1>3. QuarantineInv /\ [Next]_vars =>
          [row.st # "none" /\ row'.org # row.org =>
               \/ freed # 0 /\ freed + Quarantine <= today
               \/ behind \/ revived]_vars
    BY StepFull
<1> QED BY <1>1, <1>2, <1>3, PTL DEF Spec, FullQuarantine
=============================================================================
