---------------------------- MODULE Money_proofs ----------------------------
(***************************************************************************)
(* Proofs about the money of an account: its bookings (Ledger), for every  *)
(* set of operations, amounts and sids, and the protocols around them      *)
(* (AccountMoney), for any orders, callbacks in work, runs of the daily    *)
(* task, amounts, fees, cycles and bounds.                                 *)
(*                                                                         *)
(* Ledger's properties follow from LedgerInv: the row lock is exclusive    *)
(* and its holder knows the balance (Exclusive), an entry of the log is    *)
(* only written by an operation that has ended (Ended), the position of an *)
(* operation agrees with its method (Placed), a charge that passed the     *)
(* retry guard had seen no charge of its call (Unseen), and the account    *)
(* shows all that was booked but for what unlocked writers wrote over      *)
(* (Balanced).                                                             *)
(*                                                                         *)
(* AccountMoney's follow from MoneyInv: the payment properties rest on     *)
(* what an order's credits have to do with its row (CreditsFit), the fee's *)
(* on where a run of the task stands between its charge and its stamp      *)
(* (Cycles, Stamped), both with the types of the requests in work, which   *)
(* MoneyTypeOK leaves open.                                                *)
(***************************************************************************)
EXTENDS Ledger, AccountMoney, TLAPS

Exclusive == \A o \in Op : pc[o] = "holding" => holder = o /\ seen[o] = balance

Placed == \A o \in Op : /\ pc[o] = "holding" => Kind[o] \in Locked
                        /\ pc[o] = "read" => Kind[o] \in Unlocked

Ended == /\ \A i \in 1 .. Len(log) : pc[log[i].op] = "done"
         /\ \A o \in Op : \A q \in knew[o] : pc[q] = "done"

Unseen == \A o \in Op : pc[o] \in {"checked", "holding"} /\ Kind[o] \in Charges
              => \A i \in ChargesOf(Sid[o]) : log[i].op \notin knew[o]

Balanced == balance = worth + slip

LedgerInv == TypeOK /\ Exclusive /\ Placed /\ Ended /\ Unseen /\ Balanced

Safe == LockedReadsLatest /\ RepeatIsFree

(* The initial states satisfy the invariant and the properties: nothing is *)
(* written yet.                                                            *)
LEMMA InitSafe == Init => LedgerInv /\ Safe
<1> SUFFICES ASSUME Init PROVE LedgerInv /\ Safe
    OBVIOUS
<1>1. Len(log) = 0 /\ log \in Seq(Entry)
    BY DEF Init
<1>2. TypeOK
    BY <1>1, AccountAssumption, AbortsAssumption DEF Init, TypeOK, Position
<1>3. Exclusive /\ Placed /\ Ended /\ Unseen
    BY <1>1 DEF Init, Exclusive, Placed, Ended, Unseen, ChargesOf
<1>4. Balanced
    BY AccountAssumption DEF Init, Balanced
<1>5. Safe
    BY <1>1 DEF Init, Safe, LockedReadsLatest, RepeatIsFree, BalanceBefore, ChargesOf
<1> QED BY <1>2, <1>3, <1>4, <1>5 DEF LedgerInv

(* What an operation moves is an amount of money.                          *)
LEMMA MovesType == \A o \in Op : Moves(o) \in Int
<1> SUFFICES ASSUME NEW o \in Op PROVE Moves(o) \in Int
    OBVIOUS
<1>1. Amount[o] \in Nat
    BY AmountAssumption
<1>2. CASE Kind[o] = "settings"
    BY <1>2 DEF Moves
<1>3. CASE Kind[o] # "settings" /\ Kind[o] \in Credits
    BY <1>1, <1>3 DEF Moves
<1>4. CASE Kind[o] # "settings" /\ Kind[o] \notin Credits
    BY <1>1, <1>4 DEF Moves
<1> QED BY <1>2, <1>3, <1>4

(* What Book appends, whichever method calls it.                           *)
LEMMA Booked ==
    ASSUME TypeOK, NEW o \in Op, Book(o)
    PROVE  LET n == Len(log) + 1
           IN /\ balance' \in Int /\ worth' \in Int /\ log' \in Seq(Entry)
              /\ Len(log') = n
              /\ \A i \in 1 .. Len(log) : log'[i] = log[i]
              /\ log'[n].op = o /\ log'[n].before = seen[o] /\ log'[n].after = balance'
              /\ balance' = seen[o] + Moves(o) /\ worth' = worth + Moves(o)
<1> DEFINE after == seen[o] + Moves(o)
           entry == [op |-> o, before |-> seen[o], after |-> after]
<1>1. after \in Int /\ seen[o] \in Int /\ worth + Moves(o) \in Int
    BY MovesType DEF TypeOK
<1>2. entry \in Entry
    BY <1>1 DEF Entry
<1>3. balance' = after /\ log' = Append(log, entry) /\ worth' = worth + Moves(o)
    BY DEF Book
<1>4. log \in Seq(Entry)
    BY DEF TypeOK
<1> HIDE DEF after
<1>5. balance' \in Int /\ log' \in Seq(Entry) /\ Len(log') = Len(log) + 1
    BY <1>1, <1>2, <1>3, <1>4
<1>6. \A i \in 1 .. Len(log) : log'[i] = log[i]
    BY <1>3, <1>4
<1>7. log'[Len(log) + 1] = entry
    BY <1>3, <1>4
<1>8. balance' = seen[o] + Moves(o)
    BY <1>3 DEF after
<1> QED BY <1>1, <1>3, <1>5, <1>6, <1>7, <1>8

(* Every entry is one of the operations'.                                  *)
LEMMA EntriesAreOps == TypeOK => \A i \in 1 .. Len(log) : log[i].op \in Op
<1> SUFFICES ASSUME TypeOK, NEW i \in 1 .. Len(log) PROVE log[i].op \in Op
    OBVIOUS
<1>1. log[i] \in Entry
    BY DEF TypeOK
<1> QED BY <1>1 DEF Entry

(* A step that appends no transaction and lets no charge of the past be    *)
(* seen anew keeps the properties of the transactions.                     *)
LEMMA NothingBooked ==
    ASSUME Safe, UNCHANGED <<balance, log>>,
           \A i \in 1 .. Len(log) : knew'[log[i].op] = knew[log[i].op]
    PROVE  Safe'
<1>1. LockedReadsLatest'
    BY DEF Safe, LockedReadsLatest, BalanceBefore
<1>2. RepeatIsFree'
    BY DEF Safe, RepeatIsFree, ChargesOf
<1> QED BY <1>1, <1>2 DEF Safe

(* One new entry at the end, by an operation that has read the balance if  *)
(* it locks the account, and had seen no charge of its call if it is a     *)
(* charge.                                                                 *)
LEMMA OneBooked ==
    ASSUME TypeOK, Safe, NEW o \in Op, Book(o), UNCHANGED knew,
           Kind[o] \in Locked => seen[o] = balance,
           Kind[o] \in Charges => \A i \in ChargesOf(Sid[o]) : log[i].op \notin knew[o]
    PROVE  Safe'
<1>1. PICK n \in Nat : n = Len(log) + 1
    BY DEF TypeOK
<1>2. /\ Len(log) \in Nat /\ Len(log') = n
      /\ \A i \in 1 .. Len(log) : log'[i] = log[i]
      /\ log'[n].op = o /\ log'[n].before = seen[o] /\ log'[n].after = balance'
    BY <1>1, Booked DEF TypeOK
<1>3. \A i \in 1 .. n : i # n => i \in 1 .. Len(log)
    BY <1>1, <1>2
<1>4. LockedReadsLatest'
  <2>1. balance = BalanceBefore(n)
      BY <1>1 DEF Safe, LockedReadsLatest
  <2>2. \A i \in 1 .. n : BalanceBefore(i)' = BalanceBefore(i)
      BY <1>1, <1>2 DEF BalanceBefore
  <2>3. BalanceBefore(n + 1)' = balance'
      BY <1>1, <1>2 DEF BalanceBefore
  <2>4. ASSUME NEW i \in 1 .. n, Kind[log'[i].op] \in Locked
        PROVE  log'[i].before = BalanceBefore(i)'
    <3>1. CASE i = n
        BY <1>2, <2>1, <2>2, <2>4, <3>1
    <3>2. CASE i # n
        BY <1>2, <1>3, <2>2, <2>4, <3>2 DEF Safe, LockedReadsLatest
    <3> QED BY <3>1, <3>2
  <2> QED BY <1>1, <1>2, <2>3, <2>4 DEF LockedReadsLatest
<1>5. RepeatIsFree'
  <2> SUFFICES ASSUME NEW i \in 1 .. n, NEW j \in 1 .. n, i < j,
                      Kind[log'[j].op] \in Charges, Kind[log'[i].op] \in Charges,
                      Sid[log'[i].op] = Sid[log'[j].op]
               PROVE  log'[i].op \notin knew[log'[j].op]
      BY <1>1, <1>2 DEF RepeatIsFree, ChargesOf
  <2>1. i \in 1 .. Len(log) /\ log'[i] = log[i]
      BY <1>1, <1>2
  <2>2. CASE j = n
      BY <1>2, <2>1, <2>2 DEF ChargesOf
  <2>3. CASE j # n
      BY <1>2, <1>3, <2>1, <2>3 DEF Safe, RepeatIsFree, ChargesOf
  <2> QED BY <2>2, <2>3
<1> QED BY <1>4, <1>5 DEF Safe

(* Both ways to book, Commit and Write, end the operation and leave the    *)
(* row free: what holds of the other operations is not disturbed, because  *)
(* an operation that has not ended is in nobody's past.                    *)
LEMMA BookKeepsInv ==
    ASSUME LedgerInv, NEW o \in Op, Book(o), pc[o] # "done",
           pc' = [pc EXCEPT ![o] = "done"], holder' = NoOp,
           \A q \in Op : pc[q] = "holding" => q = o,
           slip' \in Int, balance' = worth' + slip',
           UNCHANGED <<seen, aborts, knew>>
    PROVE  LedgerInv'
<1>1. PICK n \in Nat : n = Len(log) + 1
    BY DEF LedgerInv, TypeOK
<1>2. /\ Len(log') = n
      /\ \A i \in 1 .. n : i # n => i \in 1 .. Len(log) /\ log'[i] = log[i]
      /\ log'[n].op = o /\ balance' \in Int /\ worth' \in Int /\ log' \in Seq(Entry)
    BY <1>1, Booked DEF LedgerInv, TypeOK
<1>3. TypeOK'
    BY <1>2 DEF LedgerInv, TypeOK, Position
<1>4. Exclusive' /\ Placed'
    BY DEF LedgerInv, TypeOK, Exclusive, Placed
<1>5. Ended'
  <2>1. \A q \in Op : pc[q] = "done" => pc'[q] = "done"
      BY DEF LedgerInv, TypeOK
  <2>2. \A i \in 1 .. Len(log) : log[i].op \in Op /\ pc[log[i].op] = "done"
      BY EntriesAreOps DEF LedgerInv, Ended
  <2>3. \A i \in 1 .. n : pc'[log'[i].op] = "done"
      BY <1>2, <2>1, <2>2 DEF LedgerInv, TypeOK
  <2>4. \A p \in Op : \A q \in knew[p] : pc'[q] = "done"
      BY <2>1 DEF LedgerInv, TypeOK, Ended
  <2> QED BY <1>2, <2>3, <2>4 DEF Ended
<1>6. Unseen'
  <2> SUFFICES ASSUME NEW q \in Op, pc'[q] \in {"checked", "holding"}, Kind[q] \in Charges,
                      NEW i \in ChargesOf(Sid[q])'
               PROVE  log'[i].op \notin knew[q]
      BY DEF Unseen
  <2>1. q # o /\ pc[q] = pc'[q] /\ i \in 1 .. n
      BY <1>2 DEF LedgerInv, TypeOK, ChargesOf
  <2>2. CASE i = n
      BY <1>2, <2>2 DEF LedgerInv, Ended
  <2>3. CASE i # n
      BY <1>2, <2>1, <2>3 DEF LedgerInv, Unseen, ChargesOf
  <2> QED BY <2>2, <2>3
<1> QED BY <1>3, <1>4, <1>5, <1>6 DEF LedgerInv, Balanced

(* Every step keeps the invariant and the properties.                      *)
LEMMA StepSafe == LedgerInv /\ Safe /\ [Next]_vars => LedgerInv' /\ Safe'
<1> SUFFICES ASSUME LedgerInv, Safe, [Next]_vars
             PROVE  LedgerInv' /\ Safe'
    OBVIOUS
<1> USE DEF LedgerInv
<1>1. ASSUME NEW o \in Op, Check(o)
      PROVE  LedgerInv' /\ Safe'
  <2>1. /\ pc[o] = "new" /\ Kind[o] \in Charges
        /\ knew' = [knew EXCEPT ![o] = {log[i].op : i \in 1 .. Len(log)}]
        /\ pc' = [pc EXCEPT ![o] = IF ChargesOf(Sid[o]) # {} THEN "done" ELSE "checked"]
        /\ UNCHANGED <<balance, log, holder, seen, aborts, worth, slip>>
      BY <1>1 DEF Check
  <2>2. \A i \in 1 .. Len(log) : log[i].op \in Op
      BY EntriesAreOps
  <2>3. TypeOK'
      BY <2>1, <2>2 DEF TypeOK, Position
  <2>4. Exclusive' /\ Placed' /\ Balanced'
      BY <2>1 DEF TypeOK, Exclusive, Placed, Balanced
  <2>5. Ended'
      BY <2>1, <2>2 DEF TypeOK, Ended
  <2>6. Unseen'
      BY <2>1 DEF TypeOK, Unseen, ChargesOf
  <2>7. Safe'
      BY <2>1, <2>2, NothingBooked DEF TypeOK, Ended
  <2> QED BY <2>3, <2>4, <2>5, <2>6, <2>7
<1>2. ASSUME NEW o \in Op, Lock(o)
      PROVE  LedgerInv' /\ Safe'
  <2>1. /\ Kind[o] \in Locked /\ holder = NoOp /\ holder' = o
        /\ pc[o] = IF Kind[o] \in Charges THEN "checked" ELSE "new"
        /\ seen' = [seen EXCEPT ![o] = balance] /\ pc' = [pc EXCEPT ![o] = "holding"]
        /\ UNCHANGED <<balance, log, aborts, knew, worth, slip>>
      BY <1>2 DEF Lock, Ready
  <2>2. \A q \in Op : pc[q] # "holding"
      BY <2>1, NoOpAssumption DEF Exclusive
  <2>3. TypeOK'
      BY <2>1 DEF TypeOK, Position
  <2>4. Exclusive' /\ Placed' /\ Balanced'
      BY <2>1, <2>2 DEF TypeOK, Exclusive, Placed, Balanced
  <2>5. Ended'
      BY <2>1 DEF TypeOK, Ended
  <2>6. Unseen'
      BY <2>1 DEF TypeOK, Unseen, ChargesOf
  <2>7. Safe'
      BY <2>1, NothingBooked
  <2> QED BY <2>3, <2>4, <2>5, <2>6, <2>7
<1>3. ASSUME NEW o \in Op, Commit(o)
      PROVE  LedgerInv' /\ Safe'
  <2>1. /\ pc[o] = "holding" /\ Book(o) /\ holder' = NoOp
        /\ pc' = [pc EXCEPT ![o] = "done"] /\ UNCHANGED <<seen, aborts, knew, slip>>
      BY <1>3 DEF Commit
  <2>2. seen[o] = balance /\ holder = o /\ \A q \in Op : pc[q] = "holding" => q = o
      BY <2>1 DEF Exclusive
  <2>3. slip' \in Int /\ balance' = worth' + slip'
      BY <2>1, <2>2, Booked, MovesType DEF TypeOK, Balanced
  <2>4. LedgerInv'
      BY <2>1, <2>2, <2>3, BookKeepsInv
  <2>5. Kind[o] \in Charges => \A i \in ChargesOf(Sid[o]) : log[i].op \notin knew[o]
      BY <2>1 DEF Unseen
  <2>6. Safe'
      BY <2>1, <2>2, <2>5, OneBooked
  <2> QED BY <2>4, <2>6
<1>4. ASSUME NEW o \in Op, Refuse(o)
      PROVE  LedgerInv' /\ Safe'
  <2>1. /\ pc[o] = "holding" /\ holder' = NoOp /\ pc' = [pc EXCEPT ![o] = "done"]
        /\ UNCHANGED <<balance, log, seen, aborts, knew, worth, slip>>
      BY <1>4 DEF Refuse
  <2>2. TypeOK' /\ Exclusive' /\ Placed' /\ Balanced'
      BY <2>1 DEF TypeOK, Position, Exclusive, Placed, Balanced
  <2>3. Ended'
      BY <2>1, EntriesAreOps DEF TypeOK, Ended
  <2>4. Unseen'
      BY <2>1 DEF TypeOK, Unseen, ChargesOf
  <2>5. Safe'
      BY <2>1, NothingBooked
  <2> QED BY <2>2, <2>3, <2>4, <2>5
<1>5. ASSUME NEW o \in Op, Read(o)
      PROVE  LedgerInv' /\ Safe'
  <2>1. /\ pc[o] = "new" /\ Kind[o] \in Unlocked
        /\ seen' = [seen EXCEPT ![o] = balance] /\ pc' = [pc EXCEPT ![o] = "read"]
        /\ UNCHANGED <<balance, log, holder, aborts, knew, worth, slip>>
      BY <1>5 DEF Read
  <2>2. TypeOK' /\ Exclusive' /\ Placed' /\ Balanced'
      BY <2>1 DEF TypeOK, Position, Exclusive, Placed, Balanced
  <2>3. Ended' /\ Unseen'
      BY <2>1 DEF TypeOK, Ended, Unseen, ChargesOf
  <2>4. Safe'
      BY <2>1, NothingBooked
  <2> QED BY <2>2, <2>3, <2>4
<1>6. ASSUME NEW o \in Op, Write(o)
      PROVE  LedgerInv' /\ Safe'
  <2>1. /\ pc[o] = "read" /\ holder = NoOp /\ Book(o) /\ holder' = NoOp
        /\ slip' = slip + (seen[o] - balance)
        /\ pc' = [pc EXCEPT ![o] = "done"] /\ UNCHANGED <<seen, aborts, knew>>
      BY <1>6 DEF Write
  <2>2. \A q \in Op : pc[q] # "holding"
      BY <2>1, NoOpAssumption DEF Exclusive
  <2>3. slip' \in Int /\ balance' = worth' + slip'
    <3>1. balance' = seen[o] + Moves(o) /\ worth' = worth + Moves(o)
        BY <2>1, Booked
    <3>2. seen[o] \in Int /\ Moves(o) \in Int /\ worth \in Int /\ slip \in Int /\ balance = worth + slip
        BY MovesType DEF TypeOK, Balanced
    <3> QED BY <2>1, <3>1, <3>2
  <2>4. LedgerInv'
      BY <2>1, <2>2, <2>3, BookKeepsInv
  <2>5. Kind[o] \notin Locked
      BY <2>1 DEF Placed, Locked, Unlocked, Charges
  <2>6. Safe'
      BY <2>1, <2>5, OneBooked DEF Locked, Charges
  <2> QED BY <2>4, <2>6
<1>7. ASSUME NEW o \in Op, Abort(o)
      PROVE  LedgerInv' /\ Safe'
  <2>1. /\ pc[o] \notin {"new", "done"} /\ aborts < MaxAborts /\ aborts' = aborts + 1
        /\ pc' = [pc EXCEPT ![o] = "new"]
        /\ holder' = IF holder = o THEN NoOp ELSE holder
        /\ UNCHANGED <<balance, log, seen, knew, worth, slip>>
      BY <1>7 DEF Abort
  <2>2. TypeOK'
      BY <2>1, AbortsAssumption DEF TypeOK, Position
  <2>3. Exclusive' /\ Placed' /\ Balanced'
      BY <2>1 DEF TypeOK, Exclusive, Placed, Balanced
  <2>4. Ended' /\ Unseen'
      BY <2>1 DEF TypeOK, Ended, Unseen, ChargesOf
  <2>5. Safe'
      BY <2>1, NothingBooked
  <2> QED BY <2>2, <2>3, <2>4, <2>5
<1>8. ASSUME UNCHANGED vars
      PROVE  LedgerInv' /\ Safe'
  <2>1. LedgerInv'
      BY <1>8 DEF vars, TypeOK, Exclusive, Placed, Ended, Unseen, Balanced, ChargesOf
  <2>2. Safe'
      BY <1>8, NothingBooked DEF vars
  <2> QED BY <2>1, <2>2
<1> QED BY <1>1, <1>2, <1>3, <1>4, <1>5, <1>6, <1>7, <1>8 DEF Next, Step

(* Every variable stays in its type, and only an open transaction holds    *)
(* the account's row.                                                      *)
THEOREM TypesHold == Spec => []TypeOK
<1>1. LedgerInv => TypeOK
    BY DEF LedgerInv
<1> QED BY InitSafe, StepSafe, <1>1, PTL DEF Spec

(* No method that locks the account overwrites another's money, whatever   *)
(* runs beside it.                                                         *)
THEOREM LocksReadLatest == Spec => []LockedReadsLatest
<1>1. Safe => LockedReadsLatest
    BY DEF Safe
<1> QED BY InitSafe, StepSafe, <1>1, PTL DEF Spec

(* A portal fee or the fee of a refused call is covered by the money all   *)
(* the bookings together leave, whatever is booked beside it, but for what *)
(* unlocked writers had put back.                                          *)
THEOREM FeesAreCovered == Spec => FeesCovered
<1>1. LedgerInv /\ LedgerInv' /\ [Next]_vars
         => [log' # log => LET o == log'[Len(log')].op
                           IN /\ Kind[o] = "fee" => worth' + slip' >= -Credit
                              /\ Kind[o] = "refused" => worth' + slip' >= 0]_vars
  <2> SUFFICES ASSUME LedgerInv, LedgerInv', Next, log' # log
               PROVE  LET o == log'[Len(log')].op
                      IN /\ Kind[o] = "fee" => worth' + slip' >= -Credit
                         /\ Kind[o] = "refused" => worth' + slip' >= 0
      BY DEF vars
  <2>1. PICK o \in Op : Commit(o) \/ Write(o)
      BY DEF Next, Step, Check, Lock, Refuse, Read, Abort
  <2>2. Book(o) /\ TypeOK
      BY <2>1 DEF Commit, Write, LedgerInv
  <2>3. log'[Len(log')].op = o /\ balance' = seen[o] + Moves(o)
      BY <2>2, Booked
  <2>4. CASE Write(o)
      BY <2>3, <2>4 DEF Write, LedgerInv, Placed, Unlocked
  <2>5. CASE Commit(o)
    <3>1. ~Short(o)
        BY <2>5 DEF Commit
    <3>2. seen[o] \in Int /\ Amount[o] \in Int /\ Credit \in Int
        BY AmountAssumption, AccountAssumption DEF LedgerInv, TypeOK
    <3>3. Kind[o] \in {"fee", "refused"} => Moves(o) = -Amount[o]
        BY DEF Moves, Credits
    <3>4. /\ Kind[o] = "fee" => balance' >= -Credit
          /\ Kind[o] = "refused" => balance' >= 0
        BY <2>3, <3>1, <3>2, <3>3 DEF Short
    <3> QED BY <2>3, <3>4 DEF LedgerInv, Balanced
  <2> QED BY <2>1, <2>4, <2>5
<1> QED BY <1>1, InitSafe, StepSafe, PTL DEF Spec, FeesCovered

(* A report that is repeated after the charge was committed never charges  *)
(* the call again.                                                         *)
THEOREM RepeatsAreFree == Spec => []RepeatIsFree
<1>1. Safe => RepeatIsFree
    BY DEF Safe
<1> QED BY InitSafe, StepSafe, <1>1, PTL DEF Spec

-----------------------------------------------------------------------------
(* The types, with those of the requests in work and of the history. *)
Handling == [pc : {"idle"}] \cup [pc : {"read"}, order : Order, says : Says]
Page == [pc : {"idle"}] \cup [pc : {"save"}, seen : Account]
Types ==
    /\ MoneyTypeOK
    /\ cb \in [Handler -> Handling]
    /\ page \in Page
    /\ credited \in [Order -> Nat]

(* A completed order has been credited, and one that was credited is       *)
(* completed or was set back; a payment with no callback to come is        *)
(* credited, unless that callback was refused or its number is shared, as  *)
(* it then stays: a payment has its row and so its number.                 *)
CreditsFit(o) ==
    /\ order[o] = "completed" => credited[o] > 0
    /\ credited[o] = 0 \/ order[o] = "completed" \/ o \in undone
    /\ credited[o] <= 1 \/ o \in undone
    /\ bank[o] = "paid" /\ <<o, "paid">> \notin owed => credited[o] > 0 \/ o \in refused \/ Shared(o)
    /\ bank[o] # "open" => order[o] # "none"

(* While no stamp was lost and no runs overlapped, one run at most is in   *)
(* work, and the stamp is the day of the last fee unless that run is       *)
(* about to write it.                                                      *)
Cycles == \A j \in Job :
    /\ \A i \in Job : job[i].pc # "idle" /\ job[j].pc # "idle" => i = j
    /\ job[j].pc = "stamp" => fees.last = job[j].day
    /\ job[j].pc = "charge" => acct.stamp = 0 \/ acct.stamp + Cycle <= job[j].day
Stamped == (\A j \in Job : job[j].pc # "stamp") => acct.stamp = fees.last

(* The inductive invariant. *)
MoneyInv == Types /\ (\A o \in Order : CreditsFit(o)) /\ (~loose => Cycles /\ Stamped)

(* An answered callback is taken off what the provider owes, or comes again. *)
LEMMA AnsweredOwed ==
    ASSUME NEW o, NEW says, Answered(o, says)
    PROVE  owed' = owed \ {<<o, says>>} \/ owed' = owed
BY DEF Answered

(* Every statement keeps the types. *)
LEMMA TypesStep == ASSUME Types, [MoneyNext]_moneyVars PROVE Types'
<1>t. /\ acct \in Account /\ acct.bal \in Int /\ acct.stamp \in 0 .. LastDay
      /\ order \in [Order -> {"none", "pending", "completed", "failed"}]
      /\ number \in [Order -> (0 .. LastDay) \X (Count \cup {0})]
      /\ bank \in [Order -> {"open", "failed", "paid"}]
      /\ owed \subseteq Order \X {"paid", "failed"}
      /\ cb \in [Handler -> Handling]
      /\ job \in [Job -> [pc : {"idle", "charge", "stamp"}, day : 0 .. LastDay]]
      /\ page \in Page
      /\ today \in 1 .. LastDay /\ fees.n \in Nat /\ fees.last \in 0 .. LastDay
      /\ undone \subseteq Order /\ refused \subseteq Order /\ loose \in BOOLEAN /\ credited \in [Order -> Nat]
    BY DEF Types, MoneyTypeOK, Account
<1>c. CreditLimit \in Nat /\ OrderAmount \in Nat /\ Fee \in Nat /\ LastDay \in Nat
    BY MoneyAssumption
<1>h. \A h \in Handler : cb[h].pc = "read" => cb[h].order \in Order /\ cb[h].says \in Says
    BY <1>t DEF Handling
<1>0. ASSUME cb' \in [Handler -> Handling]
      PROVE  \A h \in Handler : cb'[h].pc = "read" => cb'[h].order \in Order /\ cb'[h].says \in Says
    BY <1>0 DEF Handling
<1>1. ASSUME NEW o \in Order, TurnedDown(o) \/ Paid(o) \/ \E n \in Count : Checkout(o, n) PROVE Types'
  <2>1. /\ UNCHANGED <<acct, page, today, cb, credited, undone, refused, job, fees, loose>>
        /\ order' = order \/ order' = [order EXCEPT ![o] = "pending"]
        /\ number' = number \/ \E n \in Count : number' = [number EXCEPT ![o] = <<today, n>>]
        /\ bank' = bank \/ \E b \in {"failed", "paid"} : bank' = [bank EXCEPT ![o] = b]
        /\ owed' = owed \/ \E b \in {"failed", "paid"} : owed' = owed \cup {<<o, b>>}
      BY <1>1 DEF Checkout, TurnedDown, Paid, jobVars
  <2>2. /\ order' \in [Order -> {"none", "pending", "completed", "failed"}]
        /\ bank' \in [Order -> {"open", "failed", "paid"}] /\ owed' \subseteq Order \X {"paid", "failed"}
      BY <2>1, <1>t
  <2>3. number' \in [Order -> (0 .. LastDay) \X (Count \cup {0})]
    <3>1. today \in 0 .. LastDay
        BY <1>t, <1>c
    <3>2. \A n \in Count : <<today, n>> \in (0 .. LastDay) \X (Count \cup {0})
        BY <3>1
    <3> QED BY <2>1, <3>2, <1>t
  <2> QED BY <2>1, <2>2, <2>3 DEF Types, MoneyTypeOK
<1>2. ASSUME NEW o \in Order, NEW h \in Handler, NEW says \in Says, Callback(h, o, says) PROVE Types'
  <2>1. /\ UNCHANGED <<acct, page, today, order, number, bank, credited, undone, refused, job, fees, loose>>
        /\ owed' \subseteq owed
        /\ cb' = cb \/ cb' = [cb EXCEPT ![h] = [pc |-> "read", order |-> o, says |-> says]]
      BY <1>2, AnsweredOwed DEF Callback, jobVars
  <2>2. cb' \in [Handler -> Handling]
      BY <2>1, <1>t DEF Handling
  <2> QED BY <2>1, <2>2, <1>0, <1>t DEF Types, MoneyTypeOK
<1>r. ASSUME NEW o \in Order, NEW says \in Says, CallbackRefused(o, says) PROVE Types'
  <2>1. /\ UNCHANGED <<acct, page, today, order, number, bank, cb, credited, undone, job, fees, loose>>
        /\ owed' \subseteq owed /\ refused' \subseteq refused \cup {o}
      BY <1>r, AnsweredOwed DEF CallbackRefused, jobVars
  <2> QED BY <2>1, <1>t DEF Types, MoneyTypeOK
<1>3. ASSUME NEW o \in Order, NEW h \in Handler, ByHand(h, o) PROVE Types'
  <2>1. /\ UNCHANGED <<acct, page, today, order, number, bank, owed, credited, undone, refused, job, fees, loose>>
        /\ \E says \in Says : cb' = [cb EXCEPT ![h] = [pc |-> "read", order |-> o, says |-> says]]
      BY <1>3 DEF ByHand, jobVars, Says
  <2>2. cb' \in [Handler -> Handling]
      BY <2>1, <1>t DEF Handling
  <2> QED BY <2>1, <2>2, <1>0, <1>t DEF Types, MoneyTypeOK
<1>4. ASSUME NEW h \in Handler, CreditOrder(h) \/ FailOrder(h) \/ HandlerKilled(h) PROVE Types'
  <2>1. /\ UNCHANGED <<page, today, number, bank, refused, job, fees, loose>> /\ cb[h].pc = "read"
        /\ cb' = [cb EXCEPT ![h] = [pc |-> "idle"]] /\ owed' \subseteq owed
      BY <1>4, AnsweredOwed DEF CreditOrder, FailOrder, HandlerKilled, jobVars
  <2>2. cb' \in [Handler -> Handling]
      BY <2>1, <1>t DEF Handling
  <2>3. /\ order' = order \/ \E st \in {"completed", "failed"} : order' = [order EXCEPT ![cb[h].order] = st]
        /\ acct' = acct \/ acct' = [acct EXCEPT !.bal = @ + OrderAmount]
        /\ credited' = credited \/ credited' = [credited EXCEPT ![cb[h].order] = @ + 1]
        /\ undone' = undone \/ undone' = undone \cup {cb[h].order}
      BY <1>4 DEF CreditOrder, FailOrder, HandlerKilled
  <2>4. /\ order' \in [Order -> {"none", "pending", "completed", "failed"}] /\ credited' \in [Order -> Nat]
        /\ undone' \subseteq Order
    <3>1. cb[h].order \in Order
        BY <2>1, <1>h
    <3>2. /\ order \in [Order -> {"none", "pending", "completed", "failed"}] /\ credited \in [Order -> Nat]
          /\ undone \subseteq Order
        BY <1>t
    <3> QED BY <2>3, <3>1, <3>2
  <2>5. acct' \in Account
      BY <2>3, <1>t, <1>c DEF Account
  <2> QED BY <2>1, <2>2, <2>4, <2>5, <1>0, <1>t DEF Types, MoneyTypeOK
<1>5. ASSUME NEW j \in Job, Scan(j) \/ TakeFee(j) \/ SkipFee(j) \/ Stamp(j) \/ JobKilled(j) PROVE Types'
  <2>1. UNCHANGED <<page, today, order, number, bank, owed, cb, credited, undone, refused>>
      BY <1>5 DEF Scan, TakeFee, SkipFee, Stamp, JobKilled, orderVars
  <2>2. loose' \in BOOLEAN
    <3>1. Scan(j) => loose' \in BOOLEAN
        BY DEF Scan
    <3>2. JobKilled(j) => loose' \in BOOLEAN
        BY DEF JobKilled
    <3> QED BY <1>5, <3>1, <3>2, <1>t DEF TakeFee, SkipFee, Stamp
  <2>3. job' \in [Job -> [pc : {"idle", "charge", "stamp"}, day : 0 .. LastDay]]
    <3>1. \/ job' = [job EXCEPT ![j] = [pc |-> "charge", day |-> today]]
          \/ \E p \in {"idle", "stamp"} : job' = [job EXCEPT ![j].pc = p]
        BY <1>5 DEF Scan, TakeFee, SkipFee, Stamp, JobKilled
    <3> QED BY <3>1, <1>t, <1>c
  <2>4. fees' = fees \/ fees' = [n |-> fees.n + 1, last |-> job[j].day]
      BY <1>5 DEF Scan, TakeFee, SkipFee, Stamp, JobKilled
  <2>5. fees'.n \in Nat /\ fees'.last \in 0 .. LastDay
      BY <2>4, <1>t
  <2>6. \/ acct' = acct
        \/ acct' = [acct EXCEPT !.bal = @ - Fee]
        \/ acct' = [acct EXCEPT !.stamp = job[j].day]
      BY <1>5 DEF Scan, TakeFee, SkipFee, Stamp, JobKilled
  <2>7. acct' \in Account
      BY <2>6, <1>t, <1>c DEF Account
  <2> QED BY <2>1, <2>2, <2>3, <2>5, <2>7 DEF Types, MoneyTypeOK
<1>6. ASSUME SettingsRead PROVE Types'
  <2>1. page' = [pc |-> "save", seen |-> acct] /\ UNCHANGED <<acct, today, orderVars, jobVars>>
      BY <1>6 DEF SettingsRead
  <2>2. page' \in Page /\ page'.seen \in Account
      BY <2>1, <1>t DEF Page
  <2> QED BY <2>1, <2>2 DEF Types, MoneyTypeOK, orderVars, jobVars
<1>7. ASSUME SettingsSave PROVE Types'
  <2>1. /\ page.pc = "save" /\ acct' = page.seen /\ page' = [pc |-> "idle"]
        /\ loose' = (loose \/ page.seen.stamp # acct.stamp) /\ UNCHANGED <<today, orderVars, job, fees>>
      BY <1>7 DEF SettingsSave
  <2>2. page' \in Page /\ page'.pc # "save" /\ loose' \in BOOLEAN
      BY <2>1 DEF Page
  <2> QED BY <2>1, <2>2 DEF Types, MoneyTypeOK, orderVars
<1>8. ASSUME Day PROVE Types'
  <2>1. today < LastDay /\ today' = today + 1 /\ UNCHANGED <<acct, page, orderVars, jobVars>>
      BY <1>8 DEF Day
  <2>2. today' \in 1 .. LastDay
      BY <2>1, <1>t, <1>c
  <2> QED BY <2>1, <2>2 DEF Types, MoneyTypeOK, orderVars, jobVars
<1>9. CASE UNCHANGED moneyVars
    BY <1>9 DEF moneyVars, orderVars, jobVars, Types, MoneyTypeOK
<1> QED BY <1>1, <1>2, <1>r, <1>3, <1>4, <1>5, <1>6, <1>7, <1>8, <1>9 DEF MoneyNext

(* No callback, confirmation, failure or killed worker parts an order's    *)
(* credits from its row.                                                   *)
LEMMA CreditsStep == ASSUME Types, NEW o \in Order, CreditsFit(o), [MoneyNext]_moneyVars PROVE CreditsFit(o)'
<1>t. /\ order \in [Order -> {"none", "pending", "completed", "failed"}] /\ credited \in [Order -> Nat]
      /\ bank \in [Order -> {"open", "failed", "paid"}]
    BY DEF Types, MoneyTypeOK
<1>h. \A h \in Handler : cb[h].pc = "read" => cb[h].order \in Order /\ cb[h].says \in Says
    BY DEF Types, MoneyTypeOK
<1>n. /\ number \in [Order -> (0 .. LastDay) \X (Count \cup {0})]
      /\ \A p \in Order : order'[p] = "none" => order[p] = "none"
      /\ order[o] # "none" => \A p \in Order : order[p] # "none" => number'[p] = number[p]
  <2>1. number \in [Order -> (0 .. LastDay) \X (Count \cup {0})]
      BY DEF Types, MoneyTypeOK
  <2>2. ASSUME NEW p \in Order, NEW n \in Count, Checkout(p, n)
        PROVE  /\ \A q \in Order : order'[q] = "none" => order[q] = "none"
               /\ \A q \in Order : order[q] # "none" => number'[q] = number[q]
      BY <2>1, <2>2, <1>t DEF Checkout
  <2>3. ASSUME NEW h \in Handler, CreditOrder(h) \/ FailOrder(h)
        PROVE  number' = number /\ \A q \in Order : order'[q] = "none" => order[q] = "none"
      BY <2>3, <1>t, <1>h DEF CreditOrder, FailOrder
  <2>4. ASSUME \/ \E p \in Order : \/ TurnedDown(p) \/ Paid(p)
                                   \/ \E says \in Says : CallbackRefused(p, says)
                                   \/ \E h \in Handler : ByHand(h, p) \/ \E says \in Says : Callback(h, p, says)
               \/ \E h \in Handler : HandlerKilled(h)
               \/ \E j \in Job : Scan(j) \/ TakeFee(j) \/ SkipFee(j) \/ Stamp(j) \/ JobKilled(j)
               \/ SettingsRead \/ SettingsSave \/ Day
               \/ UNCHANGED moneyVars
        PROVE  UNCHANGED <<order, number>>
      BY <2>4 DEF TurnedDown, Paid, CallbackRefused, ByHand, Callback, HandlerKilled, Scan, TakeFee, SkipFee, Stamp,
         JobKilled, SettingsRead, SettingsSave, Day, orderVars, moneyVars
  <2> QED BY <2>1, <2>2, <2>3, <2>4 DEF MoneyNext
<1>s. order[o] # "none" /\ Shared(o) => Shared(o)'
    BY <1>n DEF Shared
<1>1. ASSUME NEW p \in Order, NEW n \in Count, Checkout(p, n) PROVE CreditsFit(o)'
    BY <1>1, <1>t, <1>s, <1>n DEF Checkout, CreditsFit
<1>2. ASSUME NEW p \in Order, TurnedDown(p) \/ Paid(p) PROVE CreditsFit(o)'
  <2>1. /\ UNCHANGED <<order, credited, undone, refused>> /\ order[p] # "none"
        /\ \E b \in {"failed", "paid"} : bank' = [bank EXCEPT ![p] = b] /\ owed' = owed \cup {<<p, b>>}
      BY <1>2 DEF TurnedDown, Paid
  <2>2. bank'[o] = "paid" /\ <<o, "paid">> \notin owed' => bank[o] = "paid" /\ <<o, "paid">> \notin owed
      BY <2>1, <1>t
  <2>3. bank'[o] # "open" => bank[o] # "open" \/ o = p
      BY <2>1, <1>t
  <2> QED BY <2>1, <2>2, <2>3, <1>s DEF CreditsFit
<1>3. ASSUME NEW p \in Order, NEW h \in Handler, NEW says \in Says, Callback(h, p, says) PROVE CreditsFit(o)'
  <2>1. UNCHANGED <<order, bank, credited, undone, refused>>
      BY <1>3 DEF Callback
  <2>2. owed' = owed \/ (owed' = owed \ {<<p, says>>} /\ (says = "paid" => order[p] = "completed" \/ Shared(p)))
      BY <1>3, AnsweredOwed DEF Callback, Payable
  <2>3. bank'[o] = "paid" /\ <<o, "paid">> \notin owed' => credited[o] > 0 \/ o \in refused \/ Shared(o)
      BY <2>1, <2>2 DEF CreditsFit
  <2> QED BY <2>1, <2>3, <1>s DEF CreditsFit
<1>r. ASSUME NEW p \in Order, NEW says \in Says, CallbackRefused(p, says) PROVE CreditsFit(o)'
  <2>1. /\ UNCHANGED <<order, bank, credited, undone>> /\ refused \subseteq refused'
        /\ owed' = owed \/ owed' = owed \ {<<p, says>>}
        /\ says = "paid" /\ <<p, says>> \notin owed' => p \in refused'
      BY <1>r, AnsweredOwed DEF CallbackRefused
  <2>2. <<o, "paid">> \notin owed' => <<o, "paid">> \notin owed \/ o \in refused'
      BY <2>1
  <2> QED BY <2>1, <2>2, <1>s DEF CreditsFit
<1>4. ASSUME NEW h \in Handler, CreditOrder(h) PROVE CreditsFit(o)'
  <2> DEFINE p == cb[h].order
  <2>1. /\ p \in Order /\ UNCHANGED <<bank, undone, refused>> /\ (owed' = owed \/ owed' = owed \ {<<p, cb[h].says>>})
        /\ \/ /\ order[p] # "completed" /\ order' = [order EXCEPT ![p] = "completed"]
              /\ credited' = [credited EXCEPT ![p] = @ + 1]
           \/ order[p] = "completed" /\ UNCHANGED <<order, credited>>
      BY <1>4, <1>h, AnsweredOwed DEF CreditOrder, Payable
  <2>2. CASE o = p
    <3>1. credited'[o] > 0 /\ order'[o] = "completed"
        BY <2>1, <2>2, <1>t DEF CreditsFit
    <3>2. credited'[o] <= 1 \/ o \in undone'
        BY <2>1, <2>2, <1>t DEF CreditsFit
    <3> QED BY <2>1, <3>1, <3>2, <1>s DEF CreditsFit
  <2>3. CASE o # p
    <3>1. order'[o] = order[o] /\ credited'[o] = credited[o] /\ (<<o, "paid">> \notin owed' => <<o, "paid">> \notin owed)
        BY <2>1, <2>3, <1>t
    <3> QED BY <2>1, <3>1, <1>s DEF CreditsFit
  <2> QED BY <2>2, <2>3
<1>5. ASSUME NEW h \in Handler, FailOrder(h) PROVE CreditsFit(o)'
  <2> DEFINE p == cb[h].order
  <2>1. /\ p \in Order /\ UNCHANGED <<bank, credited, refused>> /\ cb[h].says \in {"failed", "refuse"}
        /\ owed' = owed \/ owed' = owed \ {<<p, cb[h].says>>}
        /\ order' = [order EXCEPT ![p] = "failed"]
        /\ undone' = IF order[p] = "completed" THEN undone \cup {p} ELSE undone
      BY <1>5, <1>h, AnsweredOwed DEF FailOrder
  <2>2. <<o, "paid">> \notin owed' => <<o, "paid">> \notin owed
      BY <2>1
  <2>3. CASE o = p
      BY <2>1, <2>2, <2>3, <1>t, <1>s DEF CreditsFit
  <2>4. CASE o # p
      BY <2>1, <2>2, <2>4, <1>t, <1>s DEF CreditsFit
  <2> QED BY <2>3, <2>4
<1>6. ASSUME UNCHANGED <<order, bank, owed, credited, undone, refused>> PROVE CreditsFit(o)'
    BY <1>6, <1>s DEF CreditsFit
<1>7. ASSUME \/ \E h \in Handler : HandlerKilled(h) \/ \E p \in Order : ByHand(h, p)
             \/ \E j \in Job : Scan(j) \/ TakeFee(j) \/ SkipFee(j) \/ Stamp(j) \/ JobKilled(j)
             \/ SettingsRead \/ SettingsSave \/ Day
             \/ UNCHANGED moneyVars
      PROVE  UNCHANGED <<order, bank, owed, credited, undone, refused>>
    BY <1>7 DEF HandlerKilled, ByHand, Scan, TakeFee, SkipFee, Stamp, JobKilled, SettingsRead, SettingsSave, Day,
       orderVars, moneyVars
<1> QED BY <1>1, <1>2, <1>3, <1>r, <1>4, <1>5, <1>6, <1>7 DEF MoneyNext

(* A run charges and stamps alone, unless another overlapped it. *)
LEMMA CyclesStep ==
    ASSUME Types, ~loose => Cycles /\ Stamped, [MoneyNext]_moneyVars, ~loose'
    PROVE  Cycles' /\ Stamped'
<1>t. /\ job \in [Job -> [pc : {"idle", "charge", "stamp"}, day : 0 .. LastDay]]
      /\ acct \in Account
    BY DEF Types, MoneyTypeOK
<1>1. ASSUME UNCHANGED <<job, fees, loose>>, acct'.stamp = acct.stamp PROVE Cycles' /\ Stamped'
    BY <1>1 DEF Cycles, Stamped
<1>2. ASSUME NEW j \in Job, Scan(j) PROVE Cycles' /\ Stamped'
  <2>1. /\ Due(acct.stamp) /\ job' = [job EXCEPT ![j] = [pc |-> "charge", day |-> today]]
        /\ UNCHANGED <<acct, today, fees>> /\ ~loose /\ \A i \in Job : job[i].pc = "idle"
      BY <1>2 DEF Scan
  <2>2. /\ job'[j].pc = "charge" /\ job'[j].day = today
        /\ \A i \in Job : i # j => job'[i].pc = "idle"
      BY <2>1, <1>t
  <2>3. Cycles'
      BY <2>1, <2>2 DEF Cycles, Due
  <2>4. Stamped'
      BY <2>1, <2>2 DEF Stamped
  <2> QED BY <2>3, <2>4
<1>3. ASSUME NEW j \in Job, TakeFee(j) PROVE Cycles' /\ Stamped'
  <2>1. /\ job[j].pc = "charge" /\ acct' = [acct EXCEPT !.bal = @ - Fee] /\ ~loose
        /\ job' = [job EXCEPT ![j].pc = "stamp"] /\ fees' = [n |-> fees.n + 1, last |-> job[j].day]
      BY <1>3 DEF TakeFee
  <2>2. \A i \in Job : i # j => job[i].pc = "idle"
      BY <2>1 DEF Cycles
  <2>3. /\ job'[j].pc = "stamp" /\ job'[j].day = job[j].day
        /\ \A i \in Job : i # j => job'[i].pc = "idle"
      BY <2>1, <2>2, <1>t
  <2> QED BY <2>1, <2>3 DEF Cycles, Stamped
<1>4. ASSUME NEW j \in Job, SkipFee(j) PROVE Cycles' /\ Stamped'
  <2>1. /\ job[j].pc = "charge" /\ UNCHANGED <<acct, fees>> /\ ~loose /\ job' = [job EXCEPT ![j].pc = "idle"]
      BY <1>4 DEF SkipFee
  <2>2. /\ job'[j].pc = "idle" /\ \A i \in Job : i # j => job'[i] = job[i] /\ job[i].pc = "idle"
      BY <2>1, <1>t DEF Cycles
  <2>3. acct.stamp = fees.last
      BY <2>1, <2>2 DEF Stamped
  <2> QED BY <2>1, <2>2, <2>3 DEF Cycles, Stamped
<1>5. ASSUME NEW j \in Job, Stamp(j) PROVE Cycles' /\ Stamped'
  <2>1. /\ job[j].pc = "stamp" /\ UNCHANGED fees /\ ~loose /\ job' = [job EXCEPT ![j].pc = "idle"]
        /\ acct' = [acct EXCEPT !.stamp = job[j].day]
      BY <1>5 DEF Stamp
  <2>2. /\ job'[j].pc = "idle" /\ \A i \in Job : i # j => job'[i].pc = "idle"
      BY <2>1, <1>t DEF Cycles
  <2>3. acct'.stamp = fees.last
      BY <2>1, <1>t DEF Cycles, Account
  <2> QED BY <2>1, <2>2, <2>3 DEF Cycles, Stamped
<1>6. ASSUME NEW j \in Job, JobKilled(j) PROVE Cycles' /\ Stamped'
  <2>1. /\ job[j].pc = "charge" /\ UNCHANGED <<acct, fees>> /\ ~loose /\ job' = [job EXCEPT ![j].pc = "idle"]
      BY <1>6, <1>t DEF JobKilled
  <2>2. /\ job'[j].pc = "idle" /\ \A i \in Job : i # j => job'[i] = job[i] /\ job[i].pc = "idle"
      BY <2>1, <1>t DEF Cycles
  <2>3. acct.stamp = fees.last
      BY <2>1, <2>2 DEF Stamped
  <2> QED BY <2>1, <2>2, <2>3 DEF Cycles, Stamped
<1>7. ASSUME SettingsSave PROVE Cycles' /\ Stamped'
  <2>1. UNCHANGED <<job, fees>> /\ acct' = page.seen /\ ~loose /\ page.seen.stamp = acct.stamp
      BY <1>7 DEF SettingsSave
  <2> QED BY <2>1 DEF Cycles, Stamped
<1>8. ASSUME NEW h \in Handler, CreditOrder(h) PROVE UNCHANGED <<job, fees, loose>> /\ acct'.stamp = acct.stamp
  <2>1. UNCHANGED <<job, fees, loose>> /\ (acct' = acct \/ acct' = [acct EXCEPT !.bal = @ + OrderAmount])
      BY <1>8 DEF CreditOrder, jobVars
  <2> QED BY <2>1, <1>t DEF Account
<1>9. ASSUME \/ \E o \in Order : \/ TurnedDown(o) \/ Paid(o)
                                 \/ \E n \in Count : Checkout(o, n)
                                 \/ \E says \in Says : CallbackRefused(o, says)
                                 \/ \E h \in Handler : ByHand(h, o) \/ \E says \in Says : Callback(h, o, says)
             \/ \E h \in Handler : FailOrder(h) \/ HandlerKilled(h)
             \/ SettingsRead \/ Day
             \/ UNCHANGED moneyVars
      PROVE  UNCHANGED <<job, fees, loose>> /\ acct'.stamp = acct.stamp
    BY <1>9 DEF Checkout, TurnedDown, Paid, ByHand, CallbackRefused, Callback, FailOrder, HandlerKilled, SettingsRead, Day, moneyVars, jobVars
<1> QED BY <1>1, <1>2, <1>3, <1>4, <1>5, <1>6, <1>7, <1>8, <1>9 DEF MoneyNext

(* The invariant holds in every reachable state. *)
LEMMA MoneyInvHolds == MoneySpec => []MoneyInv
<1>1. MoneyInit => MoneyInv
  <2> SUFFICES ASSUME MoneyInit PROVE MoneyInv
      OBVIOUS
  <2>1. /\ OpeningBal \in Int /\ 0 \in 0 .. LastDay /\ 1 \in 1 .. LastDay /\ 0 \in Nat
      BY MoneyAssumption
  <2>2. Types
      BY <2>1 DEF MoneyInit, Types, MoneyTypeOK, Account, Handling, Page
  <2>3. ASSUME NEW o \in Order PROVE CreditsFit(o)
    <3>1. order[o] = "none" /\ bank[o] = "open" /\ credited[o] = 0
        BY DEF MoneyInit
    <3> QED BY <3>1 DEF CreditsFit
  <2>4. Cycles /\ Stamped
      BY DEF MoneyInit, Cycles, Stamped
  <2> QED BY <2>2, <2>3, <2>4 DEF MoneyInv
<1>2. MoneyInv /\ [MoneyNext]_moneyVars => MoneyInv'
    BY TypesStep, CreditsStep, CyclesStep DEF MoneyInv
<1> QED BY <1>1, <1>2, PTL DEF MoneySpec

(* Type correctness: whatever is credited, charged, stamped and saved      *)
(* back.                                                                   *)
THEOREM MoneyTypesHold == MoneySpec => []MoneyTypeOK
<1>1. MoneyInv => MoneyTypeOK
    BY DEF MoneyInv, Types
<1> QED BY <1>1, MoneyInvHolds, PTL

(* capitalist_webhook, confirm_crypto_payment: a payment whose callback is *)
(* answered has been credited unless the code refused that callback's form *)
(* or the order's number is shared, and no order twice unless a late       *)
(* failure was saved over its completion.                                  *)
THEOREM PaymentsCredited == MoneySpec => []CreditedExactlyOnce
<1>1. MoneyInv => CreditedExactlyOnce
    BY DEF MoneyInv, CreditsFit, CreditedExactlyOnce
<1> QED BY <1>1, MoneyInvHolds, PTL

(* charge_portal_fees: two fees are a cycle apart unless two runs          *)
(* overlapped, a run died before its stamp, or the settings page wrote the *)
(* old stamp back.                                                         *)
THEOREM FeesAreCyclesApart == MoneySpec => FeeOncePerCycle
<1>1. MoneyInv /\ [MoneyNext]_moneyVars
         => [fees'.n # fees.n => fees.last = 0 \/ fees'.last - fees.last >= Cycle \/ loose]_moneyVars
  <2> SUFFICES ASSUME MoneyInv, MoneyNext, fees'.n # fees.n, ~loose, fees.last # 0
               PROVE  fees'.last - fees.last >= Cycle
      BY DEF moneyVars
  <2>1. PICK j \in Job : TakeFee(j)
      BY DEF MoneyNext, Checkout, TurnedDown, Paid, ByHand, CallbackRefused, Callback, CreditOrder, FailOrder, HandlerKilled, Scan, SkipFee,
         Stamp, JobKilled, SettingsRead, SettingsSave, Day, jobVars
  <2>2. job[j].pc = "charge" /\ fees'.last = job[j].day
      BY <2>1 DEF TakeFee
  <2>3. Cycles /\ Stamped
      BY DEF MoneyInv
  <2>4. \A i \in Job : i # j => job[i].pc = "idle"
      BY <2>2, <2>3 DEF Cycles
  <2>5. acct.stamp = fees.last
      BY <2>2, <2>3, <2>4 DEF Stamped
  <2>6. fees.last + Cycle <= job[j].day
      BY <2>2, <2>3, <2>5 DEF Cycles
  <2>7. fees.last \in Nat /\ Cycle \in Nat /\ job[j].day \in Nat
      BY MoneyAssumption DEF MoneyInv, Types, MoneyTypeOK
  <2> QED BY <2>2, <2>6, <2>7
<1> QED BY <1>1, MoneyInvHolds, PTL DEF MoneySpec, FeeOncePerCycle
=============================================================================
