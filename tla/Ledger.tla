------------------------------- MODULE Ledger -------------------------------
(***************************************************************************)
(* One workspace's BillingAccount and its Transaction rows                 *)
(* (billing/services.py), as concurrent operations change them.            *)
(*                                                                         *)
(* Each operation but update runs in one PostgreSQL transaction at READ    *)
(* COMMITTED.  charge_call, charge_fee and add_funds read the account with *)
(* SELECT ... FOR UPDATE, which waits for the row and then sees the last   *)
(* committed balance; deposit and payout read it without a lock, and only  *)
(* their UPDATE, which writes the balance they computed, waits for the     *)
(* row.  So does update, the settings page: it saves every column of the   *)
(* account it read, the balance with them, and leaves no Transaction.      *)
(* What a locked operation writes is visible to the others at its commit.  *)
(***************************************************************************)
EXTENDS Integers, Sequences

CONSTANTS
    Op,         \* calls of BillingService: the code's retries are operations of their own
    Kind,       \* which method each is
    Sid,        \* the call_sid it charges for
    Amount,     \* the money it moves (the settings page moves none)
    Opening,    \* the balance at the start
    Credit,     \* credit_limit
    NoOp,       \* no operation holds the row
    MaxAborts   \* bound: transactions that roll back (a worker killed, a database error)

Charges == {"answered", "refused"}   \* charge_call with allow_negative, and without
Locked == Charges \cup {"fee", "topup"}
Unlocked == {"deposit", "payout", "settings"}
Credits == {"topup", "deposit"}

ASSUME KindAssumption == Kind \in [Op -> Locked \cup Unlocked]
ASSUME AmountAssumption == Amount \in [Op -> Nat \ {0}]
ASSUME AccountAssumption == Opening \in Int /\ Credit \in Nat
ASSUME NoOpAssumption == NoOp \notin Op
ASSUME AbortsAssumption == MaxAborts \in Nat

VARIABLES
    balance,   \* BillingAccount.balance
    log,       \* the writes of the account in the order of their commits: the completed
               \* Transaction rows and, as history, the saves of the settings page
    holder,    \* the operation whose transaction holds the account's row lock
    pc,        \* where each operation is
    seen,      \* the balance it has read
    aborts,    \* transactions rolled back so far
    knew,      \* history: what was committed when it looked for its sid
    worth,     \* history: the opening balance and every amount booked since
    slip       \* history: what unlocked writers put back on the account, or took off
               \* it, by writing over bookings they had not read

vars == <<balance, log, holder, pc, seen, aborts, knew, worth, slip>>

Position == {"new", "checked", "holding", "read", "done"}
Entry == [op : Op, before : Int, after : Int]

Init ==
    /\ balance = Opening
    /\ log = <<>>
    /\ holder = NoOp
    /\ pc = [o \in Op |-> "new"]
    /\ seen = [o \in Op |-> Opening]
    /\ aborts = 0
    /\ knew = [o \in Op |-> {}]
    /\ worth = Opening
    /\ slip = 0

-----------------------------------------------------------------------------
ChargesOf(s) == {i \in 1 .. Len(log) : Kind[log[i].op] \in Charges /\ Sid[log[i].op] = s}

(* Mutant: the retry guard looks at the amount too. *)
CheckByAmount(o) ==
    /\ pc[o] = "new" /\ Kind[o] \in Charges
    /\ knew' = [knew EXCEPT ![o] = {log[i].op : i \in 1 .. Len(log)}]
    /\ pc' = [pc EXCEPT ![o] =
          IF \E i \in ChargesOf(Sid[o]) : Amount[log[i].op] = Amount[o] THEN "done" ELSE "checked"]
    /\ UNCHANGED <<balance, log, holder, seen, aborts, worth, slip>>

(* charge_call looks for an earlier charge of the sid before it locks. *)
Check(o) ==
    /\ pc[o] = "new" /\ Kind[o] \in Charges
    /\ knew' = [knew EXCEPT ![o] = {log[i].op : i \in 1 .. Len(log)}]
    /\ pc' = [pc EXCEPT ![o] = IF ChargesOf(Sid[o]) # {} THEN "done" ELSE "checked"]
    /\ UNCHANGED <<balance, log, holder, seen, aborts, worth, slip>>

Ready(o) == pc[o] = IF Kind[o] \in Charges THEN "checked" ELSE "new"

(* Mutant: get() without select_for_update(). *)
LockDropped(o) ==
    /\ Kind[o] \in Locked /\ Ready(o)
    /\ holder' = o
    /\ seen' = [seen EXCEPT ![o] = balance]
    /\ pc' = [pc EXCEPT ![o] = "holding"]
    /\ UNCHANGED <<balance, log, aborts, knew, worth, slip>>

(* Mutant: the account read before the wait for its row is the one worked on. *)
LockNotReloaded(o) ==
    /\ Kind[o] \in Locked /\ Ready(o)
    /\ holder = NoOp
    /\ holder' = o
    /\ pc' = [pc EXCEPT ![o] = "holding"]
    /\ UNCHANGED <<balance, log, seen, aborts, knew, worth, slip>>

Lock(o) ==
    /\ Kind[o] \in Locked /\ Ready(o)
    /\ holder = NoOp
    /\ holder' = o
    /\ seen' = [seen EXCEPT ![o] = balance]
    /\ pc' = [pc EXCEPT ![o] = "holding"]
    /\ UNCHANGED <<balance, log, aborts, knew, worth, slip>>

(* What the account can be charged: a fee counts the credit limit, the fee *)
(* of a refused call does not, an answered call is charged whatever is left. *)
Short(o) == \/ Kind[o] = "refused" /\ seen[o] < Amount[o]
            \/ Kind[o] = "fee" /\ seen[o] + Credit < Amount[o]

Moves(o) == IF Kind[o] = "settings" THEN 0
            ELSE IF Kind[o] \in Credits THEN Amount[o] ELSE -Amount[o]

(* The UPDATE, the INSERT (which the settings page has none of) and the commit. *)
Book(o) ==
    LET after == seen[o] + Moves(o)
    IN /\ balance' = after
       /\ log' = Append(log, [op |-> o, before |-> seen[o], after |-> after])
       /\ worth' = worth + Moves(o)

Commit(o) ==
    /\ pc[o] = "holding" /\ ~Short(o)
    /\ Book(o)
    /\ holder' = NoOp
    /\ pc' = [pc EXCEPT ![o] = "done"]
    /\ UNCHANGED <<seen, aborts, knew, slip>>

(* Mutant: the refusal returns out of the transaction without ending it. *)
RefuseKeepsLock(o) ==
    /\ pc[o] = "holding" /\ Short(o)
    /\ pc' = [pc EXCEPT ![o] = "done"]
    /\ UNCHANGED <<balance, log, holder, seen, aborts, knew, worth, slip>>

Refuse(o) ==
    /\ pc[o] = "holding" /\ Short(o)
    /\ holder' = NoOp
    /\ pc' = [pc EXCEPT ![o] = "done"]
    /\ UNCHANGED <<balance, log, seen, aborts, knew, worth, slip>>

-----------------------------------------------------------------------------
Read(o) ==
    /\ pc[o] = "new" /\ Kind[o] \in Unlocked
    /\ seen' = [seen EXCEPT ![o] = balance]
    /\ pc' = [pc EXCEPT ![o] = "read"]
    /\ UNCHANGED <<balance, log, holder, aborts, knew, worth, slip>>

Write(o) ==
    /\ pc[o] = "read"
    /\ holder = NoOp
    /\ Book(o)
    /\ slip' = slip + (seen[o] - balance)
    /\ pc' = [pc EXCEPT ![o] = "done"]
    /\ UNCHANGED <<holder, seen, aborts, knew>>

(* The transaction rolls back; its caller (a repeated hang-up report, the  *)
(* next daily run) calls the method again.                                 *)
Abort(o) ==
    /\ pc[o] \notin {"new", "done"}
    /\ aborts < MaxAborts
    /\ aborts' = aborts + 1
    /\ pc' = [pc EXCEPT ![o] = "new"]
    /\ holder' = IF holder = o THEN NoOp ELSE holder
    /\ UNCHANGED <<balance, log, seen, knew, worth, slip>>

-----------------------------------------------------------------------------
Step(o) == Check(o) \/ Lock(o) \/ Commit(o) \/ Refuse(o) \/ Read(o) \/ Write(o)

Next == \E o \in Op : Step(o) \/ Abort(o)

Spec == Init /\ [][Next]_vars

-----------------------------------------------------------------------------
(* Properties.                                                             *)

(* Every variable stays in its type, and only a transaction that is open   *)
(* holds the row: every way out of a method ends its transaction.          *)
TypeOK ==
    /\ balance \in Int
    /\ log \in Seq(Entry)
    /\ holder \in {NoOp} \cup {o \in Op : pc[o] = "holding"}
    /\ pc \in [Op -> Position]
    /\ seen \in [Op -> Int]
    /\ aborts \in 0 .. MaxAborts
    /\ knew \in [Op -> SUBSET Op]
    /\ worth \in Int /\ slip \in Int

BalanceBefore(i) == IF i = 1 THEN Opening ELSE log[i - 1].after

(* The account shows what the last write left, and a method that locks the *)
(* account never writes over another's money: it starts from what the      *)
(* write before it left, be that a deposit, a payout or a save of the      *)
(* settings page, stale as those may be.  (deposit, payout and update      *)
(* promise no such thing.)                                                 *)
LockedReadsLatest ==
    /\ balance = BalanceBefore(Len(log) + 1)
    /\ \A i \in 1 .. Len(log) : Kind[log[i].op] \in Locked => log[i].before = BalanceBefore(i)

(* charge_fee and the fee of a refused call are covered by the money that  *)
(* all the bookings together leave, not only by the balance they read:     *)
(* whatever else is charged at the same moment, one takes the account no   *)
(* further down than it may, but for what an unlocked deposit, payout or   *)
(* settings save had put back of bookings it wrote over.                   *)
FeesCovered ==
    [][log' # log => LET o == log'[Len(log')].op
                     IN /\ Kind[o] = "fee" => worth' + slip' >= -Credit
                        /\ Kind[o] = "refused" => worth' + slip' >= 0]_vars

(* The retry guard of charge_call: two charges of one call can only come   *)
(* from requests that overlapped; a report repeated after the charge was   *)
(* committed, by whatever handler, is never charged again.                 *)
RepeatIsFree ==
    \A i, j \in 1 .. Len(log) :
        i < j /\ Kind[log[j].op] \in Charges /\ i \in ChargesOf(Sid[log[j].op])
            => log[i].op \notin knew[log[j].op]

(* charge_call: "Without this guard a retry would charge the same call     *)
(* twice."  The guard reads before the lock is taken.                      *)
OneChargePerCall ==
    \A i, j \in 1 .. Len(log) : Kind[log[j].op] \in Charges /\ i \in ChargesOf(Sid[log[j].op]) => i = j
=============================================================================
