----------------------------- MODULE AccountMoney -----------------------------
(***************************************************************************)
(* Money that reaches an account by card or crypto checkout, the monthly   *)
(* portal fee, and the account's settings page (billing/api.py,            *)
(* billing/services.py, tasks.charge_portal_fees, confirm_crypto_payment). *)
(*                                                                         *)
(* Ledger has the single bookings at their locks.  Here are the protocols  *)
(* around them: callbacks that come twice, late, out of order or in a form *)
(* the code refuses, order numbers that two checkouts share, the operator  *)
(* who confirms a payment by hand, the daily task that charges and then    *)
(* stamps, and the page that saves the whole account as read.  What calls  *)
(* cost the account in the meantime is in Ledger only.                     *)
(***************************************************************************)
EXTENDS Integers

CONSTANTS
    Order,       \* Capitalist checkouts of the account
    Count,       \* what a checkout may count of the transactions of its day
    Handler,     \* callback requests and confirm commands in work at once
    Job,         \* runs of charge_portal_fees that may overlap
    OrderAmount, \* what an order is about
    Fee,         \* monthly_portal_fee
    CreditLimit, \* credit_limit
    OpeningBal,  \* the balance at the start
    Cycle,       \* the fee's 30 days
    LastDay,     \* bound: days
    MaxAgain,    \* bound: answers to a callback that are lost
    MaxKilled,   \* bound: workers killed
    MaxByHand,   \* bound: confirm_crypto_payment commands
    MaxSaves     \* bound: saves of the settings page

ASSUME MoneyAssumption ==
    /\ {OrderAmount, Fee, Cycle, LastDay} \subseteq Nat \ {0}
    /\ CreditLimit \in Nat /\ OpeningBal \in Nat
ASSUME BoundsAssumption == {MaxAgain, MaxKilled, MaxByHand, MaxSaves} \subseteq Nat

VARIABLES
    acct,      \* BillingAccount: the balance, the day of the last portal fee (0: none)
    order,     \* the orders' Transaction rows
    number,    \* their order numbers, capitalist_payment_id: the day and a count
    bank,      \* what happened on the provider's page
    owed,      \* callbacks the provider has no answer to
    cb,        \* the requests and commands in work
    job,       \* the runs of the daily task
    page,      \* the settings request: what it has read
    today,
    again, killed, byHand, saves,
    credited,  \* history: how often an order was credited
    undone,    \* history: orders marked failed after they were completed
    refused,   \* history: orders whose payment was answered in a form the code refuses
    fees,      \* history: portal fees taken, and the day of the last run that took one
    loose      \* history: a stamp was lost, or two runs overlapped

jobVars == <<job, fees, loose>>
orderVars == <<order, number, bank, owed, cb, credited, undone, refused, again, byHand>>
moneyVars == <<acct, page, today, killed, saves, orderVars, jobVars>>

Says == {"paid", "failed", "confirm", "refuse"}
Account == [bal : Int, stamp : 0 .. LastDay]

MoneyInit ==
    /\ acct = [bal |-> OpeningBal, stamp |-> 0]
    /\ order = [o \in Order |-> "none"]
    /\ number = [o \in Order |-> <<0, 0>>]
    /\ bank = [o \in Order |-> "open"]
    /\ owed = {}
    /\ cb = [h \in Handler |-> [pc |-> "idle"]]
    /\ job = [j \in Job |-> [pc |-> "idle", day |-> 0]]
    /\ page = [pc |-> "idle"]
    /\ today = 1
    /\ again = 0 /\ killed = 0 /\ byHand = 0 /\ saves = 0
    /\ credited = [o \in Order |-> 0]
    /\ undone = {} /\ refused = {}
    /\ fees = [n |-> 0, last |-> 0]
    /\ loose = FALSE

-----------------------------------------------------------------------------
(* capitalist_deposit: the pending row, whose order number the provider    *)
(* sends back.  The number is the day and a count of the workspace's       *)
(* transactions of the day, taken without a lock, and it is looked up      *)
(* among the orders of all workspaces: two checkouts in flight at once, or *)
(* of two workspaces, may get the same one.                                *)
Checkout(o, n) ==
    /\ order[o] = "none"
    /\ order' = [order EXCEPT ![o] = "pending"]
    /\ number' = [number EXCEPT ![o] = <<today, n>>]
    /\ UNCHANGED <<acct, page, today, killed, saves, bank, owed, cb, credited, undone,
                   refused, again, byHand, jobVars>>

Shared(o) == \E p \in Order \ {o} : order[p] # "none" /\ number[p] = number[o]

(* The provider's page: an attempt is turned down; the order is paid.      *)
TurnedDown(o) ==
    /\ order[o] # "none" /\ bank[o] = "open"
    /\ bank' = [bank EXCEPT ![o] = "failed"]
    /\ owed' = owed \cup {<<o, "failed">>}
    /\ UNCHANGED <<acct, page, today, killed, saves, order, number, cb, credited, undone,
                   refused, again, byHand, jobVars>>

Paid(o) ==
    /\ order[o] # "none" /\ bank[o] # "paid"
    /\ bank' = [bank EXCEPT ![o] = "paid"]
    /\ owed' = owed \cup {<<o, "paid">>}
    /\ UNCHANGED <<acct, page, today, killed, saves, order, number, cb, credited, undone,
                   refused, again, byHand, jobVars>>

-----------------------------------------------------------------------------
(* The provider stops at an answer it gets; one that is lost brings the    *)
(* callback again.                                                         *)
Answered(o, says) ==
    \/ owed' = owed \ {<<o, says>>} /\ UNCHANGED again
    \/ owed' = owed /\ <<o, says>> \in owed /\ again < MaxAgain /\ again' = again + 1

Payable(st) == st # "completed"

(* capitalist_webhook on a callback that does not parse or verify, names   *)
(* no order or has an unknown state: answered 200, so that it is not       *)
(* repeated, and nothing else.                                             *)
CallbackRefused(o, says) ==
    /\ <<o, says>> \in owed /\ Answered(o, says)
    /\ refused' = refused \cup {p \in {o} : says = "paid" /\ <<o, says>> \notin owed'}
    /\ UNCHANGED <<acct, page, today, killed, saves, order, number, bank, cb, credited, undone,
                   byHand, jobVars>>

(* capitalist_webhook, up to what it reads of the order: a number that     *)
(* several payments carry, or a payment already completed, is answered and *)
(* left.                                                                   *)
Callback(h, o, says) ==
    /\ cb[h].pc = "idle" /\ <<o, says>> \in owed
    /\ IF Shared(o) \/ (says = "paid" /\ ~Payable(order[o]))
       THEN Answered(o, says) /\ UNCHANGED cb
       ELSE /\ cb' = [cb EXCEPT ![h] = [pc |-> "read", order |-> o, says |-> says]]
            /\ UNCHANGED <<owed, again>>
    /\ UNCHANGED <<acct, page, today, killed, saves, order, number, bank, credited, undone,
                   refused, byHand, jobVars>>

(* confirm_crypto_payment, for a payment looked up at the provider: the    *)
(* one pending payment with the number.                                    *)
ByHand(h, o) ==
    /\ cb[h].pc = "idle" /\ byHand < MaxByHand /\ byHand' = byHand + 1
    /\ {p \in Order : order[p] = "pending" /\ number[p] = number[o]} = {o}
    /\ cb' = [cb EXCEPT ![h] = [pc |-> "read", order |-> o,
                                says |-> IF bank[o] = "paid" THEN "confirm" ELSE "refuse"]]
    /\ UNCHANGED <<acct, page, today, killed, saves, order, number, bank, owed, credited, undone,
                   refused, again, jobVars>>

(* Mutant: what was read before the lock decides. *)
CreditUnchecked(h) ==
    /\ cb[h].pc = "read" /\ cb[h].says \in {"paid", "confirm"}
    /\ LET o == cb[h].order IN
          /\ order' = [order EXCEPT ![o] = "completed"]
          /\ acct' = [acct EXCEPT !.bal = @ + OrderAmount]
          /\ credited' = [credited EXCEPT ![o] = @ + 1]
          /\ Answered(o, cb[h].says)
    /\ cb' = [cb EXCEPT ![h] = [pc |-> "idle"]]
    /\ UNCHANGED <<page, today, killed, saves, number, bank, undone, refused, byHand, jobVars>>

(* The credit, with the account and the order locked and read again.       *)
CreditOrder(h) ==
    /\ cb[h].pc = "read" /\ cb[h].says \in {"paid", "confirm"}
    /\ LET o == cb[h].order IN
          /\ IF Payable(order[o])
             THEN /\ order' = [order EXCEPT ![o] = "completed"]
                  /\ acct' = [acct EXCEPT !.bal = @ + OrderAmount]
                  /\ credited' = [credited EXCEPT ![o] = @ + 1]
             ELSE UNCHANGED <<order, acct, credited>>
          /\ Answered(o, cb[h].says)
    /\ cb' = [cb EXCEPT ![h] = [pc |-> "idle"]]
    /\ UNCHANGED <<page, today, killed, saves, number, bank, undone, refused, byHand, jobVars>>

(* The failure, saved whatever has become of the order.                    *)
FailOrder(h) ==
    /\ cb[h].pc = "read" /\ cb[h].says \in {"failed", "refuse"}
    /\ LET o == cb[h].order IN
          /\ order' = [order EXCEPT ![o] = "failed"]
          /\ undone' = IF order[o] = "completed" THEN undone \cup {o} ELSE undone
          /\ Answered(o, cb[h].says)
    /\ cb' = [cb EXCEPT ![h] = [pc |-> "idle"]]
    /\ UNCHANGED <<acct, page, today, killed, saves, number, bank, credited, refused, byHand, jobVars>>

HandlerKilled(h) ==
    /\ cb[h].pc = "read"
    /\ killed < MaxKilled /\ killed' = killed + 1
    /\ cb' = [cb EXCEPT ![h] = [pc |-> "idle"]]
    /\ UNCHANGED <<acct, page, today, saves, order, number, bank, owed, credited, undone,
                   refused, again, byHand, jobVars>>

-----------------------------------------------------------------------------
(* Mutant: due a day early. *)
DueEarly(stamp) == stamp = 0 \/ stamp + Cycle <= today + 1

Due(stamp) == stamp = 0 \/ stamp + Cycle <= today

Covers(bal) == bal + CreditLimit >= Fee

(* charge_portal_fees: the due account, the charge, and then the stamp.    *)
Scan(j) ==
    /\ job[j].pc = "idle" /\ job[j].day < today /\ Due(acct.stamp)
    /\ job' = [job EXCEPT ![j] = [pc |-> "charge", day |-> today]]
    /\ loose' = (loose \/ \E i \in Job : job[i].pc # "idle")
    /\ UNCHANGED <<acct, page, today, killed, saves, orderVars, fees>>

TakeFee(j) ==
    /\ job[j].pc = "charge" /\ Covers(acct.bal)
    /\ acct' = [acct EXCEPT !.bal = @ - Fee]
    /\ job' = [job EXCEPT ![j].pc = "stamp"]
    /\ fees' = [n |-> fees.n + 1, last |-> job[j].day]
    /\ UNCHANGED <<page, today, killed, saves, orderVars, loose>>

SkipFee(j) ==
    /\ job[j].pc = "charge" /\ ~Covers(acct.bal)
    /\ job' = [job EXCEPT ![j].pc = "idle"]
    /\ UNCHANGED <<acct, page, today, killed, saves, orderVars, fees, loose>>

(* Mutant: the day the next fee is due. *)
StampNextDue(j) ==
    /\ job[j].pc = "stamp"
    /\ acct' = [acct EXCEPT !.stamp = job[j].day + Cycle]
    /\ job' = [job EXCEPT ![j].pc = "idle"]
    /\ UNCHANGED <<page, today, killed, saves, orderVars, fees, loose>>

Stamp(j) ==
    /\ job[j].pc = "stamp"
    /\ acct' = [acct EXCEPT !.stamp = job[j].day]
    /\ job' = [job EXCEPT ![j].pc = "idle"]
    /\ UNCHANGED <<page, today, killed, saves, orderVars, fees, loose>>

JobKilled(j) ==
    /\ job[j].pc # "idle"
    /\ killed < MaxKilled /\ killed' = killed + 1
    /\ job' = [job EXCEPT ![j].pc = "idle"]
    /\ loose' = (loose \/ job[j].pc = "stamp")
    /\ UNCHANGED <<acct, page, today, saves, orderVars, fees>>

-----------------------------------------------------------------------------
(* BillingService.update: the account is read, and saved whole.            *)
SettingsRead ==
    /\ page.pc = "idle" /\ saves < MaxSaves /\ saves' = saves + 1
    /\ page' = [pc |-> "save", seen |-> acct]
    /\ UNCHANGED <<acct, today, killed, orderVars, jobVars>>

SettingsSave ==
    /\ page.pc = "save"
    /\ acct' = page.seen
    /\ page' = [pc |-> "idle"]
    /\ loose' = (loose \/ page.seen.stamp # acct.stamp)
    /\ UNCHANGED <<today, killed, saves, orderVars, job, fees>>

Day ==
    /\ today < LastDay /\ today' = today + 1
    /\ UNCHANGED <<acct, page, killed, saves, orderVars, jobVars>>

-----------------------------------------------------------------------------
MoneyNext ==
    \/ \E o \in Order :
          \/ TurnedDown(o) \/ Paid(o)
          \/ \E n \in Count : Checkout(o, n)
          \/ \E says \in Says : CallbackRefused(o, says)
          \/ \E h \in Handler : ByHand(h, o) \/ \E says \in Says : Callback(h, o, says)
    \/ \E h \in Handler : CreditOrder(h) \/ FailOrder(h) \/ HandlerKilled(h)
    \/ \E j \in Job : Scan(j) \/ TakeFee(j) \/ SkipFee(j) \/ Stamp(j) \/ JobKilled(j)
    \/ SettingsRead \/ SettingsSave \/ Day

MoneySpec == MoneyInit /\ [][MoneyNext]_moneyVars

MoneyTypeOK ==
    /\ acct \in Account
    /\ order \in [Order -> {"none", "pending", "completed", "failed"}]
    /\ number \in [Order -> (0 .. LastDay) \X (Count \cup {0})]
    /\ bank \in [Order -> {"open", "failed", "paid"}]
    /\ owed \subseteq Order \X {"paid", "failed"}
    /\ \A h \in Handler :
          cb[h].pc = "read" => cb[h].order \in Order /\ cb[h].says \in Says
    /\ job \in [Job -> [pc : {"idle", "charge", "stamp"}, day : 0 .. LastDay]]
    /\ page.pc = "save" => page.seen \in Account
    /\ today \in 1 .. LastDay
    /\ fees.n \in Nat /\ fees.last \in 0 .. LastDay
    /\ undone \subseteq Order /\ refused \subseteq Order /\ loose \in BOOLEAN

(* capitalist_webhook and confirm_crypto_payment, whatever callback comes  *)
(* twice, late or out of order and whichever worker is killed: a payment   *)
(* whose callback is answered has been credited, unless the code refused   *)
(* the form of that callback, or the order shares its number with another; *)
(* and no order is credited twice unless a late failure was saved over its *)
(* completion.                                                             *)
CreditedExactlyOnce ==
    \A o \in Order :
        /\ bank[o] = "paid" /\ <<o, "paid">> \notin owed
              => credited[o] > 0 \/ o \in refused \/ Shared(o)
        /\ credited[o] <= 1 \/ o \in undone

(* "each account charged on its own 30-day cycle" (config/settings.py):    *)
(* the fee is taken within the cycle of another only after two runs        *)
(* overlapped, a run died before its stamp, or the settings page wrote the *)
(* old stamp back.                                                         *)
FeeOncePerCycle ==
    [][fees'.n # fees.n => fees.last = 0 \/ fees'.last - fees.last >= Cycle \/ loose]_moneyVars
=============================================================================
