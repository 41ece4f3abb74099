# Formal models of the Avortyx call platform

TLA+ modules, TLC configurations and TLAPS proofs about the part of the platform that carries calls and
money: the life of a call between the switch (Server A, Asterisk) and the platform (Server B, Django), the
concurrency limits of routing and its choice of a line, the billing ledger and the payments into it, the routing
Server A does alone while Server B is away, a sender's repeats and their copies in Reports, the website number
pools, the lifecycle of tracking numbers, and webhook deliveries.

Paths below are relative to the repository root. `H` stands for `routing/asterisk_handler.py`.

## 1. The system

| part | state | operations | properties that make it correct |
|---|---|---|---|
| Call handlers on B (`H`, `routing/held_answer.py`, `late_answer.py`, `failover.py`) | the `CallLog` row, hidden `#try` rows, cache keys `held_answer:<id>` and `asterisk_sync_miss:<id>` | route, route-next, call-ended, held-answer, active-channels | an answered call is completed and its minutes are charged, no other call's are; a line never rings twice for a call; no row stays live |
| Switch on A (`docs/asterisk`, `docs/kamailio`, `scripts/fallback/route_call.py`) | the channel, the report spool, the held CANCEL | dialplan, AGI, `call_ended.sh` and its replay, relay | a report is repeated until B has taken it |
| Sweeps (`H` active_channels, `tasks.py` close_stale_calls) | strike counters, seen-live marks | close rows with no channel | a finished call keeps its outcome |
| Routing engine (`routing/engine.py`) | rules, lines, caps; counts of live rows; the route lock in Redis | route_call and its checks | concurrency limits are exact; "overflow" only when the campaign is full |
| Ledger (`billing/services.py`) | `BillingAccount.balance`, `Transaction` rows | charge_call, charge_fee, add_funds, deposit, payout, update | one charge per call, no lost update, no overdraft by a fee |
| Fallback (`scripts/fallback`, `routing/fallback.py`) | journal, markers, plan on A; rows on B | decide, push, record_call, release | a call is counted once and billed; its report does not overtake it |
| Choice of a line (`routing/engine.py`, `scripts/fallback/avx_fallback.py`) | rules, the caller's earlier calls, rotation counters in the cache | route_call, pick_live_destination, decide | Different never rings a number twice, Original goes back to the line that answered, no call is refused while a line is free |
| Reports mirror and retry grouping (`routing/signals.py`, `routing/retry_group.py`) | `CallRecord`; root and hidden rows | copy on save, find, link, fold | the copy shows the last row; a call is in the log, and once |
| Number pools (`dni`) | visits (`DNISession`), numbers (`DNINumber`) | give, ping, sweep, mark called, flood, pull, restore | a number serves one visitor at a time; a call is tied to the visit it came from |
| Tracking numbers (`phone_numbers`) | `PhoneNumber`: account, pool, status, quarantine | edit, release, retire, nightly sweep, move | no new account before the quarantine is over |
| Payments and portal fee (`billing/api.py`, `tasks.py`) | `Transaction` of a checkout, the account's balance and stamp | checkout, callback, confirm by hand, daily charge, settings | a payment is credited once; a fee is taken once per cycle |
| Webhooks (`webhooks`) | `WebhookDelivery` | enqueue, send, retry | a delivery is settled; what was taken is not sent again |
| RTB, auto-recharge, invoices, digests | their tables and markers | periodic and HTTP jobs | done once per period |
| Accounts, campaigns, buyers, publishers, analytics, notifications, support, ... | their tables | CRUD and queries | - |

**How they interact.** A call makes A ask B (`route`), which creates the row, takes the route lock, decides and
saves the row as sent. A dials; a miss makes it ask B again (`route-next`). When the channel ends,
`call_ended.sh` posts a report, and spools and repeats it until it gets a final answer. Independently the SIP
relay reports an answer that crossed a CANCEL, and two sweeps close rows whose channel is gone. Settling a
finished call charges the ledger. If B does not answer `route`, A decides from its copy of the plan, writes a
marker (which holds the report back) and a journal row, and a service hands the journal to B afterwards. Every save of a
finished row is copied into Reports by a signal; an answered call queues the task that may retire its tracking
number, and marks the website visit it came from. Celery's beat runs the sweeps, retries and daily jobs.

**What is hard.** B's database is in autocommit, and four and more worker processes serve it
(`docker-compose.yml:47-90`); no handler locks the call's row, so any two handlers interleave between a read
and the save that follows it, and some saves write every column. B restarts (`restart: unless-stopped`), A
stops waiting (10 s for a report or a next buyer) while B goes on, reports are repeated, a transfer loses the
report's id. The route lock is a cache key with a time to live and no owner. The hazards, each at its line,
are in `PROJECT.json`.

## 2. The modules

### CallLifecycle

One call row from the route request until it is finished and paid. `row` is the `CallLog` row (status,
block_reason, whether ended_at is set, destination_number), `tries` the hidden `#try` rows, `held` and `misses`
the cache keys, `paid` what the CHARGE transaction of its sid took: the minutes of an answered call, only the VoIP
Shield fee of one that was taken for missed, or nothing; `forgiven` marks a charge of minutes that was tried and came to
nothing (an exception, which `settle_call_money` swallows before the report is answered 200, no account, an amount
of 0). Each handler of B is a small job (`route`, `next`,
`ends`, `relay`, `sweep`) with a position between its database statements and the values it carries from one to
the next (and drops once they are used; a report takes the first free place of `ends`): `EndMatched` makes up the whole row that `EndSave` will write, as `call_log.save()` writes every
column it had read, whereas `SendTo` and `SweepSave` write only the columns the code names. The switch is `sw`
(the dialplan of `from-carrier-failover.conf`) and `rep` (the report and its spool). `truth`, `rang` and `blind`
are history variables: how the last dial really ended, which lines rang out, what a report without an id did.

`Charged` is the charge: it returns a CHARGE that the sid has already, whatever that was for, and else books minutes
or a fee. It is one step here; how two charges overlap is Ledger's.

Every handler is a chain of actions: `RouteCreate`, `RouteDecide`/`RouteRefuse`; `NextRead`, `NextRefuse` or
`NextRecord` and `NextSave`; `EndRead`, `EndSave`, `EndCharge`, `EndAck`; `HeldRead`, `HeldRemember` or `HeldMark`
and `HeldCharge`; `SyncSeen`, `SyncMissing`, `StaleRead`, `SweepSave`. `Crash` is a restart of B: the jobs are
gone, the database and Redis stay. `NotListed` is a channel list without the call: the call is over, or the list is
odd (a channel in replacement, a failed CLI command), which the strikes are for.

Abstracted: time (a row may be old enough for a sweep, an entry of the cache may expire, and a request may time
out, at any moment); numbers, rates and conversion; recordings; the 24-hour age limit of a spooled report and
its `dead` folder; the seen-live grace of the stale sweep; the sync's guard for a channel list that overlaps
no stored id (a list of another switch). `held_answer.take` is a get and a delete and is one step here.

### Ledger

One `BillingAccount` and its `Transaction` rows under concurrent operations. `charge_call`, `charge_fee` and
`add_funds` take the row with SELECT ... FOR UPDATE (`Lock`, then `Commit` or `Refuse`); `deposit`, `payout` and
`update` (the settings page, which saves every column it read, the balance with them, and leaves no Transaction) read it
without (`Read`, `Write`). `Check` is the retry guard of `charge_call`, which looks before it locks. `Abort` is a
rollback, after which the caller may call again. `log` is the list of writes; `worth` and `slip` are history: the
opening balance with every amount booked since, and what unlocked writers put back or took off by writing over
bookings they had not read. The balance is always their sum. Amounts, kinds and sids are constants; pricing is not modelled.

### RouteLimits

The limits of campaign, buyer and line, and the route lock. `key` is the set of requests that believe that they
hold the lock, `owner` the one whose key is in the cache: the code keeps them apart, since `cache.delete` asks
nobody. `Counted` says which rows each check counts: the campaign's includes rows that still ring, the buyer's and
the line's need a destination and include the call's own row when it asks for its next buyer. `Pool` are the lines
of Round Robin and Weighted rules, which are taken unasked (`evaluate_rule` 834-838). `loose` is a history variable:
the live calls saved by a request that no longer owned the lock.

Abstracted: which line among those with room (priorities, weights, schedules, duplicates, cooldown), volume caps
(they count dispatched rows of a period), the limit on tries, checks that let a call pass when they raise an
exception, the RTB winner, whose line is not checked either (`engine.py` 1004-1026), the four-hour window of the counts.

### FallbackSync

A's own routing and the hand-over. `sw`, `marked`, `jour`, `synced`, `rep` are A's side; `rows[c]` holds up to two
rows of a call, the one with A's id and the one B's own handler made; `route` is B's handler, which may still be
at work when A has gone on; `rec` is B's `record_call` per posted call, at its two statements (the check with
`_set_aside_phantom`, and the insert with its unique sid); `sync` is the service. `PushTimeout` loses an answer while
B goes on with the post. What B's `call_ended` does in detail is in CallLifecycle; here it is `Settle`, and `billed`
are the calls it settled as answered, whatever then became of the charge.

Abstracted: each call has its own caller; the plan and A's copy of the caps are a free choice of a line; the
repetition of a report once B takes it is left to CallLifecycle. A killed AGI between the marker and the journal
row leaves a marker too (`Ends` from "marked"); nothing was dialled then.

### Settlement

What the platform promises about a call's money: a call is open, over or closed; its minutes may or must be charged
or not (`owed`); what was booked for it is nothing, a fee or its minutes, or the charge was tried in vain and
`forgiven`. `Claim` and `HangUp` say that an answer makes minutes owed, `Doubt` that a report without an id may be
taken for this call's and put it in doubt; `Bill`, `Forgive` and `Fee` are what a settlement comes to. Minutes that are not
owed are never charged or forgiven, a fee never takes the place of minutes that must be paid, no booking is taken
back, and the switch (`Close`) forgets a call that must be paid only when its minutes are charged or forgiven.
`CallLifecycle!Settled` instantiates it: `phase` is the report's state at the switch, `owed` how the last dial ended
and what the report says of it, `billed` is `paid`. The property
`ImplementsSettlement` is the refinement: every step of every handler, restart and timeout is a step of
Settlement or leaves its variables alone.

The lines of CallLifecycle are buyers' own listed numbers, which are dialled as they are (`_buyer_tfn`). A rule
line that names its buyer, whose number the rotation chooses, is LineChoice's.

### LineChoice

The calls of one caller to one campaign. `plan` is the campaign (each buyer's numbers, the rules with their lines),
`mode` the duplicate setting, `row` and `jour` what B and A remember of the calls, `turnB`, `rrB`, `turnA`, `rrA` the
rotation counters of each side. `Held` turns the memory into what the engine passes on (`dup_only_destination`,
`dup_exclude_*`, `tried_destinations`), `Allowed` and `Ready` are `_destination_refusal`, `OfRule` the three pickers,
`Routes` the fallback of Original, `PickLive` the rotation over a buyer's numbers, `Dialled` the last word of
`_send_to_destination`. Lists keep their order: a filter of a list is the set of the places that pass it, `Nth` is the
one with so many others before it and `First` the first. `state` is what a line can do now, `sent` (history) each number a
call was sent to and whose it was. A decision is one step, since both servers decide under a lock (RouteLimits). The
same operators serve A, with A's memory: `avx_fallback.py` follows the engine function by function.

Abstracted: a line's state (off, cap full, concurrency full) changes freely; conditions of rules, cooldown of a
line, buyers that block a caller, RTB, `duplicate_call_block`; A and B see the same plan.

### RepeatReports

The tries of one call and their copies in Reports. No statement runs in a transaction with another, so a handler's
`job` is the statement it is at, with what it read: `link` is `root`, `hide`, `drop`; `mirror_call_log` is
`read`, `write`, `check` and perhaps `clear`; `Following` is the order they come in. Route requests find and link
tries or fold refusals; hang-up reports, held answers and sweeps save rows, whole or by columns, and mirror them; a mirror that raises is queued for Celery.
`late`, `cut` and `twice` are history: copies written from an older row, tries whose handler was cut short, and tries
that two handlers at once brought to be shown.

Abstracted: the gap and the lengths `is_retry` measures (every try that ended unanswered may or may not be
continued), the columns of a copy other than its outcome and its root, the reporting window.

### NumberPool

`num` and `visit` are the `DNINumber` and `DNISession` rows. `give_number` is a transaction (its own visit is
locked; the resting numbers are read before the locked query, `GiveLook` and `GiveTake`); `keep`, the sweep,
`mark_called` and the pool page read first and write single columns later. Time is three facts of a visit:
its expiry has passed, its cool-down has passed, and the order of ids. `stray` and `orphan` are history: numbers
set Available while a visit held them, numbers whose release was lost with a worker.

Abstracted: limits per address and the blocking of callers (a call that is refused does nothing here), several
pools, the older `assign_number` endpoint, the grace time beyond the expiry.

### TrackingNumbers

One `PhoneNumber` row. A user's request reads it, edits it and saves every column (`UserRead`, `UserSave`); the task
after an answered call and the nightly sweep save the columns they name, from a row read earlier. All writes go
through `Write`, which is `before_save` and the database trigger: a write they refuse changes nothing. `Move` is an
operator's move to another account, the one thing quarantine is about.

Abstracted: a carrier's terms are chosen at the start; fees, prices and notices; several numbers.

### AccountMoney

One account. `order` are its Capitalist checkouts, `bank` what really happened on the provider's page, `owed` the
callbacks that have no answer yet, `number` the order number (the day and a count, which two orders may share:
`Shared`, and then their callbacks are answered and left), `cb` requests and operator's commands between their read and their transaction.
`job` is `charge_portal_fees` between its scan, its charge and its stamp; `page` is the settings request, which saves
the whole account as it read it. `CallbackRefused` is a callback whose body, signature, reference or state the code does
not accept: it is answered 200 and does nothing. `undone`, `refused` and `loose` are history: an order failed after it was
completed; a payment answered in a refused form; a stamp lost, written back, or two runs at once. What calls cost
the same account meanwhile, below its credit limit if need be, is in Ledger only.

### Webhooks

A delivery's row, the task that sends it first, and the runs of the five-minute task, each with the rows it read at
its start. A post and the save that follows it are one step (`Send`), except when a worker is killed in between.

### MC modules

`MCCallLifecycle`, `MCLedger`, `MCRouteLimits`, `MCFallbackSync`, `MCNumberPool`, `MCRepeatReports`, `MCWebhooks`,
`MCTrackingNumbers`, `MCLineChoice` and `MCAccountMoney` give the constants finite values; the `.cfg` files pick
the switches and bounds. `MCLineChoice` holds three campaigns: priorities over own numbers, a line that names its
buyer, and two pools, one with a number that is on no page.

## 3. What is checked

All runs use TLC. Deadlock is not checked because every instance ends: its calls are over and nothing is left to do.

| run | instance | shows |
|---|---|---|
| `mc_call_lifecycle` | 1 call, 2 lines, 2 copies of a report, failover and relay on, 1 restart, 1 report timeout, 1 odd channel list, at most two of these together; 390,161 states | `OddListSpares`, `AnsweredIsPaid`, `PaidWasAnswered`, `AnsweredIsShown`, `NoLineTwice`, `RowsFinish`, `ReportsArrive`, `ImplementsSettlement` |
| `mc_ledger` | 6 operations, 1 rollback; 1,877,282 states | `LockedReadsLatest`, `FeesCovered`, `RepeatIsFree` |
| `mc_route_limits` | 3 calls, 2 lines, 3 limits, 1 fault, calls symmetric; 783,526 states | `LimitsExact`, `HoldersBounded` |
| `mc_fallback_sync` | 1 call, 2 lines, 2 posts, 1 lost answer, 1 restart; 129,390 states | `ReportNotEarly`, `CountedOnce`, `AnsweredIsBilled` |
| `mc_line_choice` | 2 calls, 3 campaigns, 4 duplicate settings, 4 numbers of 2 buyers, 1 change of a line, 1 outage, 3 lines a call; 3,560,980 states | `NeverSameTfn`, `OriginalKept`, `RefusedOnlyWhenNoneLeft` |
| `mc_repeat_reports` | 3 tries, 2 requests or tasks at once, 1 odd event; 511,051 states | `ReportsCurrent`, `CallStaysShown`, `ShownTwiceOnlyByOverlap` |
| `mc_number_pool` | 2 visitors, 1 number, 2 visits, 2 sweeps at once, 2 events (call, ping, operator or flood, kill); 689,452 states | `SharedOnlyIfStray`, `RightVisit`, `NumbersComeBack` |
| `mc_tracking_numbers` | 1 number, 2 customers, 2 edits, 1 kill, 4 days, quarantine 2; 504,577 states | `FullQuarantine` |
| `mc_account_money` | 2 orders, 2 order numbers, 2 requests, 2 days, 1 each of lost answer, kill, command; or 1 order, 1 request, 2 runs of the fee task, 3 days, cycle 2, 1 kill, 1 settings save; 1,344,915 states | `CreditedExactlyOnce`, `FeeOncePerCycle` |
| `mc_webhooks` | 2 deliveries, 2 overlapping runs, 3 tries, 1 loss; 36,088 states | `TakenStays`, `RetryingSettles` |

Each run also checks its module's type invariant, `TypeOK` (`MoneyTypeOK`, `ChoiceTypeOK`).

**Bounds.** A report's life needs two copies to overlap (`Attempt` = 2), one restart to fall between the save and
the charge, and one timeout to have a second copy at all; the sync closes a row after two lists without the
call, so one odd list is the most it must bear (`MaxOdd` < `Strikes`), and `MaxFaults` lets any two of these faults meet; two lines give one failover and leave room for a
wrong repetition. Three calls are the fewest with which a limit of two can be exceeded by a third while a
fourth party, the fault, removes the lock; the line's limit of one and the buyer's of two differ. Six
operations cover two copies of one charge, a second charge on the same balance, a fee that counts the credit
limit, an unlocked booking and a whole-account save. Two orders are the fewest that can share a
number; `Scope` in MCAccountMoney keeps them apart from the fee and the page, with which they share nothing but the
balance, of which no property of AccountMoney speaks. Two posts let B work on a post whose answer was lost while the next one arrives.
Calls are independent in CallLifecycle but for reports without an id; two calls there, and in FallbackSync, are
beyond the time of a run, and what holds only with one call is said with the property.

Two calls are enough for every pair a duplicate rule compares, and three lines a call for a failover after a failover.
Three tries let two redials race for one. One number is the scarcest pool: every race is about one number, and the
order in which a pool of several is handed out is left to the guard `InTurn`. Four days hold a release, a
quarantine of two days and the move after it; a stamp and the next due fee need three days with a cycle of two.

**Fairness.** Weak fairness of every handler (the workers keep serving what they have accepted, unless a restart
takes it, and restarts are bounded), of the replay cron and the channel sync (both run every minute), of the sync
service's loop, and of a call's end (`max_duration`). Nothing is assumed of the stale sweep, of a caller or a buyer,
or, in FallbackSync, of B's route handler for a call A has given up on. In the pools the
beat runs the sweep, the worker finishes its marks, and a visit nobody extends runs out. A webhook's task runs once it is queued, the
beat starts the five-minute task again and again, and its time comes. Ledger, LineChoice, RepeatReports, TrackingNumbers
and AccountMoney have no liveness property and no fairness.

**Limits of the properties.** `AnsweredIsPaid` speaks of reports that carry the call's id: if B restarts between the
save and the charge of a report without one, the row is no longer live, the repeated report matches nothing and
the call is never charged. It counts a charge that was tried and swallowed as done (`forgiven`), as the code does,
and allows the fee on a call that such a report was matched to, which may have been taken for missed first.
`PaidWasAnswered` is about minutes: a missed call that was checked pays the VoIP Shield fee, as `call_cost` says.
`FeesCovered` allows for the money an unlocked writer had put back, since a fee cannot know that the balance it finds
is wrong. `OddListSpares` has fewer odd lists than strikes, so it never needs strikes to be counted in a row.
`NumbersComeBack` does not consider a kill inside an operator's pull. `AnsweredIsBilled` needs the id as well, and excepts a marker left by a restart and a call
whose campaign is gone. `LimitsExact` speaks of limits whose lines are all asked about, and of calls saved under the
lock: the code lets a call through without the lock when it has waited three seconds. `AnsweredIsShown` allows the
mark of a sweep, because a sweep can overwrite a finished row (below). `SharedOnlyIfStray` and `RightVisit` except numbers
that an unlocked writer set Available while a visit held them: the sweep, `mark_called` and a restore by hand do
so. `NeverSameTfn` asks of each router only what it can know: Server A's journal notes the first line of a call, not the
lines failover or the rotation gave it later at B. `FullQuarantine`, `FeeOncePerCycle` and `CreditedExactlyOnce` name in their
formulas what the code does not close: a stale whole-row save; a lost stamp or overlapping runs; a failure saved over a
completion, a callback in a form the code refuses, and an order number that two orders share.

### Where the code and its own words differ

Two runs expect a violation; each checks one sentence of the code's own comments, and the findings in
`PROJECT.json` quote them.

| run | property | in short |
|---|---|---|
| `double_charge` | `OneChargePerCall` | two copies of a report both pass the retry guard before either has committed |
| `blind_charges_unanswered` | `BlindWasAnswered` | a caller who leaves during routing is charged as answered |

Ten more configurations check a sentence each and find it violated by what the code does. They are no runs of
`PROJECT.json` and are kept beside it.

| configuration | module | the sentence, and what happens |
|---|---|---|
| `SweepKeepsOutcome.cfg` | MCCallLifecycle | `H` 724-725 "a call that already finished keeps the outcome it was given": refresh and save are two statements; a Completed row becomes asterisk_gone |
| `HeldAnswerCounts.cfg` | MCCallLifecycle | `routing/held_answer.py` 14-16: relay and hang-up reports interleave and the answer counts for neither |
| `LateAnswerPays.cfg` | MCCallLifecycle | `H` 826 "every ANSWERED call pays its minutes": the hang-up report of a checked call taken for missed books the VoIP Shield fee under the sid; the relay's late answer completes the row, and the guard of `charge_call` returns that fee instead of charging the minute |
| `OverflowOnlyWhenFull.cfg` | MCRouteLimits | `engine.py` 281-283: rows that still ring fill the campaign for each other |
| `EveryLimitExact.cfg` | MCRouteLimits | `H` 186 "buyer, line and campaign concurrency limits are exact": Round Robin and Weighted rules ask no buyer's or line's limit |
| `MarkerGoes.cfg` | MCFallbackSync | `call_ended.sh` 49-51: a restart between synced and release keeps the report back for ever |
| `ShownWasPlaced.cfg` | MCFallbackSync | `routing/fallback.py` 390-392: B's late handler reuses A's row and writes its own line on it |
| `QuarantineHolds.cfg` | MCNumberPool | `dni/models.py` 98: a number in quarantine by a flood is set Available by the next sweep of its visit |
| `GroupedOnce.cfg` | MCRepeatReports | `retry_group.py` 32: two redials at once link to one try, and both are shown |
| `TriedNotAgain.cfg` | MCLineChoice | `engine.py` 562: the rotation of a buyer's numbers gives a number the call has already tried; as `FAILOVER_MAX_TRIES` counts distinct numbers, this may go on until the caller leaves. It is the only way back to a tried number: `RedialOnlyByRotation.cfg`, which passes and is proved |

Seen while reading, deterministic and so not modelled: `is_duplicate` counts the call's own ringing row (`engine.py` 226-236);
`stripe_webhook` and `deposit/confirm` credit whatever is confirmed again; a webhook whose task could
not be queued stays Pending for ever (`webhooks/services.py` 140).

## 4. What is proved

TLAPS checks these for every value of the constants (under the named assumptions of the modules, which TLC
evaluates on the instances).

* **Money_proofs**, about Ledger - `TypesHold`, `LocksReadLatest`, `FeesAreCovered`, `RepeatsAreFree`. They follow from one inductive
  invariant, `LedgerInv`. The properties say what a Transaction row looks like, and nothing of an operation that is
  about to write one: `Exclusive` (whoever holds the row knows the balance) gives
  the second, and with `Balanced` (the balance is what was booked and what slipped) the third; `Unseen` (a charge
  that passed the guard had seen no charge of its call) with `Ended` (only finished operations have rows) gives the
  last. All three writing actions are the same step, `Book`, and the lemmas `Booked`, `OneBooked` and `BookKeepsInv` say
  once what it does to the list of rows.
* **Money_proofs**, about AccountMoney - `MoneyTypesHold`, `PaymentsCredited`, `FeesAreCyclesApart`. `CreditsFit` ties an order's status to its
  credit, to the callbacks that have no answer yet, and to the two ways in which one is answered in vain. `Cycles` and `Stamped` say, while no stamp was lost and no two runs
  overlapped, that one run at most is between its scan and its stamp, and that the stamp is the day of the last fee
  unless that run is about to write it; without them a fee could be followed by another on the old stamp.
  The two modules keep their names apart (`MoneySpec`, `moneyVars`, ...), so that one module can extend both.
* **Routing_proofs**, about RouteLimits - `TypesHold`, `LimitsAreExact`, `HoldersAreBounded`. `LimitsExact` says nothing of a request between
  its decision and its save; `Promise` adds that one which still owns the lock when it saves has left room at
  every limit of its line. While it owns the lock nobody else can save under it, so only calls that end change
  the counts, and these only shrink (`Fewer`). `HoldersInv` counts the free key as one more holder, so that taking and
  releasing keep the sum and only a fault raises it.
* **Routing_proofs**, about LineChoice - `ChoiceTypesHold`, `NeverSame`, `OriginalStays`, `RefusedWhenNoneLeft`,
  `RedialsByRotation`, for every campaign: any rules, lists and rotations. Two halves meet:
  * What the routers know. The properties compare a call's next number to the ones before it, and the code knows those
    from rows, hidden rows and a journal. `Remembers` says that a row's destination and its tries are exactly the numbers
    the call was sent to, the destination the last of them, and a journal row the first; `Stage`, what of this there is
    at which time (a call whose line did not answer and that A did not place has its row at B). So `Reached` is exactly
    `KnownB` (`ReachedIsKnown`), and the newest pin is the last number of the call before.
  * What a decision gives. A chosen line is one the caller may have, and one is chosen if there is any (`RuleFits`,
    `RuleHasOne`, `RunHasOne`, `NoneFits`), also when the rotation replaces its number (`RotationFits`, `DialledFits`). Under
    these lie `FirstIn`, from the well-foundedness of `<`, and `NthIn`: a set of places has an mth one when it has more
    than m, so a turn taken modulo the number of lines that are left always finds a line.

  `RedialsByRotation` is the part of "not tried again" that the code keeps: failover comes back to a number only from a
  rule line that names its buyer by a number that is not his and is new to the call.
* **CallLifecycle_proofs** - `TypesHold`, with `Dials`: a line is filled in before it is dialled, recorded as missed or
  rung, which `TypeOK` needs of the values the handlers carry. On the types rest three invariants, each with one lemma per
  part:
  * `MoneyInv` gives `AnsweredPaid`, `ChargedAnswered` and the refinement `SettlementImplemented`. The properties see the
    row and the acknowledged report; between them the charge is in the hands of one copy of the handler. `Told` says
    what the switch has told of a call, `Money` that every copy of an answered call's report that has read it will charge
    before it answers, that no fee can get there first while the answer stands, and that nobody is about to charge
    minutes for a call nobody may be charged for.
  * `LineInv` gives `NoLineRungTwice` and `OddListsSpare`. `Stage` keeps the call's place on the switch and its requests on
    B together (a call that rings has no next-buyer request left that could give it another line), `Fresh` and `Rings`
    follow every line that rang in vain from the row into the hidden `#try` rows, past the sweeps and the copies of a
    report that write the whole row back, `Spared` counts the strikes of a call that is up.
  * `ShownInv` gives `AnsweredShown`: `Shows` says of a call no blind report was matched to that only its own reports save
    its row, and that from the first save on the row names the line that answered.
* **TrackingNumbers_proofs** - `TypesHold`, `QuarantineIsFull`. The pool rules compare the end of the quarantine with today,
  and nothing else; that the end is a whole quarantine after the release is `QuarantineInv`: a number in quarantine
  whose row nobody overwrote or revived is released (`Quarantined`), and a released number has a known, past release
  (`Freed`). `Sound` says what a write has to bring to keep this, `WriteIsSound` that it is enough, and each handler is
  then shown to write soundly (`EditsAreSound`, `RetiringIsSound`).
* **FallbackSync_proofs** - `TypesHold`, `ReportsHeld`, `CountedOnceAlways`. `ReportNotEarly` looks at a report that is
  posted; the hand-over that must come before it is the chain `Handed`: what a post carries is journaled, what B answered
  for or the sync marked it knows, and a placed call without a marker it knows. `KnownStays` says that B forgets no call.
  `Single` is what `CountedOnce` needs of B's two handlers: `RouteCreate` makes a row only while A's is not there, and
  `RecordInsert` puts A's beside it only when it was hidden, which it stays (`RowStays`, `RowMade`).
* **NumberPool_proofs** - `TypesHold`, `NumbersApart`, `VisitsRight`. `Apart`: a number that did not go astray is not
  Available while it is held, and its holder is the newest visit ever given it; that gives the single holder, and
  that `visit_for_call`, which takes the newest visit that stands, finds the holder. `Room` counts the requests that
  have looked and not yet taken, so that each finds a row of the bounded table. `NewestIn`, that a nonempty set of visits
  has a newest one, follows from the well-foundedness of `<` on the naturals; `VisitMoves` says once how a step may
  change visits.
* **RepeatReports_proofs** - `TypesHold`, `ReportsAreCurrent`, `CallsStayShown`, `ShownTwiceByOverlapOnly`. `HandlersInv` says what
  each handler holds at each of its statements: rows are numbered as they are created, no report comes before a dial
  (`Begins`, `Reads`), a try gets its root once, before which it is of no other call (`Links`). On it rest three invariants:
  * `ReportsInv` gives `ReportsAreCurrent`. The property speaks of the time when nothing runs; `Hidden` and `Copied` say who
    will put a wrong copy right before then: a handler of the try that has still to read, check or clear, the link that
    has still to delete, or a queued task.
  * `KeptInv` gives `CallsStayShown`. A report that read a hidden row saves it hidden again, even if another has shown it
    meanwhile, so `Was` is a row that is hidden or that a report holds hidden, and `Kept` gives each of these a later shown
    try. A root that is folded into an earlier call gets a root of its own and must not part a call: `SameCall` is defined
    by sets closed under the links, and the proof needs no induction along a chain of folds.
  * `SingleInv` gives `ShownTwiceByOverlapOnly`: a call shows at most one try more than there are links of it between root and
    hiding (`Linking`), which is a count over finite sets and the reason why `Try` is assumed finite.
* **Webhooks_proofs** - `TypesHold`, `TakenStaysTaken`. `Senders`: until its own task has posted no run has a delivery;
  `Sole`: while no two tasks had read it at once, one run at most has it, and none once it was taken; `Bounded` keeps
  the tries below the limit in the row and in what a run has read.

TLC has checked every one of these invariants on the instances of the runs before it was proved. A proof needs no more
than the assumptions the modules name: that bounds are naturals, that the special values (`NoLine`, `None`, ...) are none of
the ordinary ones, that amounts, limits and terms are positive where the code has them so. No set has to be finite
but the requests of RouteLimits, where holders are counted, and the tries of RepeatReports; the sets of calls,
visitors, deliveries and lines may be of any size.

Only model-checked:

* all liveness (`RowsFinish`, `ReportsArrive`, `AnsweredIsBilled`, `NumbersComeBack`, `RetryingSettles`): it rests on fairness,
  which is outside the prover;
* the two violations and the sentences of section 3, which are refuted and not proved.

## 5. Not modelled, and the plan

Every safety invariant and action property of the runs is proved, and the refinement. What would come next is more of
the code: the hazards of `PROJECT.json` that no property covers yet, each with its reason there, and of these first a
CallLifecycle with two calls of one caller, cut down to the reports without an id.

Left out for good, or until someone needs them: two calls of one caller in CallLifecycle as it is (beyond the time of a
run); the caps Server A counts from its plan; CoinGate, Stripe, auto-recharge and invoices (what is not an external
service there is the credit block of AccountMoney or a booking of Ledger); the rejected-call fee, which
`charge_rejected_call` never takes for "No Destination" refusals, since they are No Answer rows (`retry_group.py`
174 says each folded try keeps its fee); RTB; the Twilio path; CRUD and permissions, templates and the admin site,
report queries, transcription and audio checks, operations scripts, vendored static files, pricing arithmetic.
Most of the repository's lines are of these kinds (serializers, report queries, settings pages, scripts, tests), which is
why the map covers a small share of them and a large one of the files it names.

## 6. Running it

    tlc -workers 2 -config MCLedger.cfg MCLedger       # and so on, per PROJECT.json "runs"
    tlapm Money_proofs.tla

`mc_call_lifecycle` takes up to four minutes, `mc_ledger`, `mc_account_money`, `mc_line_choice`, `mc_number_pool` and
`mc_repeat_reports` between one and three, the others less than a minute; the proofs of CallLifecycle take five minutes, those of FallbackSync and Routing three,
those of NumberPool two, the other proof modules a minute or less.
