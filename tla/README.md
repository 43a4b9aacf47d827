# Formal model of the BCWin backend

BCWin is a lottery and game platform: two Node processes over one PostgreSQL
database and one Redis.

* `apps/api` answers HTTP requests, in several replicas: accounts, bets, deposits,
  withdrawals, rewards, the callbacks of payment gateways and game vendors, the
  admin panel, the players' WebSockets.
* `apps/engine` runs timers: the rounds of the lottery games, rebates, salaries,
  bonuses, levels, timeouts.
* `packages/*` is what both share: schema, cache, settings, wager accounting,
  bonuses, WebSocket broadcast.

Both processes are single-threaded, so code between two `await`s is atomic; what
interleaves is everything separated by an `await`: requests with requests, timers
with timers, the API with the engine. Transactions run at PostgreSQL's default
isolation, READ COMMITTED, so a value read in a transaction may be stale when the
transaction writes, unless the write carries its condition or the row is locked. The
models take one step per database or Redis call that matters, and one step per
transaction when nothing in it depends on a stale read.

## Inventory

| Component | State | Operations | What is hard | What makes it correct |
|---|---|---|---|---|
| Win Go round (`scheduler/wingoScheduler.ts`, `services/wingo/*`, `packages/cache/resultSetter.ts`, `routes/wingo/bets.ts`) | `WingoPeriod` (status, result), `WingoBet`, `WingoBetResult`, `User.balance`, Redis `admin:wingo:result:*`, the scheduler's flags and sets | end and create periods, draw, publish, settle, sweep, place a bet, set a result | three overlapping tasks, two places that draw, bets still in flight at the lock, settle runs that fail half way, restarts | one number per period, everyone paid once by it, the number hidden until the end, nothing lost on a RESOLVED period |
| K3, 5D, Moto rounds (`scheduler/*Scheduler.ts`, `services/{k3,5d,moto}`) | the same tables per game | one cycle: end, create, draw, settle, resolve; what the lists show | late bets on a resolved period, re-activation of a period, a cycle that overlaps itself, payment apart from the bet's row | as Win Go; what a player was shown does not change |
| TRX Win Go round (`services/trxwingo`) | the same, plus the Tron block of a period | three timers: lifecycle, draw from a block hash, settle; pause while the node is silent | the draw waits for an outside service while the next period runs | the block is younger than the bets, and the same after a retry |
| Deposits and withdrawals (`routes/payment`, `routes/callback/payment`, `admin/transactions`, `depositTimeoutScheduler.ts`) | `Deposit.status`, `Withdraw.status`, `User.balance` | create, callback, approve, reject, cancel, time out | four actors (player, admin, gateway, timer) change one order; callbacks are repeated | one credit per deposit, one refund per withdrawal, a final status |
| Wager requirement and penalty (`packages/wager`, `packages/illegal-bets`) | `WagerRequirement` rows, the penalty columns of the user, `IllegalBet` rows | recharge, reward, read status, withdraw, detect an illegal round, admin's penalty and clearing, change of a factor | flags written under one factor and read under another, a balance snapshot, a round looked at again by every bet and settle run, rules apart from payouts | a withdrawal leaves nothing unearned; a round is punished once, and only when its bets exclude each other |
| Vendor wallets (`routes/callback/vendor/inout.ts`, `admin/users/balance.ts`) | `InoutBet` and its flags, `User.balance` | bet, result, rollback; an admin's correction | repeated and concurrent calls, two statements without a transaction, an absolute balance written | each transaction id moves money once |
| Gifts, spins, activity bonuses, VIP, win streak | claim rows, counters, spins, tiers, streak, level | claim, spin, redeem, award, expire, reset; admins edit the tiers | parallel claims read the same counter; rows are found again by position | limits hold, one payment per claim |
| Team rebate, self-rebate, salary | rebate rows, days closed, salary rules and payments, claims | close a day, catch up, settle; pay rules; generate, approve, reject; previews | two runs of a job, a crash between calculation and credit, changes between | one payment per day and user, and it is what was shown |
| Cache and settings (`packages/cache`, `packages/config`) | Redis copies of rows, the revision of the configuration | read through, invalidate, fail open | stale fill after an invalidation, scripts that run after their caller gave up | a reader is never behind an answered update; views catch up |
| WebSocket (`packages/websocket`) | a process's connections, Redis metadata, topics and subscriptions | connect, subscribe, ping, close, publish, prune, shut down | a browser reconnects, also to another replica, while calls about its old socket are under way | the new connection survives, leftovers do not |
| Accounts and OTP; commission; admin reports; schema, seeds, deployment | users, codes | sign up, log in; read | - | - |

The components meet in the user's row: rounds, wallets, payments and rewards add to or
subtract from `User.balance`, nearly always by `increment`/`decrement`, so the database
keeps concurrent changes apart; the admin's balance update writes a sum instead. Only
the guard differs. A bet's debit carries `balance >= betAmount` in its own `UPDATE`;
several other debits check a value read earlier. This is why the models keep every
guard of a balance where the code has it. The other meeting places: a bet counts for
the wager requirement, the win streak, the self-rebate and the team rebate; a deposit
makes a requirement, bonuses and spins; every change drops cached views.

The hazards of all components, each at its line, are in `PROJECT.json` with the
properties that would catch them.

## Modules

| Module | What it is |
|---|---|
| `RoundLedger` | abstract specification of a round: place, draw once, settle once |
| `WingoRound`, `MCWingoRound` | the Win Go table in detail; it implements `RoundLedger` |
| `WingoRoundProofs` | types, safety and refinement for all constants |
| `RoundTables` | what K3, 5D, Moto and TRX Win Go share: the period's row, requests, settle jobs, failures |
| `CycleRound` | the one-cycle schedulers of K3, 5D and Moto |
| `TronRound` | TRX Win Go: three timers and the block of a period |
| `Lottery`, `MCLottery` | the two composed with the API's requests; it implements `RoundLedger` |
| `LotteryProofs` | types, safety and refinement of these tables for all constants |
| `GameRules` | bets and wins of all games, Win Go's payouts and WINNING choice, the illegal-bet rules |
| `AccountBook` | abstract specification of a player's orders: each moves its amount once |
| `PaymentOrders`, `MCPaymentOrders` | deposits and withdrawals, implementing `AccountBook` |
| `PaymentOrdersProofs` | types, safety and refinement of the orders for all constants |
| `WagerLedger` | requirements, penalties and illegal rounds of an account; extends `GameRules` |
| `VendorWallet` | the vendor's callbacks and the admin's balance update on the same account |
| `Wallet`, `MCWallet` | both composed |
| `WalletProofs` | types and safety of the account for all constants |
| `RewardDesk` | the pattern of every claim and job: days, requests in flight with what they have read |
| `GiftsAndSpins`, `ActivityBonuses`, `VipAndSelfRebate`, `Salaries`, `TeamRebate` | the schemes, each on `RewardDesk`; the last two are salary rules and automatic salary, and the daily close of the team rebate with its previews |
| `Rewards`, `MCRewards` | the schemes together and what each promises |
| `RewardsProofs` | the safety of every scheme for all constants |
| `SettingsCache` | the fenced configuration cache |
| `CacheCatalog` | every other cached key: filled by whom, for how long, dropped by which operation |
| `CachedViews` | how these keys are filled and dropped |
| `Caches`, `MCCaches` | both caches |
| `CachesProofs` | what is never stale, for all constants |
| `Sockets`, `MCSockets` | one browser's connections to the replicas |
| `SocketsProofs` | that the replacement of a socket survives, for all constants |
| `Sums` | what sums over finite sets and sequences are worth, for the proofs above |

## What is modelled

### RoundLedger

What any round owes its players, in three variables: an `outcome` per slot, an
`account` per player, a `ticket` per bet. `Place` takes a stake from an account
that covers it, into a slot that has no outcome yet; `Draw` sets an outcome once;
`Settle` decides an open ticket by the outcome of its slot and pays it.

### WingoRound

One table, that is one duration, with the slots `0..MaxSlot`. The code runs four
of them (`WINGO_DURATIONS`), which share nothing but the players' balances.

| Model | Code |
|---|---|
| `status`, `resultNumber` | columns of `WingoPeriod`, "NONE" when there is no row |
| `adminResult` | Redis key `admin:wingo:result:<period>` |
| `bet` | the place-bet request, then `WingoBet.status` |
| `betResult` | `WingoBetResult.winAmount`, `NoRow` without a row |
| `handoff`, `prepare`, `settle` | local state of the scheduler's three tasks; "idle" is the false in-memory flag |
| `draw` | `processPeriodResult`, once for `handoff` and once for `prepare` |
| `jobs` | the `settleBet` promises; "orphan" when the `Promise.all` that awaited them has rejected |
| `publishedResults`, `announced` | the scheduler's in-memory sets |
| `published` | what clients were sent on `wingo-results` |

Actions follow the awaits. The balance a bet request looks at before its transaction was read
with the session and may be stale, so `CheckBet` does not ask for it: the conditional debit in
`CommitBet` does. `HandoffStart` reads the expired periods; `EndPeriod`
ends one; `PublishStored` or `HandoffDraw` handle each, from the row read when it
ended; `HandoffCreate` makes sure a period is live; `HandoffSweep` resolves ended
periods without pending bets. `PrepareStart` reads the live period and decides
whether a draw is due; `EnsureNext` creates the following one; `PrepareDraw`
starts the draw. `Generate`, `Consume`, `Persist` are the draw: take the admin's
number or any other, delete the key, write the row. `SettleStart` reads due
periods and bets in one query; each `SettleBet` is one transaction;
`SettleFinish` resolves. `CheckBet` and `CommitBet` are the place-bet handler
before and in its transaction; `AdminCheck` and `AdminWrite` are `ResultSetter.set`.

Why `prepare` and `settle` need no `handoff` before them: a tick awaits `handoff`,
but returns at once when another `handoff` is running, and goes on to the other
two tasks. A `handoff` that found nothing to do may last any time, so the other
tasks may start in any state in which they are idle.

Failures: a crash of the engine (memory lost, database kept), a failing query
in each task, a failing draw, a failing Redis call (`ResultSetter.get` answers
null, `del` is silent, `set` refuses), a failing `settleBet` transaction, and a
bet request that dies. `MaxFaults` bounds their number.

Abstractions, on purpose:

* Amounts are naturals. The code rounds amounts to two decimals, so a natural is
  an amount in the smallest unit. What a bet earns for a number is a constant
  function of the bet (`pays`); the table behind it is in `GameRules`.
* A drawn number is any member of `Numbers`: the WINNING and random algorithms are
  abstracted to their range here.
* Players exist from the start; the create race of `createPeriodIfNeeded` ends in
  the unique key of the period, so it is one step.
* The Redis key's time to live (15 minutes) is longer than any slot, so it does
  not expire in the model.
* Settling a bet also feeds XP, win streak, cache and WebSocket; placing one also
  feeds the wager, the illegal-bet check and the self-rebate: see `WagerLedger`,
  `ActivityBonuses` and `VipAndSelfRebate`.

### AccountBook

What the orders of one player owe him, in three variables: his `account`, what became
of each deposit (`deposited`: "open", "credited", "rewarded") and of each withdrawal
(`withdrawn`: "none", "held", "paid", "returned"). A deposit is credited once and
its bonus paid once; a withdrawal is held when it is asked for, if the account covers
it, and is then paid out or returned.

### PaymentOrders

One player, any number of deposits and withdrawals, one day.

| Model | Code |
|---|---|
| `balance`, `deposit`, `withdraw` | `User.balance`, `Deposit.status`, `Withdraw.status`; "none" when there is no row |
| `rewards` | `ActivityBonus` rows that `creditRechargeBonus` made for the deposit |
| `needToBet` | the largest remaining need of a requirement; `totalNeedToBet` of `getUserWagerStatus` is their sum, and both are zero together, which is all the handler asks |
| `unwagered` | the same, if every credit had carried its requirement (history, no code) |
| `opening` | deposit handlers between `initiatePayment` and `deposit.create` |
| `request` | handlers of manageDeposit, manageWithdrawal and cancel, between read and update |
| `payment`, `payout` | what the gateway knows of an order (external) |
| `callbacks`, `sent`, `answered` | callbacks on their way or being handled; those answered with success. `owes` marks one that has credited a deposit and not yet recorded its requirement (history) |

| Actor | Actions |
|---|---|
| player | `RequestDeposit`, `CreateDeposit`; `RequestWithdraw`, the transaction of the withdraw handler with the row lock of `debitWithdrawal`; `Play`, a lost bet; `ClearWager` |
| admin and cancel | `ReadOrder`, then one of `ApproveDeposit`, `RejectDeposit`, `Refund`, `ApproveManual`, `Instruct`; `ApproveBonus` and `MarkProcessing` follow |
| gateway | `GatewayDecides`, `GatewaySends` |
| callback | `DepositPaid`, `DepositWager`, `DepositBonus`, `DepositOther`; `WithdrawRead`, `WithdrawReport` |
| engine | `FailStale`, the timeout |

Reads and updates are apart because most updates name the order alone: manageDeposit
and manageWithdrawal check the status, and later update by `orderId`; the deposit
callbacks update whatever the status is. A callback's credit is one update, its wager
requirement another, its bonus a transaction of its own. The timeout's update is one
statement that repeats its condition, so it is one step.

Failures: a transaction that rolls back or a bonus that fails ("rollback"), a
requirement that cannot be created after the credit ("wager"; the handler answers with an
error, so the callback comes again), a gateway that took a
withdrawal but whose answer, or the update that follows, is lost ("gateway"), and a
crash of the API, which loses every handler but no row.

Abstractions, on purpose:

* Gateways are not part of the repository. As the handlers use them: an order id is
  taken once, a callback is repeated until it is answered with success, and reports
  the amount of the order. `xdpay.ts` stands for all the gateways; the others have the
  same steps.
* Any PROCESSING deposit may be past the cutoff of the timeout, so no property
  depends on how long a payment takes.
* A requirement is met by the bets made since it was created, and a bet counts for all
  the requirements before it, so `needToBet` is the largest need. Requirements
  created in the same millisecond share bets instead; that is the subject of
  `WagerLedger`, with the penalty.
* Requirements multiply the credited amount by a setting; the model takes it once.
* A bet is a lost one: what matters here is that it takes money and counts as wagered.
* Left out: bank details and their checks, currency conversion, limits of the amount,
  demo accounts, statistics of the first deposit, and the withdrawals' daily window.

`Assumed` names what an instance assumes of the environment, because nothing in the
code enforces it:

* `"alone"`: no two requests decide one order at the same time.
* `"ordered"`: the callbacks of one order come one after the other.
* `"once"`: a gateway does not repeat a callback that was answered. Without it a
  second "paid" credits the deposit again: `DepositPaid` looks at no status.

### RoundTables, CycleRound, TronRound, Lottery

A table of one of the four games, `game`, chosen at the start. `RoundTables` has what
they share and `CycleRound` and `TronRound` what differs.

| Model | Code |
|---|---|
| `status`, `resultNumber`, `block` | the period's row; `blockTimestamp` for TRX |
| `bet`, `betResult`, `paid` | the request and then the bet's row; the bet's result row; whether the balance was changed (history) |
| `adminResult`, `adminRequest`, `accepted` | the Redis key; the request in flight; what the admin was told |
| `jobs` | `settleBet` calls: "record" and "pay" apart, since 5D commits them apart |
| `cycle` | the run of `runCycle()` and the periods it still has to draw or settle |
| `lifecycle`, `draw`, `settle` | TRX's three flags and what each task has read |

`K3Tick`, `FiveDTick`, `MotoTick` begin a cycle when none is running, Moto's at full half
minutes only; a cycle ends periods, creates or reactivates one, draws and settles. Each game draws, settles and resolves by its own action, because they
differ in whether a stored result is looked at, whether a bet and its payment are one
transaction, and what makes a period RESOLVED. TRX draws shortly before the end, in the bet lock, from a
block not older than the first draw that is due, but for `TipTolerance` (300 ms in the code); a node that
lags gives an older one, and one that does not answer leaves the period for the next run.

Failures, `FaultKinds`: a restart of the engine, a clock set back, and a failing statement
in each step. The lists a player reads, `Listed` and `ShownWin`, are state functions.

### GameRules

Bets are records: the game, the place of the result (the digit or sum of 5D, the position
of a race), the type, and a number, a group or dice. `WingoWins`, `K3Wins`, `MotoWins` and
`FiveDWins` are `checkBetWin` of each game, over results as the generators make them;
`CheapestNumbers` is the set `calculateWinningNumber` chooses from. `Selected`,
`CoversNumber`, `IsIllegalBetPair` and `FullNumberCoverage` are `rules.ts`. The results
of 5D are a constant, which the run gives as those with four digits at their ends and any fifth
(`FiveDSamples`): they have every digit and every sum. A bet that the game would pay but that no validator lets in is not a bet.

### WagerLedger, VendorWallet, Wallet

One account. `rows` are its requirements, `bets` its first-party stakes by time,
`penalty` its three penalty columns, `illegal` the `IllegalBet` rows of a round.

| Model | Code |
|---|---|
| `Live`, `Synced`, `Status` | `liveRechargeMultiplier`, `syncRechargeWagerToLiveFactor`, `calculateUserWagerStatus` |
| `Sharing`, `Available`, `MetRows` | how rows of one instant share the bets made since |
| `DebitWithdrawal` | the locked status, the check and the debit; a refusal rolls all back |
| `PlaceBet`, `DetectSettled`, `ApplyPenalty` | `detectPlacedIllegalBet`, `detectSettledIllegalBets`, `applyIllegalRoundPenalty` |
| `AdminPenalty`, `AdminPenaltyOff`, `AdminClearWager`, `ConfigWager` | the admin's routes |
| `calls` | the vendor's and admin's requests between their statements |
| `waived`, `penalized`, `others`, `overlapped` | history for the properties |

The operations of `WagerLedger` lock the user's row, so each is one action. InOut's bet is
a read, the row, the debit; its result and rollback a read, the credit, the flag; the
admin's update a read and an absolute write, with a requirement for what it adds unless the reason
given names a salary or a commission. Each may die in between. `market` is the set
of bets the account plays; `Spent` leaves accounts of most markets few requests.

### RewardDesk and the schemes

Every scheme is the same shape in the code: read some rows, decide, write later, perhaps in
a transaction that looks again. `RewardDesk` has `calls`, the requests in flight with what
they have read, `AtOnce` for what is one statement or holds a lock, `NewDay`, and
`overlapped`, which remembers that something was written while a request was in flight.
A behaviour is about one `scheme`. The schemes: gifts; the invite and lucky wheels with
deposits, tiers and an admin who edits them; DAILY, INVITATION, ATTENDENCE and
FIRST_DEPOSIT bonuses between the job that unlocks, the job that expires and the claim; the
win streak, whose bonus and reset are two statements, so that one may fail after the other (`unreset` counts
it); VIP levels, their nightly recalculation, level-up and monthly rewards; the
self-rebate with its nightly expiry.

### TeamRebate, Salaries

`events` are bets and deposits of members in a tree of referrals, which has no cycle because who
registers names an account that exists (`apps/api/src/routes/auth.ts:606`); `rebates` what the close has
written for them; `Preview` and `PreviewTotal` what players and admins are shown, computed
the other way round as the code does (from the user down, from the event up). The cron job,
the catch-up of a start and the settlement are steps of their own, with crashes between.
Both are schemes of `Rewards`. `Salaries` has one rule with its hourly run (read rules, pay, write back the counter) next to
admins who edit, reactivate and delete it, and one automatic claim between generation,
approval and rejection. The automatic salary is explored although its switch
(`AUTO_SALARY_LIVE`, `packages/config/constants.ts:22`) is off.

### SettingsCache, CacheCatalog, CachedViews, Caches

`SettingsCache` is `SystemConfigCache` and its callers: `getOrLoad` (snapshot, load, fill by
the revision that was read), `invalidate`, the PATCH of an admin with an invalidation
before and after the commit and a reload. A reader gives up after `Attempts` rounds, or when Redis fails,
and reads the database; when that fails too it answers without a value, and its caller falls back to a default. A script whose caller timed out stays in `late` and may
run at any later time, out of order.

`CacheCatalog` is data: each cached view with its key, kind, time to live and part of a hash,
and `Writes`, the operations of the whole repository that change rows, with the keys each
drops. `CachedViews` is the behaviour around one key: a GET looks, loads, puts and, for a hash,
sets the expiry; an operation changes rows and then drops keys; Redis or the database may
fail; the maintenance gate fails open for a while. Whether an operation drops what it should is
what `FreshUnlessRaced` asks of `CacheCatalog`.

### Sockets

One browser id: `clients` and `clientAuth` of each replica, Redis `meta`, `subscribers`,
`clientTopics`; `lines` are sockets open on a replica and `current` the one the browser uses.
`removing` are calls of `removeClient` after their read of Redis, with the socket they expect,
`touching` those of `touchClient`; a publish is a lookup, the sends, the prune. A shutdown and a
crash end a replica. `onError` followed by `onClose` is one close.

## Timing assumptions of WingoRound

The code has deadlines nothing enforces: `processPeriodResult` writes whatever the
row holds, and the place-bet transaction does not look at the period again. So
most properties of a round hold only while requests are timely. The constant
`Prompt` names what is assumed, and each run says which it uses:

* `"bet"`: no place-bet request that passed its checks is still running when the
  draw window of its slot opens. The lock is at least as early as the draw
  window, so a request has from the lock to the draw to finish.
* `"prepare"`: no run of `prepare()` is still running when its slot ends. It
  draws in the last seconds.
* `"admin"`: no `setResults` request is still running when its slot freezes.

`Tick` is the only action of `WingoRound` that uses `Prompt`: the clock waits for them. In
`Lottery` it does so too, and `AdminInTime` keeps an admin from asking for a period that is over. Without
"prepare" a period may be given two numbers, one after the other.

## Runs

| Run | Assumes | Shows |
|---|---|---|
| `wingo_rounds` | bet, prepare, admin | two rounds that overlap, a second stake perhaps paid by the first win, all failures: `PublishedIsStored`, `ResolvedIsSettled`, `BookClosedAtDraw`, the refinement `LedgerSpec`, and `AdminObeyed`, the last number an admin was told is set is drawn |
| `wingo_live` | fairness | no timing: `OutcomeFinal` (a settled bet never changes, though a redraw may) and `BetsSettled`, every stake is settled, with a settle run failing half way |
| `pay_deposits` | alone, ordered, once, fairness | a UPI and a gateway deposit, a rollback, the timeout: `DepositDecided` (none waits for ever), `PaidIsCredited` (also when the timeout came first), the refinement `BookSpec` |
| `pay_withdrawals` | alone, ordered, fairness | a UPI and a gateway withdrawal and a UPI deposit, repeated callbacks, a rollback: `NeverPaidAndReturned`, `PayoutReported` (the gateway's end reaches the order), `BookSpec` |
| `pay_faults` | nothing | all failures, overlapping decisions, repeated and reordered callbacks: a gateway deposit and withdrawal: `NothingLost`, the balance is never below what the rows of the database say, and `FrozenUntilWagered`, nothing is taken unwagered but the credit of one callback that has yet to record its requirement |
| `lottery` | bet, admin, fairness | each of the four games, two slots, any one failure: the refinement `LedgerSpec`, `ResolvedOwesNothing`, `DrawnFromSource` (the admin's result, or a block younger than the bets), `NoReopenAfterDraw`, `ShownIsFinal`, and `BetsPaid` |
| `fived_unpaid` | - | finding: a 5D bet is WON and never paid |
| `wallet` | - | `WithdrawalEarned`, `PenaltiesBacked`, `VendorBooks`, and over pairs of bets and all numbers of a place of every game `IllegalAsPaid`; `HouseKeepsWhole`, the WINNING choice |
| `rewards` | - | `GiftsWithinLimits`, `SpinsEarned`, `BonusesPaidOnce`, `WinsAndRebatesCountOnce`, `VipRewardedOnce`, `SalariesPaidOnce` |
| `team_rebate` | - | the close of two days, cut short, caught up with and settled again: `ClosePaysPreview`, `PreviewsAddUp` |
| `caches` | fairness | `ConfigNeverStale`; `FreshUnlessRaced` and `ViewsCatchUp` for every key of the catalog |
| `sockets` | fairness | `ReplacementKept`, `LeftoversPruned`, `RoutedAgain` |

Many reward and salary requests read first and write later, and two at once do pay
twice; nothing in the repository promises otherwise. Those parts of the properties are
stated for `~overlapped`, where they still cover every order of whole requests, days, jobs
and admin edits. Where the code has a lock, a unique key or a conditional update, the part
holds without that premise: a gift is credited once to a user, a tier has one row, a
level has one monthly reward a month, a team rebate row is credited once, a due day is paid once. The
salary job has no such guard, but runs one at a time: a due day is paid once, and a rule never more
often than the largest number it was allowed, whatever an admin does between its read and its payment.

Bounds of `WingoRound`. A slot is three units of time: open, bet lock, draw window,
one of each, so every comparison of the code has instants on both sides of it and on
it. Two numbers tell a redraw; a bet that wins on one and one that wins on the other
tell who was paid by which. One slot and the time after it hold the whole life of a
period; the second slot adds the overlap, in `wingo_rounds`. One failure at any step is
enough for every recovery path; a settle run failing twice repeats the first. The proofs
have no bound.

Bounds of `PaymentOrders`. Amounts, bonus and stake are numbers whose sums tell which
moved. Two or three requests let two decide one order, or one follow a failed one; three
callbacks let "pending", "paid" and a repetition of it come in any order. Two
withdrawals reach the daily limit. A failure is one, at any step. `MCPaymentOrders`
chooses balances that cover one withdrawal or both, so that money given back can be
taken again.

Bounds of `Lottery`. Two slots of three units, with a lock of two and a draw one before
the end (TRX), so that the next slot is live while the first is drawn and settled; the time
ends one slot later. Two bets of slot 0, with different winners. One failure.

Bounds of `Wallet`. Two instants, two requirements, two wager factors, a penalty that
reaches its cap, six weighted requests: enough for a flag written under a small factor to be
read under a large one, for an illegal round before and after a withdrawal, and for a vendor
call repeated around its own flag. The markets are one set of three Win Go bets with all
requests; each pair of bets the rules look at, one place for each kind of place, with
requests for the two bets; and all numbers of each of these places, of which the account has
placed all but two (`Begun`), so that the ten to forty-six bets of a full coverage are reached.

Bounds of `Rewards`, in `rewards` and in `team_rebate`. Three days (yesterday, today, tomorrow of a job), two
requests in flight, six or four in all. A chain of four with two paid layers has a member
too far up to be paid. Amounts of 1 count events.

Bounds of `Caches`. Three attempts, as in the code. One reader
and two admins, one failure (the database's included), and scripts that run late; two replicas, two operations and two
changes for each of the other keys.

Bounds of `Sockets`. Two replicas, an engine that publishes, one browser with two sockets:
the old and its replacement, on the same replica or not. One public topic, one user's topic.

The runs of payments, wallet, rewards, caches and sockets do not check deadlock: their
requests, operations and connections are bounded and the system then has nothing left to do. The
rounds' runs check it.

Mutants. For each property `PROJECT.json` names a change of the code it catches: an order
decided that a gateway has taken, the live period found after its end, no bet lock, no freeze, a timeout that does
not look at the status, a callback that is not answered, a failed one that is, a run that resolves without having
settled, a drawn period reactivated, a block older than the lock, a factor synced without
opening rows again, a repeated result credited, a range of the illegal-bet rules off, a key that
an operation forgets, a fill without the fence, a close callback that does not look at the
socket, and so on.

### Fairness

Of the round: the timers keep ticking and every await of the engine returns
(weak fairness of the clock and of each task, `FairSpec`): `setInterval` fires every
second and no task waits for another. Nothing is assumed of players, admins or
failures. Weak fairness of one disjunction per task suffices: a task is one
thread of control. In `Lottery` the clock is strongly fair, because requests that `Prompt`
names hold it only while they last, and a request that has passed its checks ends.

Of the orders: handlers that started go on (their awaits return), the timeout
runs, and a gateway decides, sends what it decided until it is answered, and delivers
it: one weak fairness per handler and per order. No player has to ask for anything and no
admin has to decide, so `DepositDecided` rests on the timeout alone for a UPI deposit.

Of the caches: a call is answered or times out, an expiry that is set runs out, an
operation under way ends. Of the sockets: a line the browser has left is closed some day,
a browser that stays pings, unrefreshed metadata expires, a process that shuts down ends, and
the engine publishes to every public topic over and over, as rounds end every few seconds.

## Findings

`fived_unpaid`. `settleBet` of 5D commits the result row and the status WON in
`processBetResult` and pays in `processWinnings`, by a statement after it. When that fails, or
the process dies in between, no later run pays: they read PENDING bets. The comment says
"Update user balance in a transaction".

## Observations

Behaviours met while modelling. They are in the models where a component is modelled, and the
properties are stated so that they remain visible in their premises.

Win Go and payments:

* `processPeriodResult` writes whatever the row holds. A `prepare()` that outlasts its slot
  replaces the number `handoff()` drew, although the comment (`wingo/resultGenerator.ts:148`)
  promises no redraw. Drop "prepare" from `Prompt` and `LedgerSpec` fails.
* A settle run resolves a drawn period that is over by the clock, whatever its status. When it does so
  before `handoff()` has ended the period, that result is never published.
* `handoff()` draws only what it ended in the same run (`wingoScheduler.ts:65`). After a restart
  between the end and the draw, the period is drawn by nobody, and its bets stay PENDING.
* manageDeposit updates by `orderId` alone what it read as PROCESSING earlier (`deposit.ts:379`
  and `:335`); two approvals at once credit twice.
* A gateway deposit is credited (`xdpay.ts:130`) before its requirement exists; a withdrawal in
  between is checked without it.

Lottery games: 5D and TRX list a bet as lost while it is not settled yet. K3's comment
"higher odds for rarer sums" does not hold for 4 and 17, equally rare and paid 30 and 50, nor
for 17 and 18, paid alike. Triples count as big or small for the illegal-bet rules, but
not for the payouts (`OnlyByTriple`).

Wager and wallets: rows made at one instant share bets only within one read; a cleared recharge
row opens again when the factor grows; rows are waived for good only if the status is read
while the balance is low; a settled vendor bet can be rolled back too; a cash-out below the stake
is credited as any result. The admin's balance update writes a sum computed from a row read before its
transaction, so bets in between are undone.

Rewards, salary and team rebate: `validFrom` and `validTill` of a gift are not looked at; tiers are
recognised by position, so an edit unlocks some again; `luckySpin.ts:144` makes a wheel
with one invite spin although `spinWheel.ts:143` says there is no free one; the comment
at `selfRebateCalculator.ts:71` gives a rebate until 01:00 of the next day, the claim takes
today's rows only; two first deposits before the check lose the bonus. A rule patched to
ONE_TIME without a limit is paid at every run; a salary run writes back an `isActive` it read
earlier; deleting a rule deletes its payments. The close passes over a demo account in a chain,
the previews stop at it; the catch-up closes yesterday only; a deposit approved after midnight
keeps yesterday's date and changes a preview that was closed.

Caches: the commission rates of users and admins share a key with different shapes; an
agent's performance is a hash in `details.ts` and a string in `performance.ts`, so one of them is
never cached; an EXPIRE lost after its HSET leaves a hash for good, and an EXPIRE refreshed
by other fields lets a page outlive its time; edits of VIP rules do not drop the requirements
shown; deposits of a user are dropped and never filled; the bank list is written and not read. The
maintenance switch "takes effect on the next request" only on replicas that neither fill late
nor fail open. A cache command that timed out may still run.

Sockets: only a process's own map is compared, so a close callback on another replica deletes the
metadata and subscriptions of the replacement; a send that throws and a shutdown remove an id
without looking at the socket; a prune may unsubscribe a browser that came back during it;
`touchClient` restores metadata that is missing, not metadata that points elsewhere;
`addClient` keeps the previous user when the new connection has none. `RoutedAgain` is what
remains: a browser that pings is not without a route for good.

## Proofs

`WingoRoundProofs` proves, for any number of players, bets, slots, numbers, any
window lengths and any number and kind of failures:

| Theorem | Assumes | Establishes |
|---|---|---|
| `TypeCorrect` | - | `[]TypeOK`; in particular no balance becomes negative |
| `BetInvariant` | - | a bet has a result row exactly when it is WON or LOST |
| `SettledOnce` | - | `OutcomeFinal` |
| `TimeInvariant` | timely | `handoff` and `prepare` never draw the same period; a checked bet's slot cannot be drawn yet |
| `DrawnOnce` | timely | `NoRedraw` |
| `BookClosed` | timely | `BookClosedAtDraw` |
| `PaidByStoredNumber` | timely | `[]PaidAsDrawn` |
| `PublishedFaithfully` | timely | `[]PublishedIsStored` |
| `ResolvedOwesNothing` | timely | `[]ResolvedIsSettled` |
| `AcceptedIsDrawn` | timely, `"admin" \in Prompt` | `[]AdminObeyed` |
| `ImplementsLedger` | timely | every behaviour of `WingoRound` is one of `RoundLedger` |

Timely is `{"bet", "prepare"} \subseteq Prompt`. The argument goes in layers, each an
invariant that uses the ones before it.

* `TypeOK` is inductive by itself. The balance stays natural because `CommitBet`
  carries its guard.
* `BetInv`: WON or LOST, and only those, have a row. With it, `SettleBet` never meets
  a decided bet, so `OutcomeFinal` follows.
* `TimeInv` is where time enters: a drawing `prepare` is before the end of its slot, a
  drawing `handoff` after it, and a slot with a number or a draw in flight is in
  its draw window or past it. `NoRedraw` alone is not inductive: one must know
  that no second draw is pending, which `TimeInv` says.
* `PaidInv` adds that every `settleBet` in flight carries the stored number.
* `PublishInv` adds that rows kept by `handoff` agree with the stored number, or have
  none, and that what was published is stored.
* `ResolveInv` adds that the periods of a settle run are drawn and that their pending
  bets are in flight in it, so that none is left when the run ends.
* `ObeyInv`, on top of `TimeInv`: while nothing has failed, an accepted number is in
  Redis, or in the one draw of its period, or on the period; a `setResults` request
  writes before any draw of its period begins.

The refinement maps `resultNumber`, `balance` and `bet` to the ledger; each action is
a ledger step or a stutter.

`PaymentOrdersProofs` proves, for any number of orders and requests, any amounts and
any number of failures:

| Theorem | Assumes | Establishes |
|---|---|---|
| `TypeCorrect` | - | `[]TypeOK`; in particular the balance does not become negative |
| `ReadsStayValid` | orderly | what a handler has read of an order holds when it updates it |
| `DepositsCreditedOnce` | orderly, deposits once | a handler about to credit or reward finds the order uncredited or unrewarded |
| `ConcludedOnce` | orderly, deposits once | `ConcludedStays` |
| `ImplementsBook` | orderly, deposits once | every behaviour of `PaymentOrders` is one of `AccountBook` |
| `PaidNotReturned` | orderly, answers arrive | `[]NeverPaidAndReturned` |
| `FrozenButForOwed` | - | `FrozenUntilWagered` |

* Orderly is `{"alone", "ordered"} \subseteq Assumed`: decisions on one order do not
  overlap, nor do its callbacks.
* Deposits once: a gateway does not repeat an answered callback (`"once"`), and none
  fails or dies between the credit and the answer (no "wager" or "crash" failure), since
  it would be handled from the start. UPI deposits need none of this.
* Answers arrive: no "gateway" or "crash" failure. A withdrawal the gateway took without
  the API knowing stays GENERATED, and may be cancelled.

None of these is enforced by the code; they are what its correctness rests on. The runs
check the same properties on small instances that satisfy them.

The properties are not inductive, because the updates do not look at what they overwrite.
The invariants say why they need not.

* `ExclusionInv`: of one order there is at most one deciding request and one callback; a
  request that read a withdrawal, or instructed its gateway, still finds it GENERATED; a
  callback that read one still finds it PROCESSING; UPI orders have no callbacks and
  gateway deposits no deciding requests. So a deposit has one kind of creditor.
* `DepositInv`: a "paid" callback about to be handled finds its deposit not SUCCESS; once it
  is SUCCESS that callback is still being handled, or "paid" was answered and is not sent
  again. An uncredited deposit has no bonus; callbacks say what the gateway decided.
* `PayoutInv`: a withdrawal the gateway has taken is being marked PROCESSING, or is
  PROCESSING or SUCCESS, or is FAILED because the gateway failed; callbacks say what the
  gateway did.
* `FrozenButForOwed` needs none of these assumptions. What is checked of a withdrawal is
  `needToBet`, what should be is `unwagered`, and a gateway's credit raises the second before
  the first. `CoverInv` says that `unwagered <= needToBet`, or a callback `owes` and what it owes
  is at least `unwagered`. A failed requirement and a crash leave the callback owing, since
  it is not answered and comes again; were such an error answered, `CoverInv` would not be kept. `AskedInv`
  says that handlers only touch withdrawals there are, so that none but `RequestWithdraw` makes one.

The refinement maps `balance`, and each order by `BookDeposit` or `BookWithdrawal`: an approval
or a "paid" callback is a credit, the request of a withdrawal a hold, its report a payment
or a return, and everything else a stutter, the timeout included.

Beyond the refinement, `PlayerLosesNothing` is `Spec => []NothingLost`, without any of these
assumptions: whatever overlaps, repeats, fails or crashes, the balance does not fall below what the
order rows say. It is inductive with the types: every action that makes the rows say more (a
credit, a bonus, a withdrawal given back) moves the balance by as much in the same step, and a sum over the
orders changes by that order alone (`Sums`).

`CachesProofs` proves two theorems. `NeverStale` is `CachesSpec => []ConfigNeverStale`, for any
number of readers, admins, attempts and failures. `ConfigNeverStale` speaks of what was given; the
invariant says what can still be given:

* `Stamped`: a revision held by a reader or a script was minted, and one that Redis has yet to
  install is held by nobody (`Unseen`).
* `Fenced`: every value that is in the cache, or in a fill whose revision is current, is at least
  the last answered update (`Floor(answered)`), and at least the version of every admin
  who is reloading.
* `Served`: readers began at a `base` that was answered, and what was given is at least that.

When a script changes the revision, no fill in flight is current, by `Stamped`; so the floor
rises to what is committed. That is the step that fails without the fence.

`OnlyRacesAreStale` is `CachesSpec => []FreshUnlessRaced`, for any readers, operations and changes.
Lemmas about the catalog, which is data, say who reads and who drops the keys of `KeptFresh`: for the
catalog as it is, whoever changes a table that such a view shows drops its key (`DroppersAre`). Then
`KeptUp` is inductive: a GET that holds older rows began before an operation that is still under way,
or is marked as raced.

`LotteryProofs` proves, for any of the four games, any players, bets, numbers and time line, and
any number and kind of failures:

| Theorem | Assumes | Establishes |
|---|---|---|
| `TypeCorrect` | - | `[]TypeOK`; in particular no balance becomes negative |
| `DrawnStaysClosed` | - | `NoReopenAfterDraw` |
| `ResolvedHasSettled` | - | `[]ResolvedOwesNothing`, whose premise is `"bet" \in Prompt` |
| `ShownStays` | - | `ShownIsFinal`, with the same premise for the bets |
| `DrawHasItsSource` | `"admin" \in Prompt` | `[]DrawnFromSource` |
| `TableIsLedger` | `"bet" \in Prompt`, small set-backs | every behaviour of `Lottery` is one of `RoundLedger` |

Small set-backs: where a TRX table exists and the clock may be set back, it is not set back from
the draw of a period to before its lock (`MaxFaults <= LockLen - DrawOffset`); otherwise bets are
taken on a number that is stored. K3, 5D and Moto do not need it, because a drawn period never
becomes ACTIVE again.

The steps of the two schedulers are first reduced to what the tables show of them, whatever the
game: `Ends`, `Creates`, `Stores`, `StartsJobs`, `DropsJobs`, `ResolvesSome`, `Quiet`. Then:

* `PeriodInv`: what a task is about to draw is ENDED and not drawn, what a settle run has read is
  ENDED and drawn, and a period with a number never runs again (TRX: may still be in its lock).
  So K3 and Moto, which store without a condition, never replace a number.
* `BetInv`: a bet has a row exactly when it is WON or LOST; a `settleBet` call carries the stored
  number; a 5D call that is about to pay is the only one for its bet. So overlapping and given up
  runs pay once.
* `CheckedInv`: a place-bet request that has been checked is for a running period before its
  draw. `SettledInv`: every PENDING bet of what a run has read has a call in that run.
* `DrawnLate` and `BookOpen`, for the ledger: a drawn TRX period is past its draw but for the
  set-backs, and a checked bet's period has no number.
* `SourceInv`, while nothing has failed: an accepted result waits in Redis until the cycle holds
  it, and a block that a draw holds is younger than the lock of all of its periods.

The refinement takes a 5D bet that wins as settled when it is paid: the commit of its row is a
stutter, and a payment that fails leaves its ticket open for good.

`WalletProofs` proves, for any rounds, markets, factors, amounts, vendor transactions and bounds:

| Theorem | Establishes |
|---|---|
| `WalletTypes` | `[]TypeOK`; in particular a balance is negative only after requests overlapped |
| `PenaltiesAreBacked` | `[]PenaltiesBacked` |
| `WithdrawalsEarned` | `WithdrawalEarned` |
| `VendorBooksBalance` | `[]VendorBooks` |
| `HouseKeeps` | `[]HouseKeepsWhole` |
| `RulesAgreeWithPayouts` | `[]IllegalAsPaid` |

* `PenaltyInv`: `rows` is a sequence of records with their columns (`Table`), and a round has been
  penalized exactly when its illegal pair is recorded (`OnceInv`). So a round raises the factor
  once although each bet and each retried settle run looks for illegal pairs again; only an appended
  row can be an open snapshot, and whoever appends one has cleared those there were.
* `WalletInv` is the types together with `EarnedInv`: a row whose flag says it is cleared was earned
  by bets, or waived, at the height its requirement then had. Bets only grow (`BetsGrow`), and every
  operation that raises a requirement opens the row again or waives it, so the flags a withdrawal trusts,
  written under other factors, are right.
* `BookInv`: without overlap what the one vendor call in flight has read still holds (`ReadInv`),
  and the balance differs from the rows by what that call has still to write (`BooksInv`).
* `HouseKeeps` is arithmetic: added up over the ten numbers of a draw no stake wins more than ten
  times itself, so the least of the ten payouts is at most the stakes.
* `RulesAgreeWithPayouts` compares two tables the code keeps apart, the rules' ranges and parities
  and what each game pays. At a place of a game both decide by the number drawn there
  (`ValueAt`): a bet wins when it covers that number, but for the groups of K3, which lose on
  triples (`WinningIs`); and every number of a place is drawn, in K3 by dice that are no triple but
  for the sums 3 and 18 (`NumbersDrawn`). So two groups, or a group and a number, share no winning result
  exactly when the rules oppose them (`PairAsPaid`), and numbers that cannot lose are all numbers of
  the place. What a round has been found for is still found when more bets join it
  (`FoundGrows`), so the rows agree with the bets placed, whenever they were looked at (`FoundInv`).

`RewardsProofs` proves, for any users, gifts, tiers, levels, rules, amounts, days and requests:

| Theorem | Establishes |
|---|---|
| `GiftsRedeemedWithinLimits` | `[]GiftsWithinLimits` |
| `SpinsAreEarned` | `[]SpinsEarned` |
| `BonusesPaid` | `[]BonusesPaidOnce` |
| `WinsAndRebatesCounted` | `[]WinsAndRebatesCountOnce` |
| `VipRewards` | `[]VipRewardedOnce` |
| `SalariesArePaidOnce` | `[]SalariesPaidOnce` |
| `RebatesPaidAsPreviewed` | `[]ClosePaysPreview` |
| `PreviewsAgree` | `[]PreviewsAddUp` |

`DeskInv` and `DeskStep` are what the schemes share: an overlap is never forgotten, and who writes
without one was the only request in flight (`Alone`). On top, each scheme has an invariant of one
shape: the types of its rows and requests; what a lock, a key or a condition keeps in every
interleaving; and, as long as nothing overlaps, that what the request in flight has read is still so.
The properties alone are not inductive, because a request writes what it decided from what it read.

* `GiftsInv`, `StreakInv`, `RebatesInv`: a gift counts its redemptions, the wins of a streak are
  those not yet counted, a rebate row is credited when it is marked.
* `TiersInv`: no invitation tier has two rows, since a request creates the rows of distinct tiers
  that are missing under the inviter's lock; while nothing overlaps and no admin has touched the tiers, the position of a
  row is the rank of its tier (`Rank`, `EveryRank`), so that no two rows unlock one reward.
* `VipInv`: the monthly claims of a month are of distinct levels; without overlap no claim repeats
  another, a credit in flight would repeat none, and a sync in flight has the level of now.
* `SpinsInv`: without overlap what is left on a wheel and what was used today are covered by
  what the deposits of the day earn (`Covered`), and a request in flight read the wheel as it is.
* `SalaryInv`: what the salary job has read of a rule carries what its payment needs, whatever an
  admin has made of the rule since: the number of payments, the limit that was in force, and, until
  the rule was reopened, a due day after every day paid. It needs no absence of overlap, since the
  job alone adds payments.
* `ClaimInv`: without overlap a claim is credited exactly when it is APPROVED, and a verdict or a
  generation in flight has read the claim as it is.
* `TeamInv` needs no absence of overlap: the engine runs one close at a time and a dying engine
  drops it. A bet has one row for an upline, credited when it is settled (`RowsKept`). While a day has not
  changed since its close began, what is due for it, `Work(d)`, stays the same (`WorkStays`), though
  members join; each row of the day is due for it, and `CloseKept` says of the close in flight that
  what it has still to write is all that is missing, or that each unsettled row is among those it is
  about to credit unless a credit failed. So a day that is settled in full has exactly the rows that were due (`DaysKept`).

What a closed day paid is then compared with what is shown: the close goes from each bet up the
chain, the preview from an agent down the team. The layers of a tree without cycles tell its members
apart (`UplinesDiffer`), so the two agree where no demo account is in between (`ChainOfTeam`), and
the sums are the same terms by bet, by member, by layer and by day (`ClosedDayPays`, `TotalIs`,
`PersonByPerson`).

`Sums` has the facts about `SumFunctionOnSet` and `SumFunction` these proofs share: an element taken out
or changed, a part, a pointwise bound, a row appended; zeros left out (`SumSupport`), other names for the
same terms (`SumRename`), rows and columns exchanged (`SumExchange`), terms in groups (`SumGroups`). The library's induction over finite sets takes
an operator, which the provers cannot instantiate; `SetInduction` derives the same for a set
of subsets from the first-order theorem that the strict subsets of a finite set are well-founded.

`SocketsProofs` proves `ReplacementIsKept`, that is `SocketsSpec => []ReplacementKept`, for any
replicas, sockets and topics: without a failure, every removal under way expects a socket that is
not the browser's current one (`RemovalsAreOld`), since sockets are numbered in the order they
connect and a removal names the one it was called for.

Only model-checked:

* All liveness, which is out of the prover's reach: `BetsSettled`, `DepositDecided`, `PaidIsCredited`,
  `PayoutReported`, `BetsPaid`, `ViewsCatchUp`, `LeftoversPruned`, `RoutedAgain`.

Assumptions on the constants are `RoundAssumption` in `WingoRound`: the draw window is
inside the lock window, which is inside the slot, and stakes are positive.
`TablesAssumption` in `RoundTables` asks for the same of the other games,
`DigitAssumption` in `TronRound` that each block stands for a number, and `ToleranceAssumption` there
that the tolerance of a block's age is a natural number.
`PaymentAssumption` in `PaymentOrders` asks for deposits and withdrawals with distinct
ids, positive amounts, and room for one callback; `OrdersAssumption` for finitely many orders.
`GiftAssumption` asks that a gift may be redeemed once at least (`admin/gift.ts:82` validates it) and
for finitely many spin rules, `BonusAssumption` and `VipAssumption` for finitely many levels,
`SalaryAssumption` for a list of slabs with positive rewards, `VendorAssumption` for finitely many
vendor transactions. `RebateAssumption` asks for finitely many members and levels, referral trees
in which who registers later has the higher serial number, and a rate for each paid layer of each
level. `FiveDAssumption` in `GameRules` asks that the draws of 5D are
digits and include `FiveDSamples`; `SpentAssumption` in `Wallet` that what an account has bet before the
behaviour begins broke no rule; `WagerAssumption` that the bets of a market are of one game, as those
of a round are, and for positive amounts and factors. `SettingsAssumption` in `SettingsCache` keeps
readers and admins apart and asks for one attempt at least; `SocketsAssumption` is
as weak.

## Not modelled

* Accounts, sessions, OTP: one-shot reads and writes around the user's row, without state that
  several actors work on over time.
* Commission: the calculator and its scheduler are not started (ADR-0011); their tables are
  still read and cached, and in `CacheCatalog`. So are the admin's report pages: what they cache, not
  the figures they compute.
* The IP risk job: it writes one column from one query.
* GreyTop: its routes are commented out. `calculateTeamRebateForBet` and `runManualSettlement` have no
  callers. The weekly bonus is disabled.
* The circuit breaker of `redis.ts`: while it is open a process bypasses Redis, which for the
  caches is the failure they have.
* Amounts of bonuses, the odds of a spin, what a K3, 5D or Moto win pays: arithmetic on one row.
* Team rebate: the figures shown are rounded to three decimals, and the list of one person's bets ends
  after 500 of today's; amounts are naturals here. Demo flags do not change during a behaviour.
* The default tiers of the lucky wheel, used while no rule is in the database; a configuration without
  its row, and `DISABLE_CACHE`.
* A list of drawn TRX candidates is cut after 50 (`take: 50`); the model has fewer.
* `WebSocket.broadcast()`, which nobody calls, and the set of all clients, which nothing reads.
* Schema, seeds, build and deployment; the unique keys are guards where code relies on them.

Abstractions that bound the models: a request's reads before its first write are one step
unless something may change between them that the rest depends on; a cron job of a midnight has begun before the
next midnight; a hash of the cache has one page, so that its expiry is weakly fair.

## Plan

Every safety and action property of the runs is proved; what is left to TLC is liveness. What would add
most next is breadth: the bank cards and wallets an account withdraws to, and the figures of the
admin's reports, which are read from the tables that the modules here have.

## Running

`tlc -config WingoRound_rounds.cfg MCWingoRound`, and likewise for the other configurations: each
is named after its module without the MC, with what it is about after an underscore where a module
has several. `tlapm M.tla` checks the proofs of a
module whose name ends in Proofs. The longest runs take two to three minutes
on two cores.
