# Specifications of lets-bet

TLA+ specifications of the parts of this repository that take money, keep records or
serve requests, the TLC configurations that model-check them on small instances, and
theorems about them that TLAPS checks for every size.

The repository holds two systems that share a product and no code:

* **the Go platform** (`cmd/`, `internal/`): services for wallets, sports bets,
  a crash game, jackpots and payments by M-Pesa and Flutterwave, over
  PostgreSQL, Redis and NATS;
* **the Laravel platform** (`platform/`): a site with its own users, wallet,
  crash game, card game (truco), PIX deposits and withdrawals through the
  provider Asaas, bonuses and affiliates, over PostgreSQL.

## 1. Inventory

Each row names the state a part keeps, what it does, what is hard about it and
what makes it correct. `PROJECT.json` lists the parts with their files (of
a directory that is not modelled, the longest ones) and status, and under
`hazards` the hard spots, each at its line.

### Go

| Part | State | Operations | Hard | Correct when |
|---|---|---|---|---|
| Wallet service | rows of `wallets`, `transactions` | `Credit`, `Debit`, `Apply`, `ApplyTx` | statements of concurrent transactions interleave; a commit may be lost | no lost update, no overdraft, audit trail unbroken |
| Place bet | `bets` and the wallet | `Execute`: eligibility, limits, tax, two movements, insert | failure between two movements | bet exactly when paid |
| Tax engine | regimes per country | `ApplyStakeTax`, `ApplyPayoutTax` | rounding, threshold | nearest cent, no tax on the stake, no cliff |
| Wallet repository | the row and its version | read, `UpdateBalance`, `CreateTransaction` | the lock ends before the update, the balance was read before it | nothing added after the SELECT is overwritten |
| Crash engine | current game, rows, three channels | `StartGame`, `PlaceBet`, `Cashout`, ticks, crash, settle | two kinds of goroutine on one pointer, bounded channels, timeouts | stakes taken once whatever the caller is told, a cash-out is final, every game ends unless the manager jams its own channel |
| Payments | deposits of M-Pesa and Flutterwave | push, callback, mark, payout | repeated, early and lost callbacks | credited no more often than reported, by what was paid |
| Jackpots | jackpot, tickets, draws | create, purchase, draw | reads and whole-row writes without a lock | a prize is covered, and paid once |
| Bet editing, live bets | bet, wallet, match | `PlaceLiveBet`, `EditBet`, suspend | money moves before the bet is saved | the bet stands for what was paid |
| Live prices | outcomes, events on the bus | `UpdateLiveOdds` | written outside the lock, publication only tried | the last event published is the price in force |
| Odds engine | cached odds | sync, quote | a lifetime that starts late | no quote older than promised |
| Clients of feeds and messages | token bucket | request, retry | a bucket without a lock | the pace is kept |
| Compliance | stakes, level, age, exclusion | checks before a bet | checked here, placed by the caller later | limits of a day and a month |
| Accounts | users' rows, tokens | verify, update, refresh | rows written back whole, tokens that outlive them | only the provider, or who writes the row, verifies |
| Catalogue | events, markets, outcomes | reads and updates | missing columns and whole-row writes | teams and score are kept |
| Virtual sports | games | create, start, bet | a status nothing sets | no stake for a game that cannot start |
| HTTP services | requests, Redis window, gauge | boot, middleware, shutdown | panics, hanging handlers, clocks | limit respected, nothing closed under a handler, it stops |
| Id generator | last second, sequence | `GenerateID` | clocks set back, sequence comes round | ids in order |
| Leads | numbers of the landing page | check, insert | two forms of one number, check before insert | one lead per phone |
| Bus and hub, admin, security, transport, config | — | — | — | plumbing |

### Laravel

| Part | State | Operations | Hard | Correct when |
|---|---|---|---|---|
| Wallet and wagering | `users.balance`, `bonus_balance`, `wagering_*` | debit (real money first), credit, cash-out split | two purses | stake returns to where it came from |
| Crash game | `crash_rounds`, `crash_bets` | poll, bet, cash out, create, crash | no server: any request may advance a round; conditional updates outside transactions; settings read anew | one open round, no cash-out above the crash, every bet settled |
| Truco | `truco_matches`, `truco_seats` | open, join, start, act, forfeit, expiry | ghosts' chained replies, turn clock, check before lock | stakes and prizes agree, the match ends, ghosts answer |
| Deposits | `deposits`, the provider's charge | store, show, verify, notice, settle, expire | the same payment is heard of by many; calls to the provider between reads and writes | credited, and once |
| Bonuses | `bonus_codes`, redemptions | typed codes, campaigns, fixed codes, cashback | limits read with and without locks | within limits, wagered |
| Withdrawals | `withdrawals`, the provider's transfers | request, pay, validate, notice, reject | a call between two transactions, repeated and early notices | money is held, returned or sent, once |
| Affiliate commissions | `affiliate_commissions` | open, preview, confirm, pay | preview and confirmation are apart | a commission is paid by one withdrawal |
| Fees, finance ledger, metrics, limits, fraud scores, ghost traffic, settings, admin | reports and forms | — | — | plumbing |

### How they interact

* `PlaceBet` runs `ApplyTx` twice and its own insert in one transaction; the tax
  engine says how much each movement is. The Go crash engine writes wallets with
  statements of its own, and so does the wallet repository.
* Jackpots, live bets, bet edits and virtual games reach the wallet through an
  interface: what it took and gave is counted in their modules, and any of its calls
  may fail. M-Pesa callbacks credit through the wallet service.
* The Go components share no other state: no service wires the engine of odds to the
  feeds' cache, compliance to bet placement, or match events to settlement.
* On the Laravel side everything meets in the row of the user: bets, prizes,
  deposits, bonuses and withdrawals lock it before they change money. Each module
  below keeps that row, and the calls into `WalletService` and `WageringService`
  are part of the action of the caller.
* The provider (Asaas) is reached by calls made between transactions, and reaches
  back by notices that it may repeat, delay and reorder. It is part of the modules
  as external actions.
* Nothing on the Laravel side runs by itself except three scheduled jobs; rounds
  and turns advance because pages poll.

## 2. Modules

| Module | Models | Extends |
|---|---|---|
| `Tax` | `tax.go` in cents and basis points | |
| `TaxQuotes` | successive quotes on one bet; the tax properties | `Tax` |
| `Ledger` | the abstract promise of the wallet's package comment | |
| `Wallet` | wallet service and `PlaceBetUseCase`, statement by statement | `Tax`, instantiates `Ledger` |
| `WalletRows` | `wallet_repository.go` | |
| `CrashEngine` | `internal/core/usecase/games` and the game repositories | `Tax` |
| `HttpService` | the `main` of each service, `server.go`, middleware, `redis_limiter.go` | |
| `Ids` | `snowflake.go` | |
| `Leads` | `cmd/leads` | |
| `Payments` | `tenant/ke`, `mpesa_handlers.go`, `tenant/ng`, `tenant/gh`, deposit repositories | |
| `Jackpots` | `internal/jackpots` | |
| `SportBets` | `internal/sports/edit`, placement and suspension of `internal/sports/live`, the bets' repository | |
| `LivePrices` | `internal/sports/live/odds.go` | |
| `OddsQuotes` | `internal/core/usecase/odds` with its cache | |
| `StoredOdds` | the other odds cache, in package `storage` | |
| `ProviderClients` | the clients of Sportradar, Genius and Africa's Talking | |
| `Compliance` | `internal/compliance/bclb` | |
| `Accounts` | `user_repository.go`, `kyc_handlers.go`, `smileid.go`, `jwt.go` | |
| `CatalogRows` | the repositories of matches, markets and outcomes | |
| `VirtualSports` | `internal/virtualsports` | |
| `CrashRounds` | `CrashEngine.php` | |
| `Withdrawals` | `WithdrawalPayoutService.php`, `AffiliateCommissionService.php` | |
| `Truco` | `TrucoEngine.php` | |
| `Crediting` | the abstract promise of the transactions of `settlePaid` and the bonus page | |
| `Deposits` | `DepositController.php`, `AsaasWebhookController.php`, `DepositSettlementService.php`, `PendingDepositCleanupService.php`, `PlayerBonusService.php` | instantiates `Crediting` |
| `…Proofs` | theorems: `WalletProofs`, `CrashRoundsProofs`, `WithdrawalsProofs`, `DepositsProofs`, `TrucoProofs`; `SportsbookProofs` (the modules of `MCSportsbook` but `StoredOdds`), `ServicesProofs` (`HttpService`, `CrashEngine`, `Ids`, `Leads`) | the module they are about |
| `SumTheorems` | lemmas about sums over finite sets, for the proofs about money, stakes and requests | |
| `MCServices` | values for TLC, and the Go processes side by side | `HttpService`, `CrashEngine`, `Ids`, `Leads` |
| `MCSportsbook` | values for TLC, and the Go components side by side | `SportBets`, `LivePrices`, `Jackpots`, `Payments`, `OddsQuotes`, `StoredOdds`, `ProviderClients`, `Compliance`, `Accounts`, `WalletRows`, `CatalogRows`, `VirtualSports`, `TaxQuotes` |
| other `MC…` | values for TLC | the module of the same name |

`MCServices` and `MCSportsbook` put components next to each other that share no
variable. Their variable `active` names the one a behaviour is about; the others stand
still, so the states add up instead of multiplying.

Definitions called "Variant with a bug" are not used by the specifications. Each
stands before the definition it could replace and shows which property notices
the mistake.

### State and actions against the code

**Wallet.** `wallets` and `transactions` are the committed tables; a request has
its own uncommitted row (`view`) and audit rows (`rows`), and `lock` is the row
lock. `SelectForUpdate`, `UpdateWallet`, `InsertTransaction`, `InsertBet` and
`Commit` are the statements of `ApplyTx` and `Execute`; `Fail` is an error of any
of them, and `Commit` may lose its acknowledgement. `Credit`, `Debit` and
`PlaceBet` open a request with the movements it will make. PostgreSQL runs at READ
COMMITTED: a statement sees committed rows and its own.

**WalletRows.** `walletRow` is the row; a call in `saver` has read it (`GetWallet`,
`GetBalance`), then selects the version in a transaction that ends with the statement
(`SelectVersion`), then updates (`UpdateBalance`). The UPDATE commits by itself, so the
caller may be told of an error after it. `added` is what every update that was made added,
whatever its caller was told; `moved` is how far the balance had moved between a call's read
and its SELECT, and `unseen` the sum of that over the updates made. Nothing but tests calls
`UpdateBalance`. The crash game debits the same rows by statements of its own that leave the
version alone (`game_bet_transaction.go:34-38`); they are in `CrashEngine`, not here.

**CrashEngine.** `proc` has the manager goroutine (0) and one loop goroutine per game,
each a small program counter with the game, request and odds it has read; `commands`,
`betChan` and `cashChan` are the channels, `due` the loops whose ticker has fired, and
`up` falls when a goroutine panics. `games` has what memory and table say of a game,
`bets` and `balance` the tables. A caller (`Starters`, `Bets`, `Cashouts`) queues a
request, waits, and gives up if it is `Impatient`; its request stays queued. A write that
commits may be answered by an error (`failed`), so that a caller who is told of a failure may
have its bet or its cash-out. Seconds pass wherever the goroutines are. The manager that has
found the crash point reached sends to the channel only it empties: when the loops have
filled it meanwhile it is `Jammed`. `Settle` is there and finds `current = 0`, as in the code.

**HttpService.** `phase` runs from `boot` through `serving`, `draining` and `closing` to
`exited`; `Main(service)` is the sequence of steps of that service's `main`, `booted`
those done, `deferred` what it will close. A request goes through `HTTPMiddleware` in the
order of the chain and reads the clock (`now`), runs the limiter's script on `entries`
and `expires` at a later instant, then its handler; the handler answers, panics or hangs.
`Signal`, `Drained`, `ShutdownTimeout`, `Close` and `ListenFails` are the shutdown.

**Ids.** `GenerateID` is one step under the generator's mutex, or two when the sequence
comes round and it waits for the next second; `clock` jumps either way at any time.

**Leads.** `leads` is the unique column; a call in `call` is asked, checked
(`phoneExists` in every form) and inserted in separate steps. `before` remembers who
had been accepted at its check.

**Payments.** `push` is a deposit from the client's request to the answer of the phone,
`deposit` its row, `callback` the handler of one notice: find, credit, mark. Notices may
come before the row, twice, or never. `credited` counts the credits that were committed;
a handler whose credit answered with an error marks nothing, and its credit may stand. A
Flutterwave call is the set of its outcomes (`charge`).

**Jackpots.** `pot` and `ticket` are rows; `buy` and `draw` hold the jackpot that a
purchase or a draw has read and will write back whole. `crossed` remembers pots whose
draws overlapped, `credits` the prizes the wallet took. Every write may be made and answered
with an error.

**SportBets, LivePrices.** `place` and `edit` are calls between their reads and their
writes, with the bet as read; `money` counts what the wallet took and gave for a bet;
`untidy` remembers bets whose edits overlapped, or moved money and wrote no row. No code looks
at the sign of a new stake, so the edits ask for negative ones too; the column refuses what is
not positive. An update of a price finds its outcome under the read lock and writes it in
later steps without; its publication may fail, which is only logged (`sent`, `lost`).

**OddsQuotes, StoredOdds, ProviderClients.** A price is the time at which it was read
from the provider; a cache entry has that time and the end of its life. The sync stores
matches one after the other, a quote prices selections one after the other. A caller of a
feed refills, sees and takes tokens in separate steps where the client has no lock.

**Compliance, Accounts, CatalogRows, VirtualSports.** A call is its sequence of reads,
each of which may fail, with what it has read. `half`, `hour` are the clocks; a day begins at
midnight of UTC (`Truncate`) and a month at local midnight, `Zone` half days apart. Who
creates a user or writes his row says whether he is verified (`said` keeps who did), as the
repository takes whatever its callers, who are not in the repository, pass. `said`,
`written` and the flags in `check` remember what happened on the way, so that a property
can say under which circumstances a row is right.

**CrashRounds.** Rounds and bets are sequences, ages of rounds are counted in
ticks up to the end of `Curve`. A poll (`advanceLight`) is up to four unlocked
statements, so `Poll`, `PollStart`, `PollCrash`, `PollLose` are four actions and
`Die` ends a poll between them. A call (bet, cash-out) is one transaction that
locks round, bet and user: what precedes the first lock is one action (`Cashout`,
`PlaceBet`), the rest another (`Settle`, `InsertBet`). `SetMaxMultiplier` changes
the setting at any time.

**Withdrawals.** `pay`, `notice` and `form` hold what a payer, a receiver of notices
and a confirmer of commissions have read and not applied yet; all else is one
transaction per action. The provider's question whether a transfer may go is answered by a
receiver in two steps, as nothing locks the row in between: `ValidateTransfer` reads the
withdrawal, `LinkTransfer` saves the link and answers by what was read. The kinds of faults are
listed in `FaultKinds`, and a configuration says which may happen.

**Truco.** One match. A request is one transaction, except that `start2v2` checks the
room before it locks it (`StartRequest`, `Start2v2`). The moves of the ghosts belong
to the transaction of the request they answer: `ghosts` says that they are being
made, and nothing else moves until they are done. A card is its strength; deals are a
constant, chances are choices.

**Deposits.** `pc`, `on` and `plan` are what a process does next, on which deposit,
and the bonuses a settlement has decided on. A settlement is two steps, at its locks
and at its commit, because campaigns are read without a lock. The provider's charge
and its notices are external (`Pay`, and the answers in `Fetch`, `AskExpired`,
`DeletePayment`). When the QR code fails, the row is deleted and the charge may stay open at
the provider (`CreatePixFails`). `Overlap` is the set of deposits on which an expiry may run while
somebody else works on them, `Failing` the set of processes whose calls to the
provider may fail.

### What the models leave out

Refused calls that change nothing; texts, logs, statistics and what pages show; gateway
fees; margins, odds as numbers and random outcomes, except the crash points of the crash
games; wagering progress outside the crash game; the finance ledger of truco and crash;
the local `confirm()` of deposits; a charge that is paid before the call that created it has
returned; the Mercado Pago notice, which settles as the Asaas notice does; the contents of
what providers and feeds answer. Money is in cents, or in small units where only sums matter.

### Not modelled

* **Events and websocket hub**: the bus hands publications to the NATS library and nothing
  subscribes through it; the hub runs in the games service, but nothing sends on its
  channels, so it never has a client.
* **Jackpot, bet and sport-metrics repositories** (PostgreSQL): the jackpots' tables are in
  no migration and their methods are not those of the service's interface; of
  `bet_repository.go` only `InsertTx` is used, and `Wallet` has it.
* **Admin and security (Go)**: reports computed from interfaces that nothing implements,
  much of it constants. **Transport, config, validation, logging**: decoding and types; the
  transport handlers are routed by no service. **Migrations**: a command around a library;
  the constraints that matter are in the modules of the tables.
* **Settlement loop and match events (Go)** only log. No code fills the map of live
  matches: `SportBets` and `LivePrices` assume a filled one.
* **Laravel**: clients of the providers (what a provider does is external in `Deposits` and
  `Withdrawals`), finance ledger and metrics, limits and fraud scores, ghost traffic,
  administration forms, pages; the daily cashback and the new-player bonus.

## 3. Runs

| Run | Instance | Shows |
|---|---|---|
| `wallet` | three requests of any kind on a funded wallet, an empty one and a user without one | no lost update, no overdraft, the version guard never fires, answers are true (a bet exactly when paid), `Ledger` is implemented, every call is answered |
| `services` | a service with two requests; the crash engine with two bets, two cash-outs, two starters, two games, a channel of two, a starter and a bettor who give up; a generator; three requests for leads | what is admitted, taken and answered is right, a cash-out is final, games end unless the manager is jammed, a service asked to stop stops |
| `sportsbook` | thirteen components, each with two or three calls, writes whose answers are lost, publications that fail | money moves no further than what stands for it, prices are current, records agree, no update of the wallet row is overwritten from the SELECT on, the tax is right |
| `crash` | two rounds, two polls, two calls, deaths, stalls, changing maximum | money and rounds agree under every interleaving |
| `crash_live` | one poll, one call, two rounds, two bet panels, no deaths, no stalls | no late bet, every round crashes, every bet is settled |
| `withdrawals` | one payer, two receivers, two confirmers, the provider's questions, refusals | money, commissions and ledger agree with withdrawals |
| `withdrawals_live` | every fault | a transfer that is done reaches the ledger |
| `withdrawals_two_admins` | two payers | **violated**: two transfers for one withdrawal |
| `withdrawals_failed` | failed transfers | **violated**: refunded and payable again |
| `truco` | both kinds of match, host, guest, a guest who cannot pay, a page each | whole matches: money, cards, special rules, end |
| `deposits` | two deposits of a player, two receivers, a checker, an expirer | credited, and once; bonuses within limits; `Crediting` is implemented |
| `deposits_expiry` | the same | **violated**: PAID overwritten as EXPIRED and credited again |

The three violations are findings: `PROJECT.json` quotes the check or message that
promises the contrary and says at which line the code breaks it.

Some properties are conjunctions of named parts, each about one component or one
question; the parts are defined, with their comments, in the modules:

| Property | Parts |
|---|---|
| `MoneyAddsUp` | `SlipsPaidApart` (edited bets), `PrizesAreCovered` (jackpots), `CreditedAsReported` (M-Pesa) |
| `PricesAreCurrent` | `PricesPublishedApart` (live prices), `QuotesAreRecent` (quotes), `PaceKept` (feeds) |
| `RecordsAgree` | `LimitHeldApart` (compliance), `VerifiedByProvider` (accounts), `CatalogKept` (catalogue), `VirtualGamesStayShut` |
| `RequestsAccountedFor` | `DrainedBeforeClosed`, `GaugeCountsPanics` |
| `RoundsConsistent`, `MoneyAgreesWithBets`, `BetsFitTheirRound` | type and `OneOpenRound`; `WalletAgreesWithBets`, `StakeReturnsToSource`; `CashedOutBelowDrawn`, `LostOnlyAfterCrash` |
| `EverythingEnds` | `EveryRoundCrashes`, `EveryBetSettled` |
| `MoneyIsHeld`, `SentAndBookedOnce` | type, `HeldOrReturned`, `CommissionsFollowWithdrawal`; `BookedOnce`, `OneTransfer` |
| `StakesAgree`, `RulesKept` | type and `WalletAgreesWithMatch`; `HandsInStep`, `ElevenIsWorthThree`, `DrawDecides` |
| `TablesAgree` | type and `MoneyIsAccountedFor` |
| `AnswersAreTrue` | `BetIffPaid` and the agreement of replies with rows |

**Bounds, and why they are enough.** Interference in this code is between pairs: two
holders of a stale read, or one and a settlement. Each instance has two processes of
every kind that can interfere with its own kind, and a third where a third party
matters (three requests, three updates of a price, three savers: two that conflict and
one that overtakes). Two rounds or games let a late step of the first meet the second;
two notices are the least that can repeat. Balances are chosen so that funds suffice for
one request and not for two, stakes so that they straddle real money and bonus,
multipliers so that a crash point lies on, below and above a changed maximum. Scores and
hands of truco are not bounded: a match ends at 12. Every counter that is cut off is cut
off in a guard, by a named constant:

* `MaxWithdrawals`, `MaxTransfers`, `MaxBalance`, `MaxNotices`, `MaxBet`, `MaxPayout`;
  `MaxRounds` and `MaxAge` in both crash games;
* `Horizon` (instants of the limiter's clock; with a `Window` of 3 a whole window, its edge
  and the next begin are seen), `Limit` 1 with two requests;
* `Capacity` 2 stands for the ten commands of the code's channel, so that two goroutines and
  two starters fill it; `Modulus` 110 gives few crash points, early and late;
* `SequenceCount` 3 stands for 1024, so that the sequence comes round within `Seconds` 3
  and `MaxIds` 5;
* `Ages` (`OddsTTL` 2, `Lag` 1), `Ticks` (`Interval` 2, `MaxTokens` 2), `Halves` (days of two
  halves, weeks of two days, months of three; `Zone` 1, a local midnight in the
  middle of a day of UTC), `Hours` (access for one, refresh for two);
* `Editors` has one caller, whose copy grows stale by his own later calls; one slip, one
  pot, one push and one user, since what is asked of each does not involve another.

`CHECK_DEADLOCK FALSE` stands where the system may really come to rest: services that have
exited, quotes that reach `MaxPayout`, calls that have all been answered, withdrawals and
deposits that are all closed. In the other runs every reachable state has a step.

**Symmetry** is used for interchangeable processes in the safety runs that
need it, never with liveness.

### Fairness

* `wallet`: weak fairness of each request's next statement. A client waits for its
  statement and PostgreSQL grants a lock that is free; the rollback in `defer` gives it
  up. Nothing makes a request arrive.
* `services`, a service: its shutdown goes on (`Drained`, `ShutdownTimeout`, `Close`): these
  are steps of `main` and of a timer. Nothing makes a handler return: it may hang.
* `services`, the engine: goroutines are scheduled and tickers fire, while the process is
  up. Nobody has to call.
* `crash_live`: time passes, and polls and calls that have begun go on. Open pages poll
  every second, so a poll is always on its way. Every process is live: a poll that
  dies half-way is excluded here, because the code never repeats its work
  (hazard at `CrashEngine.php:367`).
* `withdrawals_live`: begun steps go on, and a notice is delivered again and again until
  it is received (strong fairness, since a receiver may be busy).
* `truco`: ghosts' replies run in a request that has begun; a turn's time runs out and
  the page's poll notices. Players need not move.
* `deposits`: begun requests go on; notices that are outstanding are delivered. Players
  need not check, and the expiry job need not run.

### What holds only under conditions

`BetsOnlyWhileWaiting` and `EverythingEnds` need requests shorter than the betting time
and polls that do not die. `SentAndBookedOnce`, `MoneyIsHeld` and `ClosedIsFinal` need a
provider whose answers arrive and whose notices do not overtake them: the code keeps no
trace of a call whose answer it has not seen. `StakesAgree` needs one page of the host:
with two of them in the constant `Pages`, TLC finds the second stake that
`TrucoEngine.php:170` lets through. The first part of `CreditedOnceApart` is
about deposits whose expiry does not overlap with other work. `PaidIsCredited` needs
notices whose receivers can ask the provider, because a failure is answered with 200 and
never repeated, and a player none of whose other deposits went from PAID to EXPIRED; it does
not speak of a charge left open whose row was deleted with its QR code.

`StakesTaken` and `CashedOutIsFinal` say nothing of a caller who was told of a failure or gave
up: his bet or cash-out may stand. `EveryGameEnds` excepts a `Jammed` manager, which TLC
reaches: nothing bounds the time between its comparison and its send.

The Go components lock little, so several of their properties say what holds of calls
that do not overlap, together with what holds always: `SlipsPaidApart`, `PrizesAreCovered`
(paid once), `PricesPublishedApart` (and the last Publish did not fail), `LimitHeldApart`,
`PaceKept` (of the clients without a lock), `CatalogKept` (no stale copy written back). The
flags that say so (`untidy`, `crossed`, `apart`, `lost`, `alone`, `raced`, `spoilt`) are set
by the step that overlaps or fails. What holds always is: an edited bet is worth no more than
what was placed and debited for it; a prize is covered by what its jackpot began with and was
contributed; a match counts no more changes than it had updates; a quote is no older than
`OddsTTL + Lag`; nobody but the provider or a writer of the row verifies a user.

`BalanceAddsUp` says what the version in the WHERE keeps: from a call's SELECT on, no update of
another is overwritten. What others add between its read and its SELECT is lost by the code,
and `unseen` is how much; with two savers TLC reaches states in which it is not zero, so the
balance is then not the sum of what was added. `CreditedAsReported` bounds the credits of a
deposit by its callbacks on both sides: no credit without a callback that reports a payment,
and none lost once the handler knows of it. A repeated callback credits again, and the
property does not say otherwise: the handler does so.

`AdmittedWithinLimit` is about requests decided in the window in which they read the clock,
and not in its first instant.

### Differences met while modelling that no run repeats

*Wallets.* The audit row of a debit holds the absolute amount where
`test/integration/wallet_test.go:224` expects a negative one. The repository's
`UpdateBalance` loses an update of a caller that read before another's
(`wallet_repository.go:69`), where the test at `wallet_comprehensive_test.go:521` is named
for concurrent updates that do not lose money. `UpdateTransactionStatus` writes a column
that `transactions` does not have.

*Crash engine (Go).* Nothing calls `Run`. The loop of one game can clear the next one, and
panics on a `currentGame` another has cleared. A tick divides the crash point by 100,
`shouldCrash` does not. Cash-outs credit no wallet,
`settleBets` settles nothing, `AtomicAutoCashoutWithCredit` returns without ending its
transaction when it finds no row, and no code sends `STOP`.

*Crash game (platform).* A bet request that reaches a round in flight runs the automatic
cash-outs and always rolls them back (`CrashEngine.php:417`), so nothing executes them.

*Services.* The window called sliding is aligned to the clock, a key expires one window
after its last admission, and a refusal can carry a `Retry-After` of 0 or less. An IPv6
peer is cut at its first colon, which no limiter can parse, so it is let through. A panic
leaves the gauge high. Preflight requests reach CORS only on routes without methods.
`cmd/migrate` exits past its deferred `Close`. A service that the id generator does not
know shares worker 9998 with every other such service. An id that ends a wait carries the
second the wait began in, and may repeat that second's first id. The landing page's
lookup of a phone of ten digits misses its plain form, so the phone can be registered twice.

*Sports.* Migration 6 requires a `bet_id` no statement sets. A live bet debits no wallet,
while an edit downwards refunds. An edited bet has a reason, one that was not has NULL,
and lists of bets fail on it. A jackpot that was won can be opened again by a purchase
that read it before. A virtual game is created in a status from which it cannot start.
Reads of markets and outcomes always fail. The odds cache of package `storage` gives back
empty lists only.

*Payments, accounts, compliance.* The handler of the STK callback is at `/stk-callback`;
the client sends a `CallBackURL` that ends in `/callback`. A callback that comes before its
row is lost for good. The client of Africa's Talking sends no key. A refresh token is
renewed by itself without end. `SetSelfExclusion` and `UpdateUserLimits` store nothing; an
exclusion without a date does not stop a bet; a read that fails counts as zero stakes.

## 4. Theorems

Liveness, `ENABLED` and recursive operators are beyond the prover and stay with TLC, and so
is induction over data, but for sums over finite sets, which `SumTheorems` derives from
well-founded sets. Recursion in the modules is through folds of the community modules.

**Wallet** (`WalletProofs`), from `WalletAssumption` and `RegimesAssumption` alone, for every
number of users, requests, amounts, stakes and regimes:

* `TypeCorrect`: `TypeOK` is inductive together with the type of the pending movements. The
  run checks it as part of `NeverOverdrawn`.
* `TrailUnbroken`, `SolventWallets`, `NoConflict`: the safety invariants, and
  `VersionsCount` (the version column counts the movements), follow
  from one inductive invariant `IInv` (in `Wallet`). None is inductive alone. `IInv` adds
  who holds which lock (`LockHeldBy`: a request past its SELECT holds the lock of its
  wallet) and what a request holds in hand (`Agrees`: its uncommitted row is the committed
  one continued by its uncommitted audit rows, and the row it has read is the one it will
  overwrite). A commit then replaces the row that was read, because no other request can
  have committed in between.
* `WalletIsolation`: two requests inside a transaction on one wallet are the same.

* `TrueAnswers`: what callers are told is what was committed. `AnswersInv` strengthens it
  by what a transaction in progress owes its caller: a request that has committed nothing
  has left no trace, and the movements in hand are those its kind of call makes (`Owed`,
  `Taken`, `Paying`).
* `LedgerImplemented`: `Spec => ImplementsLedger`, the refinement. The mapping shows a wallet as
  its committed row; every statement but COMMIT is a stutter, and a COMMIT posts the
  movements in hand one after the other, all on one wallet (`CommitPosts`).

The proof has one lemma per action (`SelectIInv`, `UpdateIInv`, `InsertIInv`,
`CommitIInv`, `InsertBetIInv`, `RollbackIInv`, `CallIInv`), over lemmas about audit
trails (`ContinuesAppend`, `ContinuesConcat`).

**Tax** (`SportsbookProofs`), for every regime the engine accepts and every amount:
`NearestCent`, `StakeKept` and `NoCliff`, by lemmas that bound the rounding
(`RoundsToNearest`), keep the tax within the amount (`TaxWithinAmount`) and make it
monotone with slope at most one (`TaxMonotone`).

**Wallet repository** (`SportsbookProofs`), from `WalletRowsAssumption`, for every number
of callers and every increment: `BalanceIsTheSum`. The property alone is not inductive:
an update writes what its caller read. `RowsInvariant` adds `SelectedIsOfTheRow`, that while
the row has the version a call has selected, its balance is what the call read and what had
moved by its SELECT, and `Exists`, that what was read is a row with a version. An update that
finds its version then adds to what is there, less what it had not seen.

**Leads** (`ServicesProofs`), from `LeadsAssumption`, for every set of phones and callers:
`TwiceOnlyWhenTogether`. `LeadsInvariant` adds that accepted requests have rows, each its
own (`RowsOfTheAccepted`), and that a request past its check found no form of its number
among those accepted before it (`CheckedAgainst`); `BothForms` says that of a number of 11
digits both forms are looked for.

**Ids** (`ServicesProofs`), from `IdsAssumption`, for every clock, sequence size and set of
generators: `IdsStayInOrder`. `IdsInvariant` adds `Ahead`: what a generator keeps is at or
past every id it returned, and the second it waits in is its last one.

**Services** (`ServicesProofs`), from `HttpServiceAssumption`, for every finite set of requests,
every set of clients, limit, window and clock:

* `LimitIsKept`: `AdmittedWithinLimit`. What is counted is not what the limiter stores: it keeps
  instants of several windows, forgets the key when it expires and counts late requests with
  the others. `LimiterInv` says that the instants counted in the current window are stored
  (no key expires before the window of its entries ends) and that at most `Limit` of those stored
  are of the current window; a window that has passed is not added to (`InstantsAfter`).
  `WindowBounds` and `WindowOrder` are what the proof knows of the division.
* `NoRequestLost`: `RequestsAccountedFor`, with `RequestsInv` (only an answer tells of a panic,
  nothing arrives before main is done) and `MainInv` (what main has opened so far is what it will
  close).

One inductive invariant, `HttpInv` in `HttpService`, and one lemma per action.

**Sums** (`SumTheorems`): a sum over a finite set grows by the value of a new element, adds
up over disjoint sets, and depends on nothing but the values (`SumAdd`, `SumUnion`,
`SumCongruence`, `SumPlus`, …). `SumFunctionOnSet` is a recursive function; that its equation
has one solution is shown without induction over an operator. The number of pairs
`<<i, k>>` with `1 <= k <= f[i]` solves it, and a smallest set on which two solutions differ
(`SmallestSet`) would not be smallest.

**Crash game of the platform** (`CrashRoundsProofs`), from `CrashRoundsAssumption`, for every set of
users, stakes, crash points, house maxima, polls and calls, and every curve that starts at
1.00 and never falls:

* `RoundsStayConsistent`, `MoneyIsKept` and `BetsAlwaysFit`, from one inductive invariant
  `IInv` (in `CrashRounds`). It adds that every round but the last has crashed, that no round
  crashes above what its seed commits to, that what a poll or a call has read is still there
  and, where the poll is about to start a round or to lose its bets, that the round is due
  or has crashed, and that a bet's parts add up and nothing was paid before the
  cash-out. The proof goes in three parts, for rounds (`NextRounds`, `RoundsKept`), for bets
  and money (`NextMoney`, then one lemma per kind of movement) and for the processes
  (`NextControl`).
* `CrashIsFinal`: an action property, from the same invariant.
* `LateBetsRefused`: with `~Stalls` (no bet outlasts the betting time) also
  `BetsOnlyWhileWaiting`. `LateInv` adds that while a checked bet is pending an open round is
  new, so nobody may start or crash it.

**Crash engine of the Go platform** (`ServicesProofs`), from `CrashEngineAssumption`, for every
finite set of bets, every set of players, cash-outs and starters, every capacity, draw and
clock:

* `StakesAreTaken`: `StakesTaken`. Alone it is not inductive: a bet queued twice, or in the
  channel and in the manager's hand, would be debited twice, and one already refused would
  be inserted after its refusal. `EngineInv` (in `CrashEngine`) adds `QueueInv`, that a
  bet is in the channel at most once and not in hand as well, that neither has a row or an
  answer other than the timeout, and that a bet not yet asked for has no row. A bet refused
  for its amount or for want of a game is told the truth; one that failed may be stored.
* `CashOutsStand`: `CashedOutIsFinal`, its action property and its invariant. `CashoutsInv` adds
  that who was told of success has cashed the bet out, so the conditional update that
  finds it active tells the first.

`EngineTypes` says that no bet has an automatic cash-out: the tick credits nobody
(`CreditAutoIsNothing`). Most actions take no bet and reopen none, and one lemma
(`Harmlessly`) serves them all; the five that do have one each. `EveryGameEnds` is a
liveness property and stays with TLC.

**Withdrawals** (`WithdrawalsProofs`), from `WithdrawalsAssumption` and `Orderly`, for every set of
players, affiliates, deposits, amounts and notices. `Orderly` says that one payer at a time
is at work and that the provider may refuse a transfer but neither loses nor fails one after
taking it; without it the properties are false of the code, as the runs
`withdrawals_two_admins` and `withdrawals_failed` show.

* `MoneyStaysHeld`, `NothingLeavesTwice`: the two safety invariants, from one inductive
  invariant `IInv` (in `Withdrawals`). It adds that commissions and transfers name withdrawals
  there are (`TablesInv`), that a withdrawal has one transfer at most and, once it has, is
  approved or paid and linked to it, or about to be linked by the payer who sent it
  (`TransfersInv`), that what a payer works on stays approved, and unsent until it is sent
  (`PaymentsInv`), and that a notice being applied, or a question being answered, is about a transfer
  there is and a withdrawal it was made for (`NoticesInv`).
* `ClosedStaysClosed`: an action property, from the same invariant.

The proof has one lemma per action (`…Keeps`), over what a step does to one row
(`RowBecomes`, `RowStep`), and lemmas on the sum of what is held.

**Deposits** (`DepositsProofs`), from `DepositsAssumption`, for every finite set of deposits and
every set of players, codes, notices, checks and expiries, with or without overlap:

* `TablesAlwaysAgree`, `CreditedAtMostOnce`, `CodesStayWithinLimit`: the three safety
  invariants, from one inductive invariant `IInv` (in `Deposits`). A settlement reads at its locks
  and writes at its commit, so the invariant has to say what stays true in between. `PlansInv`:
  what is planned is one grant of a bonus at most, the player's own, and of typed codes
  the deposit's, which stays usable while it is locked. `LocksInv`: two settlements hold
  different deposits and codes. `SettlingInv`: a settlement has heard of a payment, and
  its deposit is still to be settled. `ExpiringInv`: apart from overlap, an expiry is alone
  with its deposit and finds it unpaid, which is what fails in `deposits_expiry`.
  `BookedInv`: only what is paid is booked, and apart from overlap what is booked is settled,
  so a second settlement finds the status and stops.

* `CreditingImplemented`: `Spec => ImplementsCrediting`, the refinement, from the same `IInv`.
  `Crediting` knows neither processes nor locks, notices or plans: a deposit whose charge is
  paid is credited in one piece with its bonuses, their counted redemptions, its ledger entry
  and its commission, and a player redeems a code. The mapping shows which charges are paid
  and the deposits of `Overlap` as those that may be credited again. A commit is `Settle`
  (`CommitSettles`): what was planned at the locks is still allowed when it is written
  (`GrantsAllowed`), the charge is paid, and apart from overlap nothing is booked yet. A
  redeemed code is `Redeem`, a payment is `Charge`, and every other step, aborted settlements
  and failed calls included, is a stutter.

The proof has one lemma per action. Steps that move no money go through two of them (`Outside`,
`ProcessMoves`); the two that do, a commit and a redeemed code, go through
`CreditKeepsMoney`, over the sums of what is booked and granted. `PaidIsCredited` is a
liveness property and stays with TLC.

**Truco** (`TrucoProofs`), from `TrucoAssumption` and `OneHostPage`, for every set of players,
pages and deals, every stake and every purse. `OneHostPage` says that the host has one page,
so one start request is under way at most; with two, the second takes the stakes again, as
said above, and the invariant is false of the code.

* `StakesAlwaysAgree`, `RulesAlwaysKept`, `NoGhostIsEverWaitedFor`: the three safety
  invariants, from one inductive invariant `IInv` (in `Truco`). `SeatsInv` says who sits
  where, and that a start request past its check finds a room that still waits.
  `EntriesInv` says that what each player's entry took is still written down when the match is
  settled, and that it is settled when it is finished and not before. Of a match in play,
  `TableInOrder` says that the cards on the table are those of the seats before the one to
  play, in their order, so no seat has two; `HandsAreWhole` that every seat has the rest of
  its hand and nobody has won it yet; `ValueFits` what the score, the phase and the dark say
  of the value.

The proof first follows one row: what a card (`CardPlayed`), a raise (`RaiseAsked`,
`RaiseAnswered`), a decision at eleven (`ElevenDecided`), a hand won (`HandFinishes`) and a
settlement (`SettleEnds`) make of a match in order is a match in order or a match that has
ended (`Becomes`). Then `MatchGoesOn` carries that to the money and the seats, with one lemma
per action. `EveryMatchEnds` is a liveness property and stays with TLC.

**Sportsbook** (`SportsbookProofs`): `MoneyHolds`, `PricesHold` and `RecordsHold`, the three
invariants of `MCSportsbook` that put its components' properties together, for every set of bets,
calls, tickets, draws, matches, users, prices, amounts, limits and clocks. They
need the named assumptions of the components; those the proofs asked for are that there is a
user, a match and a price to begin with, that a cache entry lives at all (`OddsTTL`, 30
seconds in `engine.go`), and that the sets of purchases, callbacks and updates
are finite, so that what they add up to is a number. None of the properties is inductive alone:
each is about calls that read, wait and write, and the invariant says what a call under way
still knows.

* `SlipsInvariant` (`SportBets`): the amount in the row, in the copy an edit has read, and the one
  an edit will write once the money has moved are all paid for; of a bet whose edits came apart
  at most one is under way, its copy is the row, and the amounts agree before the
  money moves and after.
* `JackpotInvariant` (`Jackpots`): a row of the jackpot, and every copy a purchase or a draw has
  read, is within what the jackpot began with and the contributions written so far
  (`Bound`), which only grow; a draw that is alone has not yet paid its winner.
* `PaymentInvariant` (`Payments`): a callback on its way to the wallet is of a paid deposit with a
  row, and the credits of a deposit are at least the callbacks past the credit and at most
  those and the ones told of an error; a row is COMPLETED only by a callback past the credit.
* `PriceInvariant` (`LivePrices`): the count of a match is within the number of calls that wrote one;
  while no two calls on it overlapped, the one under way accounts for what differs between the
  outcome and what was published (`CallFollows`), unless the last Publish failed.
* `OddsInvariant` (`OddsQuotes`): an entry ends no later than the time to live after the sync that
  read it, and a sync lasts no longer than `Lag`.
* `PaceInvariant` (`ProviderClients`): what an open interval has let through and the tokens left are a
  full bucket, and one more once it was refilled within (`SharedOut`); an interval that let more
  than one request through began less than an interval after the last refill (`Fresh`), so no
  second refill falls into it. This holds of the buckets under a mutex, and of the others
  while no two tries overlap.
* `ComplianceInvariant` (`Compliance`): checks apart, a bet not refused still fits the limits it was
  checked against, since a check that is alone sees no other stake, and the beginning of a day
  or month moves forward only.
* `AccountsInvariant` (`Accounts`): rows, the copies edits have read and tokens call nobody verified
  whom neither the provider nor a writer of the row did, and a copy can take the mark back only
  of users noted in `raced`.
* `CatalogInvariant` (`CatalogRows`): a copy that is fresh and has its teams is the row, so
  writing it back spoils nothing.
* `ShutInvariant` (`VirtualSports`): no game leaves the state it is scheduled in.

TLC checked each of these on the instance of the run before it was proved. Each has a lemma that
it holds at first (`…AtFirst`), lemmas per action that it is kept (`…Kept`), and one that it gives
the property (`…Always`). `StepsApart` says that a step of `MCSportsbook` is a step of one
component and leaves the rest alone; `SportsbookInvariantHolds` puts them together.

Every safety invariant and action property of the passing runs is now a theorem. What stays with TLC:
liveness; and of the cases that an assumption of a theorem leaves out (`Orderly` for withdrawals,
`OneHostPage` for truco), what the runs about them show.

## 5. Plan

What remains, in this order:

1. **Cashback** in a module next to `Deposits`: it grants outside any transaction, so a
   process that dies between the redemption and the credit loses the bonus.
2. **Abstract wallet** for the modules that reach it through an interface, as `Ledger` is
   for `Wallet`, when a service wires them together.
3. **Hub, bus, settlement loop** when something in the repository uses them.
