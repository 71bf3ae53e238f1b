# KenyaPolymarket backend: a TLA+ model of its services

The repository is a set of NestJS services for a prediction market: users deposit
through M-Pesa, buy YES or NO shares of a market, are paid out when an admin
resolves it or refunded when it is cancelled, and withdraw through M-Pesa. Each
service has a PostgreSQL database of its own (Prisma) and talks to the others over
HTTP and Kafka. There is no distributed transaction, no outbox and no saga: what
keeps the money right is optimistic locks, unique keys, status checks and the
order of awaits. That is what these modules model, one TLA+ action per await: the money
path (wallet, trading, payment, market) in detail, and the services around it (accounts,
analytics, comments, notifications).

## 1. Inventory

| Component | State | Operations | Talks to | What is hard |
|---|---|---|---|---|
| Wallet service (`apps/wallet-service`) | `wallets` (balance, reserved, version), `ledger_entries` | credit, debit, reserve, release; consumers for registration, deposits, refunds, payouts | called by trading and payment over HTTP; consumes Kafka | concurrent read-then-write under an optimistic lock; payouts that skip it; redelivery |
| Trading service (`apps/trading-service`) | `market_pools`, `trades`, `positions`, `settlements`, and the option tables of MULTI markets | placeTrade, settleMarket, refundMarket, initMarketPool, and the same for options | HTTP to market and wallet; Kafka to wallet, market, analytics, notification | a trade is six writes in four databases; settlement is a loop of awaits that may stop anywhere; trades that finish after the verdict |
| Payment service (`apps/payment-service`) | `payments`, `payment_callbacks`, `daily_limit_trackers` | initiateDeposit, initiateWithdrawal, three M-Pesa callbacks | Safaricom over HTTP, wallet and auth over HTTP, Kafka | lost answers, early, duplicate and overlapping callbacks, timeouts and their retry |
| Market service (`apps/market-service`) | `markets`, outcomes, options, price history | create, activate, close, resolve, cancel, the auto-close cron job, updatePoolStats | Kafka to trading and the rest | admin requests and the cron job check a status and write it later |
| Auth service (`apps/auth-service`) | `users`, `sessions`, `otp_codes` | register, verify, login, refresh, logout, one-time codes, password reset | Kafka to user, wallet and SMS, HTTP to user | codes and refresh tokens checked in one call and used up in another; sessions inserted after a reset has revoked all; an unpublished registration |
| User service (`apps/user-service`) | `user_profiles`, `kyc_documents` | createProfile, submit/approve/reject KYC, suspend, lists | consumes registrations, read by auth | documents and profile written one after the other |
| Analytics service (`apps/analytics-service`) | `trade_events`, `settlement_events`, `market_earnings`, `leaderboard_entries`, `market_volumes` | three consumers, the hourly leaderboard, eight views | consumes Kafka | three consumer groups that nothing orders; week arithmetic; a cron job that may stop between its writes |
| Comments service (`apps/comments-service`) | `comments` | create, delete, hide, unhide, lists | HTTP to user and market for names | a cooldown and a parent that are checked before the insert |
| Notification service (`apps/notification-service`) | `notifications`, `device_tokens` | one handler per message kind, read marks, device tokens | consumes Kafka, announces to the gateway, pushes | a row, its announcement, its push and the acknowledgement are four steps |
| Feed service (`apps/feed-service`) | `feed_items` | one consumer per message kind, the user's feed | consumes Kafka, HTTP to market | errors are swallowed, crashes repeat |
| API gateway (`apps/api-gateway`) | sockets and their rooms | proxy, broadcast | all | who is in a room when a message comes |
| Admin service (`apps/admin-service`) | none | one HTTP call per method | all | - |
| Shared libraries (`libs/shared`) | none | Kafka client, arithmetic, guards | all | the consumer loop swallows errors |

What makes the modelled components correct:

- wallet: nothing is spent that is not available; no update is lost; the ledger
  explains the balance; a settlement is paid once.
- trading: each trade is priced on the pool its predecessor left; one trade and one
  charge for an idempotency key; a confirmed trade is paid; positions add up to trades;
  payouts stay within the pot; each position is paid or refunded once, and all are.
- payment: only what M-Pesa took is credited, once; only what M-Pesa paid is debited,
  once; what may still go out stays reserved; a status tells what happened.
- market: one verdict, final, with one winner; an expired market does not stay open.
- accounts: a code serves once; no session outlives its password; no token carries more than
  the granted tier; a registered user gets a profile.
- analytics: the views agree with one another; a settlement is recorded once; ranks are ranks.
- comments and notifications: threads stay in their market and one level deep; everyone is
  told their own affairs, none lost without an error, none repeated without a crash.

## 2. Modules

| Module | Models | State and actions |
|---|---|---|
| `AtomicWallet` | what the wallet service promises | one account per user; Open, Credit, Debit, Reserve, Release, each atomic |
| `Wallet` | `wallet.service.ts` | `wallet`, `ledger`, and a record per handler (`call`). `TxRead` is the `findUnique` at the head of a transaction with the checks on its result; `Commit*` the version-checked update with its ledger entry; `Retry` is `withOptimisticLockRetry` meeting P2025; `Dedup`, `EnsureFind`, `EnsureCreate` the awaits of the consumers (and of `getLedger`, which creates a missing wallet: op "view"); `since` records the version of a handler's first read; `CommitPayout` the increment of `settleMarket` |
| `MCWallet` | - | symmetry |
| `SumProofs` | - | lemmas about sums over finite sets, which the other proof modules use |
| `WalletProofs` | - | theorems about `Wallet` |
| `PlaceTrade` | `placeTrade` on a binary market, `trading.service.ts` 48-206 and 1186-1353 | `Lookup`, `AssertMarketActive`, `ReserveWalletFunds`, `ReadPool`, `CommitTrade`/`CommitFails`, `GetUpdatedAvgPrice`, `UpsertPosition`, `ConfirmWalletDebit`, `ReleaseWalletReserve`, `ReadForMirror`, `PublishPrice`, `PublishTrade`/`PublishFails`: the awaits in their order, `Handle` being one request's next one |
| `MCPlaceTrade` | - | symmetry |
| `PlaceTradeProofs` | - | theorems about `PlaceTrade` |
| `Deposit` | `initiateDeposit`, `handleStkCallback`, and the wallet's deposit consumer | an initiation per deposit, callback handlers, M-Pesa as the environment (`Pay`, `CallBack`), and the consumer that credits, or throws and is swallowed by its loop (`HandleDepositCompleted`); `dropped` records the deposits whose message was lost |
| `DepositProofs` | - | theorems about `Deposit` |
| `Withdrawal` | `initiateWithdrawal`, `handleB2cResult`, `handleB2cTimeout` | the same, with M-Pesa's transfers in a sequence per withdrawal and the wallet as a purse |
| `WithdrawalProofs` | - | theorems about `Withdrawal` |
| `Market` | the life of binary and MULTI markets and the cron job | any number of admin requests that find, check, flag options, update, publish; the cron job that finds, updates, publishes; `raced` records the markets on which one of them was accepted while another was between its read and its write |
| `Settlement` | `settleMarket`, `refundMarket` and the wallet's payout and refund consumers | the consumer of the verdict (`con`) walks through its awaits; `TradePool` and `TradePosition` are a trade that finishes late; `PayWinner` and `CreditRefund` are the wallet; `getMyPositions`, `getMyResults` and `getMarketRoster` are what is shown |
| `SettlementProofs` | - | theorems about `Settlement` |
| `OptionMarket` | a MULTI market in the trading service, lines 706-1182, from its activation to the wallet's payouts | `placeOptionTrade` as `Lookup` ... `Announce`, one request's next await being `Handle`; `settleOptionMarket` as `ReadPools` ... `PublishSettlements`; `RefundMarket`; the market service as `Activate` and `Verdict` |
| `OptionMarketProofs` | - | theorems about `OptionMarket` |
| `MCOptionMarket` | - | the first request fixed, which stands for a symmetry |
| `Accounts` | `auth.service.ts` and the profile part of `user.service.ts`, for one phone number | `call` holds a handler per request under way; `Start` picks a request and what its caller brings; the rest are the awaits of `register`, `createOtp`, `validateOtp`, `login`, `refresh`, `resetPassword`, `issueTokens`, `submitKyc` and the reviews |
| `Analytics` | `analytics.service.ts` | the consumers as `handle*`, `computeLeaderboard` as five actions and its catch block, the views as operators |
| `Comments` | `comments.service.ts` | `create` as `Arrive`, `CheckCooldown`, `CheckParent`, `Insert`; moderation; the lists as operators |
| `Notifications` | the notification and feed services and the sockets of the gateway | `createAndSend` as `CreateNotification`, `PublishCreated`, `ReadTokens`, `sendMulticast`, one message of a kind at a time and any number in all (`GroupIsFree`); `addToFeed`; `Emit*`; what users do |
| `Services` | `Market` and the last four together | `busy` says which of them moves; the state of the others rests |
| `MCServices` | - | what is published to analytics and notifications |
| `ServicesProofs` | - | theorems about `Services` and its five parts |

How they compose. `PlaceTrade`, `Withdrawal` and `Settlement` use the wallet as
`AtomicWallet` promises it (one atomic operation per call); `Wallet` is shown to
implement `AtomicWallet` for the operations they call. `Settlement` starts from a
verdict as `Market` publishes it and from positions as `PlaceTrade` leaves them, and
its late trade is the part of `PlaceTrade` that follows `AssertMarketActive`. `OptionMarket`
holds trades, verdict and settlement in one module, so that every trade may be late.
`PlaceTrade` also has the market service's end of MARKET_PRICE_UPDATED (`updatePoolStats`)
and the page it serves.

The five modules under `Services` share no state: what one receives from another or from the
money path is a message that is there from the start and consumed at any time, which covers
every order of publishing. `Services` therefore adds no interleavings between them, it
checks them in one run; each behaviour moves one of them, and each property is about one.

Abstractions used throughout:

- A handler is a record with a program counter. Anything may happen between two of its
  awaits; nothing happens within one. This is what Node's event loop and several HTTP
  requests do. A Kafka consumer group runs one instance and handles one message at a time.
- A statement, or a `$transaction`, is atomic. The databases run at READ COMMITTED, so a
  transaction that reads and then updates by version is two actions, of which the second
  takes effect as a whole or not at all.
- A crash is a handler that takes no further step, unless the module says otherwise:
  no service resumes its handlers. Where the broker delivers the message again the
  model has an action for it (`Redeliver`, `Settlement!Crash`); where a repeated
  request can meet half-written rows, so has `Market` (`Crash`).
- Money is integers of the smallest amount that matters. `SHARE_PRICE_KES` is a constant
  of the code, so shares are amounts divided by it, and in `Settlement` shares, cost and
  stake are one number. `Pot` is the total pool less the rake as the resolved message
  carries it; it is a multiple of every number of winning shares, so that the division
  of the code is exact.
- In `PlaceTrade` the average price of a position is the set of trades it averages over, and an
  amount is a multiple of `SHARE_PRICE_KES`: the code divides without rounding.

- What is shown to users and admins (lists, pages, views) is an operator over the state, and
  properties that compare what is shown with what was done use it. Page numbers, formats,
  names and sort orders that nothing depends on are left out.

`Deposit`, `Withdrawal`, `Settlement` and `OptionMarket` choose the faults of a behaviour once,
from the constant `FaultModels`, `Notifications` from all sets of its two. A property then says
under which faults it is claimed, and one run covers it together with the faults it excludes.
`Accounts` and `Comments` choose in the same way whether requests overlap.

## 3. Runs

| Run | Bounds | What it shows |
|---|---|---|
| `wallet_lock` | one wallet, 3 handlers, 2 amounts, 2 attempts, a message handled twice | with credits, debits, reservations, releases, and creations by consumers and by `getLedger`, every commit is one step of `AtomicWallet` (refinement), which also means that a wallet is never created over; nothing is overspent; the ledger is gapless, ends at the balance, explains the reserved part and what is shown as available; a handler gives up only if others have committed to the row, since its first read, as often as it tried |
| `wallet_payout` | the same with payouts, 2 settlement ids | payouts skip the version, and still no settlement is paid twice, and no interleaving creates money |
| `wallet_lost_payout` | the same | *refuted*: `NoUpdateLost`. A payout between another handler's read and write is overwritten |
| `trade_concurrent` | 3 requests, 2 users, 2 keys, 2 attempts | three is the least number with which a request exhausts its attempts while another wins; in every interleaving, also with a missing pool and a market that closes, each trade is priced on what its predecessor left, and trades, positions, pool, market page, reservations and charges agree (`BooksMatchTrades`) |
| `trade_faults` | 2 requests, one user, every HTTP call may fail before or after it took effect, every publish may fail | one trade and one charge for a key; a request that is answered with a new trade was charged for it, and one that is answered with an earlier trade gets one of its own user and key, charged unless the debit of its maker is to come or has failed (section 4); every request is answered |
| `deposit` | 2 deposits, 2 handlers, 2 callbacks each, 3 fault models, of which one refuses publishes and lets the wallet's consumer throw | only what was taken from the phone is credited, under spoofed and overlapping callbacks too; in turn, once; the tracker counts what completed, the lists show what was credited; what is final stays; what completed reaches the wallet, but for the messages that Kafka refused or the consumer threw on |
| `withdrawal` | 2 withdrawals, 2 transfers and callbacks each, 4 fault models | paid at most once through timeouts, retries and lost answers, and debited only for what was paid; statuses are true; what may still go out is reserved |
| `settle` | 2 users with both outcomes, stakes to 2, one crash or one late trade, 3 fault models | payouts within the pot, paid as recorded and shown, refunds once and in full; without interruption everybody who held at the verdict gets what is due |
| `options` | 2 requests of 2 users with 2 keys on 2 options or one of another market, 2 attempts, one crash, 3 fault models | pools, positions, trades, charges and what users are shown agree; a price never exceeds 1; the pot is paid out once at most, also by a settlement that is repeated; without a crash or a failed publish, all who held the winning option at the verdict are paid for at least the shares they held then, out of at least the stakes of that time, and the losers are closed, also when trades come in late |
| `multi_unrefunded` | the same, no faults | *refuted*: `HoldersAreRefunded`. The holders of a cancelled MULTI market get nothing back |
| `services` | accounts: 2 handlers, 4 requests, three sets of requests; analytics: 2 trades in three patterns, 2 markets, 2 days, years that start on a Sunday and on a Saturday; comments: one author, 2 requests, 2 boards, 3 comments, 2 ticks; notifications: 2 messages of one kind to two users and one that the feed takes, a device and a socket that change hands, 2 rows, 2 moves; markets: a MULTI market with 2 options, two admins with 3 requests, the cron job, crashes and failed publishes | codes serve once and the newest only, sessions end with their password, tiers are never over-permitted and the review list is exact, analytics agree, threads are orderly, everybody is told their own affairs; where no two of the admins and the cron job raced, a market has one verdict and one winner, before and after its deadline, also when a resolution stopped half way and is repeated; a verdict is final, and nothing is accepted against it |
| `services_live` | registration with 2 handlers and 3 requests, a binary and a MULTI market with one admin, 3 requests and the cron job, the others at their least | a registered user gets a profile, also when registrations overlap; a market past its deadline leaves the list of active ones; each of the two markets has one verdict and one winner |

Why these bounds: each race in this code is between two handlers on one row, and a third
is needed only to lose twice; a second key, deposit, withdrawal or market shows that
one does not disturb the other; two users on two options are the least for which a
settlement has a winner, a loser, and a winner that came late; four requests are a log-in,
two requests for codes or resets, and a refresh; one repetition of a message, callback or handler shows
what a second does, and the handlers keep no count that a third could exceed, except
`retryCount < 1` and the attempts of the locks, which are reached. Two admins are the least that
race; they have a MULTI market, whose resolution is that of a binary one with two more writes in
front, and the theorems of section 5 are about any number of markets of both kinds. The largest
run is `services` with 830 thousand states, two minutes.

Fairness. `PlaceTrade`, `Deposit`, `Settlement` and `Services` (for accounts and markets) assume weak
fairness of the next step of a handler: the event loop runs a handler whose await is over, and an await
ends. The HTTP clients of trading and payment set no timeout, so this is an assumption
about the network for them. `Settlement` and `Deposit` further assume that the wallet's
consumers keep polling, and `Services` that the user service's do and that the scheduler
of the market service starts the job. A crash is not
fair to anybody, so no liveness is claimed across one unless something starts again.
Nothing is assumed of M-Pesa, users or admins. No run has symmetry and liveness at once.

`CHECK_DEADLOCK` is off everywhere: users stop asking, and the models stop with them.

## 4. Where the code departs from what it says

Two departures are runs of their own (above). TLC found the following in the same
modules; each needs the stated change to one of the configurations or properties to be
seen again. First those that contradict a text of the repository:

- `PlaceTrade`, with `OpeningBalance` equal to one stake: a committed trade is never paid for
  (`CoveredIsPaid` without its condition on the opening balance). The debit is asked for while the
  reservation still counts, after the trade was committed (`trading.service.ts:70`; the
  comment on line 69 says "Release reserved funds and debit actual amount").
- `PlaceTrade`, when the debit fails: the request is answered "Market is busy. Please retry your
  trade." (`trading.service.ts:120`), the trade stays CONFIRMED, and the retry with its idempotency
  key is answered with that trade (`:53`), which nobody is ever charged for. `ConfirmedIsPaid`
  without `DebitRefused` fails.
- `Deposit`: two overlapping deliveries of one callback credit twice (`CreditedOnceInTurn`
  without its condition). The status is the one read before (`payment.service.ts:135`; the
  comment on line 134 says that a processed payment is skipped, and
  `MPESA_PRODUCTION_SETUP.md:97-98` "Callbacks are idempotent").
- `Settlement`, with a crash: winners marked settled before the batch is published are never
  paid (`trading.service.ts:647`; `docs/api.html:1601` says that "winners receive payouts
  from the pool"). The same holds in `OptionMarket`.
- `Analytics`: a settlement may be recorded before the trades it settles, and its cost then
  misses them (`analytics.service.ts:93`, whose comment says "every trade lands there before
  settlement can ever fire").

Then the rest:

- `PlaceTrade`, with a failed publish: `ReservedIsPending` without its guard fails. `confirmWalletDebit`
  has released the reservation, a publish throws, and the catch block
  (`trading.service.ts:119`) releases it again, so that the user has more available
  than the balance.
- `PlaceTrade`: when nothing is in flight, `mirror` need not equal `pool.kes`. Two handlers
  read the pool in one order and publish it in the other (`trading.service.ts:1340`).
- `PlaceTrade`: `position.averaged` need not hold all trades of the position. The average is
  computed from a read, the shares are incremented (`trading.service.ts:193`).
- `Deposit`: a callback that comes before `RecordCheckout` matches no payment, and is not
  stored either (`payment.service.ts:117`; the comment on line 55 and
  `MPESA_PRODUCTION_SETUP.md:107` say otherwise).
- `Deposit`, when the wallet's consumer throws: the deposit is completed and never credited.
  `ensureWallet` may be overtaken by another creation (`wallet.service.ts:418`), `credit` gives up
  after `MAX_OPTIMISTIC_LOCK_RETRIES` lost races (`:38`), the database may fail, and the consumer
  loop counts the message as handled (`kafka-client.ts:157`). The same loss threatens the payouts
  and refunds of `Settlement` and `OptionMarket`, which take the wallet's consumers to succeed.
- `Deposit`: `deposited <= DailyLimit` fails with two deposits initiated before either
  completes (`payment.service.ts:50`).
- `Deposit` and `Withdrawal`, with a failed publish: an initiation whose last await fails
  marks a payment `FAILED` that a callback has completed, and releases the reservation
  of a transfer that is on its way (`payment.service.ts:98`, `:288`).
- `Withdrawal`: the debit leaves the reservation in place, so the amount is taken out of
  the available balance twice (`payment.service.ts:343`; the comment above it says that
  the reservation becomes the debit).
- `Withdrawal`: a second timeout callback releases the reservation again, since
  `handleB2cTimeout` looks at `retryCount` only; two at once retry twice
  (`payment.service.ts:416`); two overlapping results debit twice (`:322`).
- `Withdrawal`, when the payment row cannot be created: the reservation is never released
  (`payment.service.ts:244` precedes the try block).
- `Market`, where two admins race: resolved and cancelled (`market.service.ts:452`). Where the cron
  job races with one: a resolved market is set to `CLOSED` and can be resolved again
  (`market.service.ts:345`). `OneVerdictOneWinner` over all markets, and not only those outside
  `raced`, fails.
- `Settlement`, with a failed publish: refunds of closed positions are lost
  (`trading.service.ts:720`); with a late trade: a stake that came in between the read and
  the closing is closed without refund; with a late trade and a crash: more than the pot
  is paid, because the repeated handler divides by other shares.
- `Settlement`: a refunded position is settled with payout 0, and so shown as lost in the
  user's results and in the roster (`trading.service.ts:282`, `:437`).
- `OptionMarket`, with a crash and a late trade: the repeated settlement pays the whole pot a
  second time to those who came late (`trading.service.ts:1121`); with a failed publish the
  marked winners are unpaid. A price may be below the pool's share of the pot, when other
  options are traded between the two reads (`:1022`).
- `Accounts`, with overlapping requests: a one-time code is accepted twice
  (`auth.service.ts:360`), two codes of a purpose are valid (`:343`), a refresh token has two
  successors (`:195`), and a log-in that overlaps a password reset survives it (`:297`). A
  review that overlaps a submission approves a document unseen, or leaves a document that no
  list shows (`user.service.ts:163`).
- `Accounts`: nothing sets `isActive`, which log-in and refresh check, and nothing reads
  `isSuspended`, which suspension sets (`user.service.ts:287`): a suspended user goes on.
- `Analytics`, on a Sunday: the leaderboard of the current week is empty
  (`analytics.service.ts:803` counts weeks from Sunday, `:814` starts their window on Monday).
  A holder of both sides of a market has one settlement row, made by whichever message
  came first (`:103`).
- `Comments`, with overlapping requests: one comment more per request passes the cooldown
  (`comments.service.ts:158`).
- `Notifications`: a crash repeats a notification, a failed publish leaves it in the list
  without telling the bell (`notification.service.ts:173`), a device that changes hands
  between the read of the tokens and the push shows it to its new owner (`:199`). The gateway
  asks the client to refetch its balance on the message that the wallet credits, in a group of
  its own, and so possibly before (`ws.consumer.ts:49`).

## 5. Proofs

Every theorem holds for any sets of users, handlers, markets, payments and so on, any
amounts and any bounds that satisfy the module's named assumption (`WalletAssumption` and
the like). A proof module shows that an inductive invariant holds at first and is kept by
each action, one lemma per action or per kind of change; what the runs check follows from
it. Where a property needs more than the one before it, its invariant has the earlier one as
its first part. TLC has checked each of these invariants on the runs' constants. The theorems,
by module:

| Module | Theorem | States | Inductive invariant |
|---|---|---|---|
| `WalletProofs` | `TypeCorrect`, `InductiveInvariant`, `NeverOverspentHolds`, `GivesUpOnlyUnderContentionHolds` | `TypeOK`, `IInv`, `NeverOverspent`, `GivesUpOnlyUnderContention` | `IInv` |
| | `PaidOnceHolds` | `PaidOnce` | `PInv` |
| | `NoMoneyCreatedHolds` | `NoMoneyCreated` | `MInv` |
| | `LedgerExplainsBalanceHolds`, `LedgerExplainsWalletHolds`, `Refines` | without payouts: `LedgerExplainsBalance`, `LedgerExplainsWallet`, `ImplementsAtomicWallet` | `RInv`, `LInv` |
| `PlaceTradeProofs` | `TypeCorrect`, `InductiveInvariant`, `PricedInSequenceHolds`, `ChargedOnceHolds`, `ConfirmedIsPaidHolds` | `TypeOK`, `IInv`, `PricedInSequence`, `ChargedOnce`, `ConfirmedIsPaid` | `IInv` |
| | `BooksMatchTradesHolds` | `BooksMatchTrades` | `BInv`, `AInv` |
| `DepositProofs` | `TypeCorrect`, `InductiveInvariant`, `CreditsMatchPaymentsHolds`, `FinalIsFinalHolds` | `TypeOK`, `IInv`, `CreditsMatchPayments`, `FinalIsFinal` | `IInv` |
| `WithdrawalProofs` | `TypeCorrect` | `TypeOK` | `TInv` |
| | `PaidAtMostOnceHolds`, `PaidAndDebitedOnceHolds` | with one callback handler: `PaidAtMostOnce`, `PaidAndDebitedOnce` | `IInv`, `DInv` |
| | `PendingIsReservedHolds` | `PendingIsReserved` | `RInv` |
| | `StatusIsTrueHolds` | with one callback handler: `StatusIsTrue` | `SInv` |
| `SettlementProofs` | `TypeCorrect` | `TypeOK` | `TInv` |
| | `PaidAsRecordedHolds` | with crashes or late trades, not both: `PaidAsRecorded` | `SettlementInv` |
| `OptionMarketProofs` | `TypeCorrect`, `PricedOnItsPoolHolds`, `BooksAgreeHolds` | `TypeOK`, `PricedOnItsPool`, `BooksAgree` | `TInv`, `BInv` |
| | `PaysThePotHolds` | `PaysThePot` | `PayInv` |
| | `VerdictWinnersArePaidHolds` | `VerdictWinnersArePaid` | `VInv` |
| `ServicesProofs` | `TypeCorrect` | `TypeOK` of `Services` | those below |
| | `TiersFollowReviewsHolds` | `TiersFollowReviews` | `StageInv`, `KycInv` |
| | `SessionsFollowPasswordHolds` | `SessionsFollowPassword` | `StageInv`, `SessionsInv` |
| | `CodesAreOneTimeHolds` | `CodesAreOneTime` | `StageInv`, `CodesInv` |
| | `AnalyticsAgreeHolds` | `AnalyticsAgree` | `BoardInv` |
| | `ThreadsAreOrderlyHolds` | `ThreadsAreOrderly` | `ThreadInv` |
| | `ToldTheirOwnOnceHolds` | `ToldTheirOwnOnce` | `BellInv` |
| | `MarketInvariant`, `OneVerdictOneWinnerHolds`, `VerdictIsFinalHolds` | `VerdictInv`, `OneVerdictOneWinner`, `VerdictIsFinal` | `VerdictInv` |

The three conditions are those of the runs, and are needed. `NoPayouts` (no operation
"settle", as in the run `wallet_lock`): a payout writes without the version, and the run
`wallet_lost_payout` shows the update that is lost. `OneHandler` (one callback of a
withdrawal at a time, as in the run `withdrawal`): section 4 says what overlapping callbacks do. `CrashOrLate` (no fault model of
`Settlement` with both crashes and late trades, as in the run `settle`): a settlement that
starts again after a late trade divides the pot by other shares, and pays the late winner on
top. The theorems about `Deposit`, `OptionMarket` and `Services`, and the others named without
a condition, need none: their properties say themselves under which faults they are claimed.

The arguments.

- Wallet. `NeverOverspent` is not inductive: it does not say why a write that was decided
  on an old read is still affordable. `IInv` adds `SoundSnapshot`: a handler about to write
  found the amount available in its snapshot, and *if the version is still the one it
  read*, the row has the snapshot's reserved part and at least its balance. The second half
  is what payouts leave true although they change the row without the version: they only
  add. `OwedAttempts` says that the row has gained, since a handler's first read, at least as many
  versions as it has made attempts. The
  proof has two layers: `StepRows` says how any step changes a row (`Evolves`: created, a
  new version, or a payout), `StepCalls` how it changes a handler, and `SnapshotSurvives`
  that another handler's change keeps a snapshot sound.
- No money created (`MInv`). Each commit appends an entry with what it adds; the row gets no
  more than that. It may get less: the balance that a versioned write puts back is that of its
  read, which by `SoundSnapshot` is at most the row's, so that a payout in between is lost
  but never doubled.
- Refinement. Without payouts `SoundSnapshot` sharpens to `ExactRead`: a read whose version
  still matches is the row itself, so that what is computed from the read is computed from
  the row. Each commit is then a step of `AtomicWallet` and appends a ledger entry that
  starts where the last one ended; every other step maps to a stutter. With the same reads
  balance and reserved part stay equal to the sums over the ledger (`LInv`).
- Payouts. `settleMarket` looks its settlement id up long before it writes the entry. The
  answer is still true at the write because the consumer group handles one payout at a
  time, so the handler between lookup and write is the only one that adds a payout.
- Trades. `SoundRead`: a read whose version is still the pool's is the pool. From it comes
  that every trade starts where the last one ended. For the charges: a key has one trade
  (the unique index), the trade is its handler's, and only that handler may charge for it
  (`OneTradePerKey`, `TradeIsItsHandlers`, `ChargeIsOwed`); a confirmation comes after the
  charge. A request that found a trade under its key was answered with one whose handler is past
  the commit, and that handler is before its debit, has had it refused, or has charged.
- Books. A trade is booked once its handler is past the position. A position is the sum of
  the booked trades of its holder, the pool the seed and the sum of all trades, and the market
  page shows a pool that some trade has left (`BInv`). Without faults, a reservation is the
  sum of the stakes of the requests between reserving and settling, a balance the opening
  balance less the stakes of the paid ones, and the page counts the trades of the handlers that
  have told it (`AInv`). That a covered trade is always paid follows: its handler can only be
  refused a debit when balance and reservations leave less than its stake, that is when all
  begun requests together are more than half of the opening balance (`UnpaidIsUncovered`).
- Deposits. What a handler has read of a payment is still true when it acts on it, as far
  as the faults allow, and so the invariant has three levels: `Honest` in every behaviour,
  `Turn` when callbacks come one after the other, `Calm` when publishes succeed too. The
  tracker is the amount times the completed payments that no handler is about to count;
  that these are finitely many, whatever `Deposits` is, is part of the invariant.
- Withdrawals. A second transfer is asked by a timeout that has counted the one retry, and
  only after a first that M-Pesa has given up (`Consistent`, `Informed`). For the debits the
  invariant says that there is a set of debited withdrawals, as many as the balance has lost
  amounts, each of them settled: its recorded transfer paid, its status final (`Settled`).
  A result that finds it settled ends, and a timeout of its recorded transfer can no longer
  come (`Careful`).
- Reservations and statuses. There is a set of withdrawals whose reservation is held, as many
  as the reserved part has amounts; an open transfer has its withdrawal in it, and a handler
  that is going to release it has taken it over: no other handler is about to, and no transfer
  is open (`Reservations`, `TakenOver`). This is true of handlers that overlap. For the statuses,
  a result that says "paid" was sent for a transfer that paid (`Truth`), and a handler that
  fails a withdrawal has seen its last transfer end, after which no timeout asks for another
  (`Clear`; `Latest` says which transfer the recorded one is).
- Markets. On a market where nobody has raced, one admin or the cron job at most is between its
  read and its write, or about to announce a resolution (`Orderly`, `ClosesAlone`): whoever comes
  then is either refused or makes it a race. So the status that a request was accepted for
  is still the market's when it is carried out (`StillAccepted`), a repeated resolution of a MULTI
  market has cleared the flags of an earlier one before it sets its own, and what is announced
  is what is on record (`Book`). After a cancellation only another cancellation is accepted, after
  a resolution nothing, and the cron job finds active markets only; so a verdict that nobody
  challenges is never challenged again, and nothing else writes status or winner.
- Settlement. The pool is read after the positions and written before them, so the shares
  that are paid are at most those the price was made for, however many trades come in late
  (`PoolAhead`, `GoodRead`); a settlement row, a settled position, a message and a payout of a
  holder are the same amount, due by what the handler read or, without late trades, by the
  tables (`RecordsAgree`): a handler that starts again then writes what it wrote before. A
  refund is published once because closing a position claims it (`SentOnce`, `ToSend`). What is
  shown agrees because an undisturbed settlement leaves no position open (`EndInv`).
- MULTI markets. Pools, positions and trades are three tables of one sum: over the trades of an
  option, over those of a holder, over all (`PoolInv`, `CostInv`, `PotInv`); a price is at most 1
  as a pool that was read is still at most the pot that was read after it (`SeenInv`). For the
  payouts the invariant speaks of promises, the amounts that were published or paid. A
  first settlement promises at most the pot that it divided. A repeated one, when nobody came in
  late, finds either that nothing was published or that no winning position is open
  (`Silent`, `Dry`). For the winners of the verdict (`DueInv`): nothing is settled before the
  settlement has read its shares and its pot, which only grew since the verdict; each winner
  it counted is still to be marked, or marked with the message on its way or paid (`Due`).
- Services. Each service sees a behaviour of `Services` as one of its own in which the others'
  steps are stutters, and has its own invariant.
  - Accounts. `StageInv` says of a handler at each of its awaits what it has read that is
    still so: the rows of codes and sessions only grow, a user or a profile stays, and a tier is
    never lowered, so that a token issued on a tier read earlier is below the tier of now. What
    is claimed of requests that come in turn rests on there being one handler under way
    (`InOrder`): the documents and the status disagree only between its two writes (`KycInv`), a
    refresh owes one session between revoking and creating (`SessionsInv`), and a new code is
    inserted where the old ones of its purpose are void (`CodesInv`). That a changed password
    rests on an acceptance is also true of handlers that overlap: each acceptance is behind a
    change, or with a handler that is hashing (`CodesCount`).
  - Comments. The rows of an author at this minute and the author's requests past the
    cooldown are together at most the requests that overlap (`ThreadInv`); a parent that was
    found is there for good.
  - Notifications. A row is created before the message is acknowledged and a handler that is
    at work has not acknowledged it, so that without a crash the next one finds nothing to
    do (`Told`, `Fed`); a token that a handler has read belongs to an owner of the device.
  - Analytics. The views are sums over the trades and settlements of the tables, and any
    sum over rows is the sum over the groups they fall into (`SumByKey`): by market, by user,
    by day. The rows agree with the messages, and the ranks of the week that the job has
    finished are those of its profits, whatever is consumed in between (`BoardInv`).

Sums. The sums of the models are folds over finite sets. What the library's theorems say with
an operator as parameter cannot be used, so `SumProofs` goes back to a well-founded order, on
pairs of numbers and on the subsets of a finite set, and shows by a least counterexample that
the fold has the values its recursion says, and hence what the sum of an empty set is, of a
set with one more element, of a union, of two functions of which one is below the other, and
so on. Sequences of trades and ledger entries are summed over their indices.

Only model-checked:

- all liveness (`Answered`, `CompletedIsCredited`, `ExpiredIsClosed`, `HoldersGetTheirDue`,
  `RegisteredHasProfile`), which is out of the prover's reach, as are fairness and ENABLED;
- the refuted properties, whose counterexamples are the result.

## 6. Not modelled

- Admin service: each method is one HTTP call to a service modelled here; it keeps no state.
- Gateway: the reverse proxy, and the rooms of markets, whose messages carry prices that anyone
  may read.
- Market service: image edits, uploads, categories and price history (single writes or reads
  that no other operation depends on), and its copy of the option pools, which is written
  like that of the binary ones.
- User service: names, texts and referrals (displayed only), suspension (see above).
- Feed: the discovery feed, a call to the market service. Comments: the GIF search.
- SMS and push messages that handlers publish at their end and whose failure nobody sees.
- Formats, rounding of displayed amounts, pagination, logging, guards and decorators.
- The CI monitor scripts under `.agents`, `.github` and `.opencode`: tools of the build.

## 7. Plan

1. The refinement of the wallet with payouts: an abstract wallet in which a payout may lose an
   update, so that `Wallet` implements it for every operation.
2. Settlement and trades in one abstract specification of a market's pot, which both `Settlement`
   and `OptionMarket` implement.
3. The parts of the user and feed services that are left out, if they come to depend on
   anything modelled here.
