----------------------------- MODULE PlaceTrade -----------------------------
(***************************************************************************)
(* placeTrade of the trading service on one binary market: every request   *)
(* is a handler that reserves money in the wallet service, commits a trade *)
(* against the pool under an optimistic lock, adds it to the user's        *)
(* position, has the wallet debited and the reservation released, and      *)
(* publishes the result.  Handlers run concurrently, one action per await. *)
(*                                                                         *)
(* The wallet is used through its HTTP endpoints; each call is one atomic  *)
(* operation on the user's purse (what AtomicWallet promises), and its     *)
(* answer may be lost after it took effect.  Faults names what may go      *)
(* wrong in a run: "unreachable" and "lost" HTTP calls and a failed Kafka  *)
(* "publish".  A crash of the process is a handler that takes no further   *)
(* step: the service keeps no record of its handlers and resumes none.     *)
(***************************************************************************)
EXTENDS Integers, Sequences, FiniteSets, Functions

CONSTANTS
  Users,
  Requests,        \* handlers, one per submitted request
  Keys,            \* idempotency keys chosen by clients
  Amounts,         \* KES, positive
  SeedKes,         \* seed of each side of the pool
  OpeningBalance,
  SHARE_PRICE_KES,
  MAX_OPTIMISTIC_LOCK_RETRIES,
  MAX_RELEASE_ATTEMPTS,
  Faults

(* Shares are amounts divided by the price, in floating point; the amounts  *)
(* are such that nothing is rounded.                                       *)
ASSUME PlaceTradeAssumption ==
  /\ Amounts \subseteq Nat \ {0} /\ Amounts # {}
  /\ \A a \in Amounts : a % SHARE_PRICE_KES = 0
  /\ Users # {} /\ Keys # {}
  /\ SeedKes \in Nat /\ OpeningBalance \in Nat
  /\ SHARE_PRICE_KES \in Nat \ {0}
  /\ MAX_OPTIMISTIC_LOCK_RETRIES \in Nat \ {0}
  /\ MAX_RELEASE_ATTEMPTS \in Nat \ {0}
  /\ Faults \subseteq {"unreachable", "lost", "publish"}

VARIABLES
  active,    \* the market accepts trades (its status in the market service)
  pool,      \* the market_pools row
  trades,    \* the trades table in commit order
  position,  \* the positions table
  purse,     \* per user: balance and reserved part in the wallet service
  charged,   \* per key: debits the wallet made for its trade
  mirror,    \* the market service's copy: pools, total volume, number of trades
  req        \* the handlers

vars == <<active, pool, trades, position, purse, charged, mirror, req>>
market == <<active, pool, trades>>
wallet == <<purse, charged>>

Outcomes == {"YES", "NO"}
Side     == [Outcomes -> Nat]
NoPool   == [exists |-> FALSE, kes |-> [o \in Outcomes |-> 0],
             shares |-> [o \in Outcomes |-> 0], version |-> 0]
SeedPool == [NoPool EXCEPT !.exists = TRUE, !.kes = [o \in Outcomes |-> SeedKes]]
Pool     == [exists: BOOLEAN, kes: Side, shares: Side, version: Nat]

Trade == [key: Keys, user: Users, outcome: Outcomes, amount: Amounts,
          poolAtTrade: Side, by: Requests]

(* A position's average price is the set of trades it averages over. *)
Position   == [exists: BOOLEAN, shares: Nat, cost: Nat, averaged: SUBSET Keys]
NoPosition == [exists |-> FALSE, shares |-> 0, cost |-> 0, averaged |-> {}]

Ended    == {"confirmed", "returned", "rejected", "busy"}
Stages   == {"lookup", "check", "reserve", "read", "commit", "average", "position",
             "debit", "settle", "notify", "mirror", "announce", "report", "release"}
Request  == [pc: {"idle"} \cup Stages \cup Ended, user: Users, key: Keys,
             outcome: Outcomes, amount: Amounts, seen: Pool,
             averaged: SUBSET Keys, retries: Nat, attempt: Nat]

TypeOK ==
  /\ active \in BOOLEAN
  /\ pool \in Pool
  /\ trades \in Seq(Trade)
  /\ position \in [Users \X Outcomes -> Position]
  /\ purse \in [Users -> [balance: Int, reserved: Int]]
  /\ charged \in [Keys -> Nat]
  /\ mirror \in [kes: Side, totalVolume: Nat, tradeCount: Nat]
  /\ req \in [Requests -> Request]

-----------------------------------------------------------------------------
calcSharesReceived(amountKes) == amountKes \div SHARE_PRICE_KES

(* The requests that clients are going to submit; two may have one key. *)
Submissions == [pc: {"idle"}, user: Users, key: Keys, outcome: Outcomes,
                amount: Amounts, seen: {NoPool}, averaged: {{}}, retries: {0},
                attempt: {1}]

Init ==
  /\ active = TRUE
  /\ pool = NoPool
  /\ trades = <<>>
  /\ position = [h \in Users \X Outcomes |-> NoPosition]
  /\ purse = [u \in Users |-> [balance |-> OpeningBalance, reserved |-> 0]]
  /\ charged = [k \in Keys |-> 0]
  /\ mirror = [kes |-> [o \in Outcomes |-> SeedKes], totalVolume |-> 0, tradeCount |-> 0]
  /\ req \in [Requests -> Submissions]

SetReq(r, q) == req' = [req EXCEPT ![r] = q]
Goto(r, pc)  == SetReq(r, [req[r] EXCEPT !.pc = pc, !.attempt = 1])
At(r, pc)    == req[r].pc = pc

(* The market service closes the market; the activation consumer creates   *)
(* the pool (an upsert with an empty update).                              *)
CloseMarket ==
  /\ active
  /\ active' = FALSE
  /\ UNCHANGED <<pool, trades, position, wallet, mirror, req>>

InitMarketPool ==
  /\ ~pool.exists
  /\ pool' = SeedPool
  /\ UNCHANGED <<active, trades, position, wallet, mirror, req>>

Submit(r) ==
  /\ At(r, "idle")
  /\ Goto(r, "lookup")
  /\ UNCHANGED <<market, position, wallet, mirror>>

TradesOf(k) == {i \in 1..Len(trades) : trades[i].key = k}

(* The idempotency lookup: an earlier trade with the key is returned. *)
Lookup(r) ==
  /\ At(r, "lookup")
  /\ \/ TradesOf(req[r].key) = {} /\ Goto(r, "check")
     \/ \E i \in TradesOf(req[r].key) :
          Goto(r, IF trades[i].user = req[r].user THEN "returned" ELSE "rejected")
  /\ UNCHANGED <<market, position, wallet, mirror>>

AssertMarketActive(r) ==
  /\ At(r, "check")
  /\ \/ Goto(r, IF active THEN "reserve" ELSE "rejected")
     \/ "unreachable" \in Faults /\ Goto(r, "rejected")
  /\ UNCHANGED <<market, position, wallet, mirror>>

-----------------------------------------------------------------------------
(* Calls to the wallet service.                                            *)
Available(u) == purse[u].balance - purse[u].reserved
Hold(u, a)   == purse' = [purse EXCEPT ![u] = [purse[u] EXCEPT !.reserved = purse[u].reserved + a]]
Spend(u, a)  == purse' = [purse EXCEPT ![u] = [purse[u] EXCEPT !.balance = purse[u].balance - a]]

ReserveWalletFunds(r) ==
  LET u == req[r].user
      a == req[r].amount
  IN  /\ At(r, "reserve")
      /\ \/ Available(u) >= a /\ Hold(u, a) /\ Goto(r, "read")
         \/ Available(u) < a /\ Goto(r, "rejected") /\ UNCHANGED purse
         \/ "unreachable" \in Faults /\ Goto(r, "rejected") /\ UNCHANGED purse
         \/ /\ "lost" \in Faults
            /\ Available(u) >= a
            /\ Hold(u, a)
            /\ Goto(r, "rejected")
      /\ UNCHANGED <<market, position, charged, mirror>>

(* The first half of confirmWalletDebit, while the reservation still       *)
(* counts against the available balance.                                   *)
Charge(r) ==
  /\ Available(req[r].user) >= req[r].amount
  /\ Spend(req[r].user, req[r].amount)
  /\ charged' = [charged EXCEPT ![req[r].key] = charged[req[r].key] + 1]

(* Mutant: the error of the debit call is caught and logged. *)
DebitErrorSwallowed(r) ==
  /\ At(r, "debit")
  /\ \/ Charge(r)
     \/ UNCHANGED wallet
  /\ Goto(r, "settle")
  /\ UNCHANGED <<market, position, mirror>>

ConfirmWalletDebit(r) ==
  /\ At(r, "debit")
  /\ \/ Charge(r) /\ Goto(r, "settle")
     \/ /\ \/ Available(req[r].user) < req[r].amount
           \/ "unreachable" \in Faults
        /\ Goto(r, "release")
        /\ UNCHANGED wallet
     \/ "lost" \in Faults /\ Charge(r) /\ Goto(r, "release")
  /\ UNCHANGED <<market, position, mirror>>

(* releaseWalletReserve: up to MAX_RELEASE_ATTEMPTS calls, then silence.   *)
(* At "settle" it ends confirmWalletDebit, at "release" the failed trade.  *)
AfterRelease(r) == Goto(r, IF At(r, "settle") THEN "notify" ELSE "busy")

NextAttempt(r) ==
  \/ req[r].attempt = MAX_RELEASE_ATTEMPTS /\ AfterRelease(r)
  \/ /\ req[r].attempt < MAX_RELEASE_ATTEMPTS
     /\ SetReq(r, [req[r] EXCEPT !.attempt = req[r].attempt + 1])

ReleaseWalletReserve(r) ==
  /\ At(r, "settle") \/ At(r, "release")
  /\ \/ Hold(req[r].user, -req[r].amount) /\ AfterRelease(r)
     \/ "unreachable" \in Faults /\ NextAttempt(r) /\ UNCHANGED purse
     \/ "lost" \in Faults /\ Hold(req[r].user, -req[r].amount) /\ NextAttempt(r)
  /\ UNCHANGED <<market, position, charged, mirror>>

-----------------------------------------------------------------------------
(* executeTradeWithOptimisticLock.                                         *)
ReadPool(r) ==
  /\ At(r, "read")
  /\ \/ pool.exists /\ SetReq(r, [req[r] EXCEPT !.pc = "commit", !.seen = pool])
     \/ ~pool.exists /\ Goto(r, "release")
  /\ UNCHANGED <<market, position, wallet, mirror>>

(* Mutant: the update names the market only. *)
IgnoresVersion(r) == TRUE

VersionMatches(r) == pool.version = req[r].seen.version

KeyIsNew(r) == TradesOf(req[r].key) = {}

(* Mutant: the stake is taken from its side of the pool. *)
Take(side, o, n) == [side EXCEPT ![o] = side[o] - n]

Add(side, o, n) == [side EXCEPT ![o] = side[o] + n]

(* The transaction: the pool is set to values computed from the read, if   *)
(* its version still matches, and the trade is inserted, if its key is     *)
(* new.                                                                    *)
CommitTrade(r) ==
  LET q == req[r]
  IN  /\ At(r, "commit")
      /\ VersionMatches(r)
      /\ KeyIsNew(r)
      /\ pool' = [pool EXCEPT
                    !.kes = Add(q.seen.kes, q.outcome, q.amount),
                    !.shares = Add(pool.shares, q.outcome,
                                   calcSharesReceived(q.amount)),
                    !.version = pool.version + 1]
      /\ trades' = Append(trades, [key |-> q.key, user |-> q.user,
                                   outcome |-> q.outcome, amount |-> q.amount,
                                   poolAtTrade |-> q.seen.kes, by |-> r])
      /\ Goto(r, "average")
      /\ UNCHANGED <<active, position, wallet, mirror>>

(* Mutant: every database error is taken for a version conflict, and the *)
(* retries are not counted.                                              *)
RetriesAnyError(r) ==
  /\ At(r, "commit")
  /\ ~VersionMatches(r) \/ ~KeyIsNew(r)
  /\ Goto(r, "read")
  /\ UNCHANGED <<market, position, wallet, mirror>>

(* P2025 is retried, the unique key violation is not. *)
CommitFails(r) ==
  /\ At(r, "commit")
  /\ \/ /\ ~VersionMatches(r)
        /\ req[r].retries < MAX_OPTIMISTIC_LOCK_RETRIES - 1
        /\ SetReq(r, [req[r] EXCEPT !.pc = "read",
                                    !.retries = req[r].retries + 1])
     \/ /\ \/ /\ ~VersionMatches(r)
              /\ req[r].retries >= MAX_OPTIMISTIC_LOCK_RETRIES - 1
           \/ VersionMatches(r) /\ ~KeyIsNew(r)
        /\ Goto(r, "release")
  /\ UNCHANGED <<market, position, wallet, mirror>>

Holding(r) == <<req[r].user, req[r].outcome>>

(* getUpdatedAvgPrice reads the position before the upsert writes it. *)
GetUpdatedAvgPrice(r) ==
  /\ At(r, "average")
  /\ SetReq(r, [req[r] EXCEPT !.pc = "position",
                  !.averaged = position[Holding(r)].averaged \cup {req[r].key}])
  /\ UNCHANGED <<market, position, wallet, mirror>>

(* Mutant: the update sets the totals instead of incrementing them. *)
UpsertOverwrites(r) ==
  /\ At(r, "position")
  /\ position' = [position EXCEPT ![Holding(r)] =
                    [exists |-> TRUE, shares |-> calcSharesReceived(req[r].amount),
                     cost |-> req[r].amount, averaged |-> {req[r].key}]]
  /\ Goto(r, "debit")
  /\ UNCHANGED <<market, wallet, mirror>>

UpsertPosition(r) ==
  LET old == position[Holding(r)]
      shares == calcSharesReceived(req[r].amount)
  IN  /\ At(r, "position")
      /\ position' = [position EXCEPT ![Holding(r)] =
                        [exists |-> TRUE, shares |-> old.shares + shares,
                         cost |-> old.cost + req[r].amount,
                         averaged |-> IF old.exists THEN req[r].averaged
                                                    ELSE {req[r].key}]]
      /\ Goto(r, "debit")
      /\ UNCHANGED <<market, wallet, mirror>>

-----------------------------------------------------------------------------
(* notifyMarketPoolUpdate reads the pool, then publishes what it read; the *)
(* topic is keyed by market, so the market service's copy ends at the last *)
(* message published.                                                      *)
ReadForMirror(r) ==
  /\ At(r, "notify")
  /\ SetReq(r, [req[r] EXCEPT !.pc = "mirror", !.seen = pool])
  /\ UNCHANGED <<market, position, wallet, mirror>>

PublishFails(r) ==
  /\ "publish" \in Faults
  /\ At(r, "mirror") \/ At(r, "announce") \/ At(r, "report")
  /\ Goto(r, "release")
  /\ UNCHANGED <<market, position, wallet, mirror>>

(* The market service's consumer sets its pools and adds to its totals. *)
updatePoolStats(kes, volumeDelta) ==
  [kes |-> kes, totalVolume |-> mirror.totalVolume + volumeDelta,
   tradeCount |-> mirror.tradeCount + 1]

PublishPrice(r) ==
  /\ At(r, "mirror")
  /\ mirror' = updatePoolStats(req[r].seen.kes, req[r].amount)
  /\ Goto(r, "announce")
  /\ UNCHANGED <<market, position, wallet>>

(* TRADING_TRADE_CONFIRMED, then ANALYTICS_TRADE_EVENT, then the answer. *)
PublishTrade(r) ==
  /\ \/ At(r, "announce") /\ Goto(r, "report")
     \/ At(r, "report") /\ Goto(r, "confirmed")
  /\ UNCHANGED <<market, position, wallet, mirror>>

Handle(r) ==
  \/ Lookup(r) \/ AssertMarketActive(r) \/ ReserveWalletFunds(r) \/ ReadPool(r)
  \/ CommitTrade(r) \/ CommitFails(r) \/ GetUpdatedAvgPrice(r)
  \/ UpsertPosition(r) \/ ConfirmWalletDebit(r) \/ ReleaseWalletReserve(r)
  \/ ReadForMirror(r) \/ PublishPrice(r) \/ PublishTrade(r) \/ PublishFails(r)

Next ==
  \/ CloseMarket
  \/ InitMarketPool
  \/ \E r \in Requests : Submit(r) \/ Handle(r)

Spec == Init /\ [][Next]_vars

(* A handler whose await is over goes on: the event loop runs it. *)
FairSpec == Spec /\ \A r \in Requests : WF_vars(Handle(r))

-----------------------------------------------------------------------------
(* What users are shown.  Prices are shares of the pool, in percent.       *)
calcPrice(kes, o) ==
  LET total == kes["YES"] + kes["NO"]
  IN  IF total = 0 THEN 50 ELSE (100 * kes[o]) \div total

Shown(u, o) ==
  LET held == position[<<u, o>>]
  IN  [sharesHeld |-> held.shares, costKes |-> held.cost,
       currentValue |-> held.shares * SHARE_PRICE_KES * calcPrice(pool.kes, o)]

getMyPositions(u) ==
  [o \in {x \in Outcomes : position[<<u, x>>].exists} |-> Shown(u, o)]

getMarketHolders(o) == [u \in {x \in Users : position[<<x, o>>].exists} |-> Shown(u, o)]

(* The side with more shares; on a tie the row that comes first. *)
getMarketPosition(u) ==
  {o \in DOMAIN getMyPositions(u) :
     \A x \in DOMAIN getMyPositions(u) : position[<<u, o>>].shares >= position[<<u, x>>].shares}

(* Own trades, and everybody's without their names. *)
getMyTrades(u) == {i \in 1..Len(trades) : trades[i].user = u}

getMarketTrades ==
  [i \in 1..Len(trades) |-> [outcome |-> trades[i].outcome, amountKes |-> trades[i].amount,
                            poolAtTrade |-> trades[i].poolAtTrade]]

(* The market page, served from the market service's copy. *)
getMarket ==
  [yesPrice |-> calcPrice(mirror.kes, "YES"), noPrice |-> calcPrice(mirror.kes, "NO"),
   totalVolume |-> mirror.totalVolume, tradeCount |-> mirror.tradeCount]

-----------------------------------------------------------------------------
After(t) == Add(t.poolAtTrade, t.outcome, t.amount)
Stake(n) == IF n = 0 THEN SeedPool.kes ELSE After(trades[n])

(* Each trade is priced on the pool exactly as the trade before it left    *)
(* it, and the pool holds what the last one left: the optimistic lock lets *)
(* no two trades compute from one read, however their handlers interleave. *)
PricedInSequence ==
  /\ \A i \in 1..Len(trades) : trades[i].poolAtTrade = Stake(i - 1)
  /\ pool.exists => pool.kes = Stake(Len(trades))

(* However often a request is submitted again, also at the same moment,    *)
(* its key has one trade at most, and the user is debited at most once,    *)
(* and never without a trade.                                              *)
ChargedOnce ==
  \A k \in Keys : /\ Cardinality(TradesOf(k)) <= 1
                  /\ charged[k] <= Cardinality(TradesOf(k))

(* A trade that may be uncharged: its handler is still on the way to the    *)
(* debit, or the debit has failed and was answered with `market is busy'.  *)
AwaitsDebit(i)  == req[trades[i].by].pc \in {"average", "position", "debit"}
DebitRefused(i) == req[trades[i].by].pc \in {"release", "busy"}

(* Whatever calls fail on the way, a request that is answered with a new    *)
(* trade was paid for, once.  One that is answered with an earlier trade    *)
(* (its key was submitted before) gets a trade of its own user and key,     *)
(* and that one is paid for too, with two exceptions that the code has: the *)
(* handler that made the trade has not come to its debit, or its debit has  *)
(* failed.  The second lasts: the trade stays CONFIRMED, a retry with the   *)
(* key is answered with it, and nobody is ever charged.                     *)
ConfirmedIsPaid ==
  /\ ChargedOnce
  /\ \A r \in Requests : At(r, "confirmed") => charged[req[r].key] = 1
  /\ \A r \in Requests : At(r, "returned") =>
       \E i \in TradesOf(req[r].key) :
         /\ trades[i].user = req[r].user
         /\ \/ charged[req[r].key] = 1
            \/ AwaitsDebit(i)
            \/ DebitRefused(i)

(* Every request is answered, also if the wallet service and Kafka fail    *)
(* all the time.                                                           *)
Answered ==
  \A r \in Requests : req[r].pc \in Stages ~> req[r].pc \in Ended

-----------------------------------------------------------------------------
(* What trades, requests and what is shown of them add up to.              *)
CostOf(l, S)   == SumFunctionOnSet([i \in 1..Len(l) |-> l[i].amount], S)
SharesOf(l, S) == SumFunctionOnSet([i \in 1..Len(l) |-> calcSharesReceived(l[i].amount)], S)
StakedBy(q, S) == SumFunctionOnSet([r \in Requests |-> q[r].amount], S)
KesOnTape(S)   == SumFunctionOnSet([i \in 1..Len(trades) |-> getMarketTrades[i].amountKes], S)

(* Trades that their handlers have not yet added to the position. *)
Pending(i) == req[trades[i].by].pc \in {"average", "position"}
Booked(h)  == {i \in 1..Len(trades) :
                 <<trades[i].user, trades[i].outcome>> = h /\ ~Pending(i)}

(* What the holders of a side are shown adds up to their trades, which are *)
(* committed in a transaction of their own before the position is written. *)
PositionsMatchTrades ==
  \A o \in Outcomes : \A u \in Users :
    LET mine == Booked(<<u, o>>)
    IN  IF mine = {} THEN u \notin DOMAIN getMarketHolders(o)
        ELSE /\ mine \subseteq getMyTrades(u)
             /\ getMyPositions(u)[o].costKes = CostOf(trades, mine)
             /\ getMarketHolders(o)[u].sharesHeld = SharesOf(trades, mine)
             /\ getMarketPosition(u) = {o} =>
                  \A x \in Outcomes : CostOf(trades, mine) >= position[<<u, x>>].cost

(* The public list of trades explains the pool. *)
TapeExplainsPool ==
  pool.exists => \A o \in Outcomes :
    pool.kes[o] = SeedKes + KesOnTape({i \in 1..Len(trades) : getMarketTrades[i].outcome = o})

(* The market page counts exactly the trades whose handlers have told it,  *)
(* once each, although its copy of the pools may be overtaken by an older  *)
(* one; and its prices are those of the pool as it was after some trade.   *)
Told == {i \in 1..Len(trades) : req[trades[i].by].pc \in {"announce", "report", "confirmed"}}
PageCountsTrades ==
  /\ Faults = {} =>
       /\ getMarket.tradeCount = Cardinality(Told)
       /\ getMarket.totalVolume = CostOf(trades, Told)
  /\ \E i \in 0..Len(trades) :
       /\ getMarket.yesPrice = calcPrice(Stake(i), "YES")
       /\ getMarket.noPrice = calcPrice(Stake(i), "NO")

(* The reserved part of a balance is what is locked in pending trades.     *)
Locked(u) == {r \in Requests : /\ req[r].user = u
                               /\ req[r].pc \in {"read", "commit", "average", "position",
                                                 "debit", "settle", "release"}}
ReservedIsPending ==
  Faults = {} => \A u \in Users : purse[u].reserved = StakedBy(req, Locked(u))

(* Every trade of a user who has twice the stakes of all submitted         *)
(* requests is paid once its handler has answered.  (One who has just      *)
(* enough may get a trade for nothing: the debit asks for the amount while *)
(* the reservation still counts, after the trade was committed.)           *)
Submitted(u) == {r \in Requests : req[r].user = u /\ req[r].pc # "idle"}
CoveredIsPaid ==
  Faults = {} => \A i \in 1..Len(trades) :
    (/\ req[trades[i].by].pc \in Ended
     /\ OpeningBalance >= 2 * StakedBy(req, Submitted(trades[i].user)))
      => charged[trades[i].key] = 1

(* The books of the trading service agree with one another and with the    *)
(* wallet at every moment, whatever handlers are under way: positions,     *)
(* trades, pool, the market page, reservations and charges.                *)
BooksMatchTrades ==
  /\ ChargedOnce /\ PositionsMatchTrades /\ TapeExplainsPool /\ PageCountsTrades
  /\ ReservedIsPending /\ CoveredIsPaid

=============================================================================
