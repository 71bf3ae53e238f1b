----------------------------- MODULE OptionMarket -----------------------------
(***************************************************************************)
(* One MULTI market in the trading service: its option pools, the trades   *)
(* on them, and the settlement or cancellation that the market service     *)
(* announces.  Where a binary trade writes computed values under a version *)
(* check (module PlaceTrade), an option trade increments, prices itself on *)
(* two reads, and writes its position inside the transaction; settlement   *)
(* sums the shares of the positions instead of reading the pool's.         *)
(*                                                                         *)
(* A share costs SHARE_PRICE_KES, so shares and cost are one number; the   *)
(* rake is one factor of every payout and is left out.  The wallet is what *)
(* its answers show: a hold or a debit is granted or refused.              *)
(*                                                                         *)
(* The faults of a behaviour are chosen once: "refuse"d wallet calls,      *)
(* failed "publish"es, and a "crash" of the settlement, whose message is   *)
(* then delivered again.                                                   *)
(***************************************************************************)
EXTENDS Integers, Sequences, FiniteSets, Functions

CONSTANTS
  Users, Options, Requests, Keys,
  Elsewhere,      \* an option of another market
  Amounts,        \* KES, positive
  SeedKes,        \* seed of each option
  MAX_OPTIMISTIC_LOCK_RETRIES,
  Wishes,         \* per request the set of submissions it may be
  MaxCrashes,     \* bound: times the verdict is delivered again
  FaultModels     \* the sets of faults that behaviours may have

ASSUME OptionMarketAssumption ==
  /\ IsFiniteSet(Users) /\ IsFiniteSet(Options)
  /\ Amounts \subseteq Nat \ {0} /\ Amounts # {}
  /\ Options # {} /\ Elsewhere \notin Options
  /\ SeedKes \in Nat /\ MaxCrashes \in Nat
  /\ MAX_OPTIMISTIC_LOCK_RETRIES \in Nat \ {0}
  /\ FaultModels \subseteq SUBSET {"refuse", "publish", "crash"}

VARIABLES
  faults,    \* what may go wrong in this behaviour
  status,    \* of the market in the market service
  winner,    \* its winning option, once it is resolved
  pool,      \* option_pools
  trades,    \* option_trades in commit order
  position,  \* option_positions; cost 0 is no row
  charged,   \* debits the wallet made per key
  held,      \* reservations less releases the wallet made per request
  req,       \* the handlers of placeOptionTrade
  con,       \* the consumer of the verdict
  fanout,    \* settlement messages on their way to the wallet
  paid,      \* the wallet's PAYOUT entry per settlement id, None if there is none
  refunded   \* holders whose refund was published

market == <<status, winner>>
books  == <<pool, trades, position>>
wallet == <<charged, held>>
end    == <<con, fanout, paid, refunded>>
vars   == <<faults, market, books, wallet, req, end>>

None    == -1
Holders == Users \X Options
Row     == [exists: BOOLEAN, kes: Nat, version: Nat]
Held    == [cost: Nat, settled: BOOLEAN, payout: Nat]
Trade   == [key: Keys, user: Users, option: Options, amount: Amounts,
            own: Nat, pot: Nat]
Payouts == [holder: Holders, amount: Nat]
Ended   == {"confirmed", "returned", "rejected", "failed"}
Stages  == {"lookup", "pool", "check", "reserve", "read", "pot", "commit", "debit",
            "settle", "notify", "publish", "release"}
Request == [pc: Stages \cup Ended, user: Users, key: Keys,
            option: Options \cup {Elsewhere}, amount: Amounts, seen: Row, pot: Nat,
            attempt: Nat]
NoRow   == [exists |-> FALSE, kes |-> 0, version |-> 0]
Waiting == [pc |-> "pools", pot |-> 0, todo |-> {}, shares |-> [h \in Holders |-> 0], out |-> {},
            crashes |-> 0, before |-> 0]

Consumer ==
  [pc: {"pools", "winners", "mark", "losers", "close", "publish", "done"},
   pot: Nat, todo: SUBSET Holders, shares: [Holders -> Nat], out: SUBSET Payouts,
   crashes: 0..MaxCrashes, before: Nat]

TypeOK ==
  /\ faults \in FaultModels
  /\ status \in {"DRAFT", "ACTIVE", "RESOLVED", "CANCELLED"}
  /\ winner \in Options
  /\ pool \in [Options -> Row]
  /\ trades \in Seq(Trade)
  /\ position \in [Holders -> Held]
  /\ charged \in [Keys -> Nat]
  /\ held \in [Requests -> -1..1]
  /\ req \in [Requests -> Request]
  /\ con \in Consumer
  /\ fanout \subseteq Payouts
  /\ paid \in [Holders -> Nat \cup {None}]
  /\ refunded \subseteq Holders

Pools       == {o \in Options : pool[o].exists}
Pot         == SumFunctionOnSet([o \in Options |-> pool[o].kes], Pools)
TradesOf(k) == {i \in 1..Len(trades) : trades[i].key = k}

Submissions == [pc: {"lookup"}, user: Users, key: Keys,
                option: Options \cup {Elsewhere}, amount: Amounts, seen: {NoRow},
                pot: {0}, attempt: {0}]

Init ==
  /\ faults \in FaultModels
  /\ status = "DRAFT"
  /\ winner = CHOOSE o \in Options : TRUE
  /\ pool = [o \in Options |-> NoRow]
  /\ trades = <<>>
  /\ position = [h \in Holders |-> [cost |-> 0, settled |-> FALSE, payout |-> 0]]
  /\ charged = [k \in Keys |-> 0]
  /\ held = [r \in Requests |-> 0]
  /\ req \in {q \in [Requests -> Submissions] : \A r \in Requests : q[r] \in Wishes[r]}
  /\ con = Waiting
  /\ fanout = {}
  /\ paid = [h \in Holders |-> None]
  /\ refunded = {}

-----------------------------------------------------------------------------
(* The market service activates the market, and resolves or cancels it     *)
(* once (module Market); each is a message for the trading service.        *)
Activate ==
  /\ status = "DRAFT"
  /\ status' = "ACTIVE"
  /\ UNCHANGED <<faults, winner, books, wallet, req, end>>

Verdict ==
  /\ status = "ACTIVE"
  /\ \/ status' = "RESOLVED" /\ winner' \in Options
     \/ status' = "CANCELLED" /\ UNCHANGED winner
  /\ con' = [con EXCEPT !.before = Len(trades)]
  /\ UNCHANGED <<faults, books, wallet, req, fanout, paid, refunded>>

(* The activation consumer: one upsert per option, with an empty update. *)
initOptionPools ==
  /\ status # "DRAFT"
  /\ \E o \in Options \ Pools :
       pool' = [pool EXCEPT ![o] = [NoRow EXCEPT !.exists = TRUE, !.kes = SeedKes]]
  /\ UNCHANGED <<faults, market, trades, position, wallet, req, end>>

-----------------------------------------------------------------------------
(* placeOptionTrade. *)
SetReq(r, q) == req' = [req EXCEPT ![r] = q]
Goto(r, pc)  == SetReq(r, [req[r] EXCEPT !.pc = pc])
At(r, pc)    == req[r].pc = pc
Aside        == UNCHANGED <<faults, market, end>>

Lookup(r) ==
  /\ At(r, "lookup")
  /\ \/ TradesOf(req[r].key) = {} /\ Goto(r, "pool")
     \/ \E i \in TradesOf(req[r].key) :
          Goto(r, IF trades[i].user = req[r].user THEN "returned" ELSE "rejected")
  /\ UNCHANGED <<books, wallet>> /\ Aside

FindPool(r) ==
  /\ At(r, "pool")
  /\ Goto(r, IF req[r].option \in Pools THEN "check" ELSE "rejected")
  /\ UNCHANGED <<books, wallet>> /\ Aside

assertMarketActive(r) ==
  /\ At(r, "check")
  /\ Goto(r, IF status = "ACTIVE" THEN "reserve" ELSE "rejected")
  /\ UNCHANGED <<books, wallet>> /\ Aside

ReserveWalletFunds(r) ==
  /\ At(r, "reserve")
  /\ \/ held' = [held EXCEPT ![r] = held[r] + 1] /\ Goto(r, "read")
     \/ "refuse" \in faults /\ Goto(r, "rejected") /\ UNCHANGED held
  /\ UNCHANGED <<books, charged>> /\ Aside

(* executeOptionTrade reads the option's pool, then every pool. *)
ReadPool(r) ==
  /\ At(r, "read")
  /\ SetReq(r, [req[r] EXCEPT !.pc = "pot", !.seen = pool[req[r].option]])
  /\ UNCHANGED <<books, wallet>> /\ Aside

ReadPot(r) ==
  /\ At(r, "pot")
  /\ SetReq(r, [req[r] EXCEPT !.pc = "commit", !.pot = Pot])
  /\ UNCHANGED <<books, wallet>> /\ Aside

(* Mutant: the update names the option only. *)
IgnoresVersion(r) == TRUE

VersionMatches(r) == pool[req[r].option].version = req[r].seen.version

(* Mutant: the position is set to what this trade bought. *)
PositionSet(h, r) == [position[h] EXCEPT !.cost = req[r].amount]

PositionAfter(h, r) == [position[h] EXCEPT !.cost = position[h].cost + req[r].amount]

(* The transaction: the pool if its version still matches, the trade if    *)
(* its key is new, and the position, read again behind the pool's row lock.*)
CommitTrade(r) ==
  LET q == req[r]
      o == q.option
      h == <<q.user, o>>
  IN  /\ At(r, "commit")
      /\ VersionMatches(r)
      /\ TradesOf(q.key) = {}
      /\ pool' = [pool EXCEPT ![o] = [exists  |-> TRUE,
                                      kes     |-> pool[o].kes + q.amount,
                                      version |-> pool[o].version + 1]]
      /\ trades' = Append(trades, [key |-> q.key, user |-> q.user, option |-> o,
                                   amount |-> q.amount, own |-> q.seen.kes,
                                   pot |-> q.pot])
      /\ position' = [position EXCEPT ![h] = PositionAfter(h, r)]
      /\ Goto(r, "debit")
      /\ UNCHANGED wallet /\ Aside

MayRetry(r) ==
  ~VersionMatches(r) /\ req[r].attempt < MAX_OPTIMISTIC_LOCK_RETRIES - 1

(* A lost version race is tried again, a key that is taken is not. *)
CommitFails(r) ==
  /\ At(r, "commit")
  /\ ~VersionMatches(r) \/ TradesOf(req[r].key) # {}
  /\ IF MayRetry(r)
     THEN SetReq(r, [req[r] EXCEPT !.pc = "read", !.attempt = req[r].attempt + 1])
     ELSE Goto(r, "release")
  /\ UNCHANGED <<books, wallet>> /\ Aside

ConfirmWalletDebit(r) ==
  /\ At(r, "debit")
  /\ \/ /\ charged' = [charged EXCEPT ![req[r].key] = charged[req[r].key] + 1]
        /\ Goto(r, "settle")
     \/ "refuse" \in faults /\ Goto(r, "release") /\ UNCHANGED charged
  /\ UNCHANGED <<books, held>> /\ Aside

(* All attempts of releaseWalletReserve: after the debit, or for a trade   *)
(* that failed; when none succeeds the reservation stays.                  *)
ReleaseWalletReserve(r) ==
  /\ At(r, "settle") \/ At(r, "release")
  /\ Goto(r, IF At(r, "settle") THEN "notify" ELSE "failed")
  /\ \/ held' = [held EXCEPT ![r] = held[r] - 1]
     \/ "refuse" \in faults /\ UNCHANGED held
  /\ UNCHANGED <<books, charged>> /\ Aside

(* notifyOptionPoolUpdate, the confirmation and the analytics event; the   *)
(* first publish that fails sends the handler to its catch block.          *)
Announce(r) ==
  /\ At(r, "notify")
  /\ \/ Goto(r, "confirmed")
     \/ "publish" \in faults /\ Goto(r, "release")
  /\ UNCHANGED <<books, wallet>> /\ Aside

Handle(r) ==
  \/ Lookup(r) \/ FindPool(r) \/ assertMarketActive(r) \/ ReserveWalletFunds(r)
  \/ ReadPool(r) \/ ReadPot(r) \/ CommitTrade(r) \/ CommitFails(r)
  \/ ConfirmWalletDebit(r) \/ ReleaseWalletReserve(r) \/ Announce(r)

-----------------------------------------------------------------------------
(* settleOptionMarket: the pools, for the pot (none: nothing is done), ... *)
Open(H) == {h \in H : position[h].cost > 0 /\ ~position[h].settled}
Of(o)   == Users \X {o}
Losing  == Holders \ Of(winner)
Still   == UNCHANGED <<faults, market, wallet, req>>

ReadPools ==
  /\ status = "RESOLVED"
  /\ con.pc = "pools"
  /\ con' = [con EXCEPT !.pc = IF Pools = {} THEN "done" ELSE "winners", !.pot = Pot]
  /\ Still /\ UNCHANGED <<books, fanout, paid, refunded>>

(* ... the open winning positions and the sum of their shares, ...         *)
FindWinners ==
  LET winners == Open(Of(winner))
  IN  /\ con.pc = "winners"
      /\ con' = IF winners = {} THEN [con EXCEPT !.pc = "done"]
                ELSE [con EXCEPT !.pc = "mark", !.todo = winners,
                                 !.shares = [h \in Holders |-> IF h \in winners
                                                        THEN position[h].cost ELSE 0]]
      /\ Still /\ UNCHANGED <<books, fanout, paid, refunded>>

(* Mutant: the rake is a percentage, and one less the rake is negative. *)
PercentRake(h) == con.shares[h] * con.pot * (1 - 4)

(* Mutant: every winner is paid the pot. *)
WholePot(h) == con.pot

payoutKes(h) == (con.shares[h] * con.pot) \div SumFunctionOnSet(con.shares, Holders)

Settled(h, kes) == [position[h] EXCEPT !.settled = TRUE, !.payout = kes]

(* Mutant: the loop returns after its first position. *)
MarkFirstWinner ==
  /\ con.pc = "mark"
  /\ \E h \in con.todo :
       /\ position' = [position EXCEPT ![h] = Settled(h, payoutKes(h))]
       /\ con' = [con EXCEPT !.pc = "losers", !.todo = {},
                             !.out = {[holder |-> h, amount |-> payoutKes(h)]}]
  /\ Still /\ UNCHANGED <<pool, trades, fanout, paid, refunded>>

(* ... each winner, with the shares it was read with, ...                  *)
MarkWinner ==
  /\ con.pc = "mark"
  /\ \E h \in con.todo :
       /\ position' = [position EXCEPT ![h] = Settled(h, payoutKes(h))]
       /\ con' = [con EXCEPT !.pc = IF con.todo = {h} THEN "losers" ELSE "mark",
                             !.todo = con.todo \ {h},
                             !.out = con.out \cup {[holder |-> h,
                                                    amount |-> payoutKes(h)]}]
  /\ Still /\ UNCHANGED <<pool, trades, fanout, paid, refunded>>

(* ... the open losing positions for their messages, which are then        *)
(* settled by a condition, ...                                             *)
FindLosers ==
  /\ con.pc = "losers"
  /\ con' = [con EXCEPT !.pc = "close",
               !.out = con.out \cup [holder: Open(Losing), amount: {0}]]
  /\ Still /\ UNCHANGED <<books, fanout, paid, refunded>>

CloseLosers ==
  /\ con.pc = "close"
  /\ position' = [h \in Holders |-> IF h \in Open(Losing) THEN Settled(h, 0)
                                                          ELSE position[h]]
  /\ con' = [con EXCEPT !.pc = "publish"]
  /\ Still /\ UNCHANGED <<pool, trades, fanout, paid, refunded>>

(* ... and one batch of messages; if it fails, the consumer logs the error *)
(* and the message counts as handled.                                      *)
PublishSettlements ==
  /\ con.pc = "publish"
  /\ con' = [con EXCEPT !.pc = "done"]
  /\ \/ fanout' = fanout \cup con.out
     \/ "publish" \in faults /\ UNCHANGED fanout
  /\ Still /\ UNCHANGED <<books, paid, refunded>>

(* refundMarket reads, settles and refunds open rows of the positions      *)
(* table.  A MULTI market has none there, whatever option_positions holds. *)
RefundMarket ==
  /\ status = "CANCELLED"
  /\ con.pc = "pools"
  /\ con' = [con EXCEPT !.pc = "done"]
  /\ Still /\ UNCHANGED <<books, fanout, paid, refunded>>

(* The process stops before the offset is committed. *)
Crash ==
  /\ "crash" \in faults
  /\ status = "RESOLVED"
  /\ con.crashes < MaxCrashes
  /\ con' = [Waiting EXCEPT !.crashes = con.crashes + 1, !.before = con.before]
  /\ Still /\ UNCHANGED <<books, fanout, paid, refunded>>

(* The wallet (module Wallet for its detail): a settlement id, made of     *)
(* market, user and option label, is paid once.                            *)
PayWinner ==
  /\ \E m \in fanout :
       /\ paid' = [paid EXCEPT ![m.holder] = IF paid[m.holder] = None THEN m.amount
                                             ELSE paid[m.holder]]
       /\ fanout' = fanout \ {m}
  /\ Still /\ UNCHANGED <<books, con, refunded>>

Settle == \/ ReadPools \/ FindWinners \/ MarkWinner \/ FindLosers \/ CloseLosers
          \/ PublishSettlements \/ RefundMarket

Next ==
  \/ Activate \/ Verdict \/ initOptionPools
  \/ \E r \in Requests : Handle(r)
  \/ Settle \/ Crash \/ PayWinner

Spec == Init /\ [][Next]_vars

-----------------------------------------------------------------------------
(* What is shown: prices in percent of the pot, the open positions of a    *)
(* user (by market, or all of them: here the same), and the user's trades. *)
getOptionPrices ==
  [o \in Pools |-> IF Pot = 0 THEN 100 \div Cardinality(Pools) ELSE (100 * pool[o].kes) \div Pot]

getMyOptionPositions(u) ==
  [o \in {x \in Options : <<u, x>> \in Open(Holders)} |->
     [costKes |-> position[<<u, o>>].cost,
      currentValue |-> position[<<u, o>>].cost * getOptionPrices[o]]]

getMarketOptionPositions(u) == getMyOptionPositions(u)

getMyOptionTrades(u) == {i \in 1..Len(trades) : trades[i].user = u}

-----------------------------------------------------------------------------
Stakes(n)      == [i \in 1..n |-> trades[i].amount]
StakesOn(o, n) == SumFunctionOnSet(Stakes(n), {i \in 1..n : trades[i].option = o})
StakeOf(h)     == SumFunctionOnSet(Stakes(Len(trades)),
                    {i \in 1..Len(trades) : <<trades[i].user, trades[i].option>> = h})
StakesBy(u)    == SumFunctionOnSet(Stakes(Len(trades)), getMyOptionTrades(u))
CostShown(u)   ==
  LET mine == getMyOptionPositions(u)
  IN  SumFunctionOnSet([o \in DOMAIN mine |-> mine[o].costKes], DOMAIN mine)
ValueShown     ==
  SumFunctionOnSet([h \in Open(Holders) |-> getMarketOptionPositions(h[1])[h[2]].currentValue],
                   Open(Holders))

(* The three tables agree after every transaction: a pool is its seed and  *)
(* the trades on it, a position its user's trades; users are shown the     *)
(* cost of their trades until the verdict, and values that together do not *)
(* exceed the pot.  A key stands for one trade, for which the user is      *)
(* debited once at most, however many requests carry it, and once if it is *)
(* confirmed.                                                              *)
BooksAgree ==
  /\ \A o \in Pools : pool[o].kes = SeedKes + StakesOn(o, Len(trades))
  /\ \A h \in Holders : position[h].cost = StakeOf(h)
  /\ status \in {"DRAFT", "ACTIVE"} => \A u \in Users : CostShown(u) = StakesBy(u)
  /\ ValueShown <= 100 * Pot
  /\ \A k \in Keys : /\ Cardinality(TradesOf(k)) <= 1
                     /\ charged[k] <= Cardinality(TradesOf(k))
  /\ \A r \in Requests : At(r, "confirmed") => charged[req[r].key] = 1

(* An option trade is priced on its option's pool exactly as the trade     *)
(* before left it, over a pot that is never more than the true pot and     *)
(* never less than that pool: no price exceeds 1, and trades on the other  *)
(* options between the two reads and the commit can only make it too high. *)
PricedOnItsPool ==
  \A i \in 1..Len(trades) :
    LET t == trades[i] IN
    /\ t.own = SeedKes + StakesOn(t.option, i - 1)
    /\ t.own <= t.pot
    /\ t.pot <= SeedKes * Cardinality(Options) + SumFunctionOnSet(Stakes(i-1), 1..i-1)

(* The wallet never pays out more than the pot, also when a settlement     *)
(* that stopped half way is repeated on the positions that are left, and   *)
(* when trades finish while it runs (but not both: the repetition shares   *)
(* the whole pot among those who came late).                               *)
Received(h) == IF paid[h] = None THEN 0 ELSE paid[h]
PaysThePot  ==
  con.crashes = 0 \/ Len(trades) = con.before =>
    SumFunctionOnSet([h \in Holders |-> Received(h)], Holders) <= Pot

(* Once the settlement is done and its messages are consumed, everybody    *)
(* who held the winning option at the verdict is paid, as the position     *)
(* shows, a part of at least the stakes of that time, for at least the     *)
(* shares held then; and every losing position of that time is closed.     *)
(* Also when trades came in late, which the settlement may see or not;     *)
(* unless it was stopped or could not publish.                             *)
HeldAtVerdict(h)  == \E i \in 1..con.before : <<trades[i].user, trades[i].option>> = h
StakeAtVerdict(h) == SumFunctionOnSet(Stakes(con.before),
                       {i \in 1..con.before : <<trades[i].user, trades[i].option>> = h})
StakesAtVerdict   == SumFunctionOnSet(Stakes(con.before), 1..con.before)
Done == con.pc = "done" /\ fanout = {}
VerdictWinnersArePaid ==
  status = "RESOLVED" /\ Done /\ faults \subseteq {"refuse"} =>
    \A h \in Of(winner) : HeldAtVerdict(h) =>
      /\ paid[h] = payoutKes(h) /\ paid[h] = position[h].payout
      /\ con.shares[h] >= StakeAtVerdict(h) /\ con.pot >= StakesAtVerdict
      /\ \A l \in Losing : HeldAtVerdict(l) => position[l].settled

(* Once the cancellation is done the holders are refunded, as the          *)
(* documentation of the cancel endpoint says.  Refuted: refundMarket looks *)
(* at the positions of binary markets only.                                *)
HoldersAreRefunded ==
  status = "CANCELLED" /\ Done => \A h \in Holders : HeldAtVerdict(h) => h \in refunded
=============================================================================
