----------------------------- MODULE Settlement -----------------------------
(***************************************************************************)
(* What follows the verdict on one binary market: the market service has   *)
(* published `resolved' or `cancelled', the trading service settles or     *)
(* refunds the positions one await at a time, and the wallet service pays  *)
(* what trading publishes.  A trade that passed its check of the market    *)
(* before the verdict may still write its pool and its position.           *)
(*                                                                         *)
(* Stakes: a share costs a fixed price, so the shares of a position, its   *)
(* cost and the shares of a pool are one number each.  Pot is the total    *)
(* pool net of the rake that the resolved message carries.                 *)
(*                                                                         *)
(* The faults of a behaviour are chosen once, one of FaultModels: an await *)
(* that "throw"s or a failed "publish" ends the handler, which is then     *)
(* done with its message (the consumer logs the error); a "crash" has the  *)
(* broker deliver the message again; and "late" trades finish after the    *)
(* verdict.                                                                *)
(***************************************************************************)
EXTENDS Integers, Sequences, FiniteSets, Functions

CONSTANTS
  Users,
  Verdicts,       \* the verdicts the market service may publish
  MaxStake,       \* bound: stake of a position before the verdict
  Pot,            \* a multiple of every number of winning shares
  MaxLateTrades,  \* bound: trades that finish after the verdict
  MaxCrashes,     \* bound: times a message is delivered again
  FaultModels     \* the sets of faults that behaviours may have

Outcomes == {"YES", "NO"}
Messages == Outcomes \cup {"CANCEL"}

ASSUME SettlementAssumption ==
  /\ IsFiniteSet(Users) /\ Users # {}
  /\ Verdicts \subseteq Messages /\ Verdicts # {}
  /\ MaxStake \in Nat /\ Pot \in Nat /\ MaxLateTrades \in Nat /\ MaxCrashes \in Nat
  /\ FaultModels \subseteq SUBSET {"throw", "publish", "crash", "late"}

Holders == Users \X Outcomes

VARIABLES
  faults,    \* what may go wrong in this behaviour
  verdict,   \* what the market service published
  stake,     \* positions: totalShares (and totalCostKes); 0 is no row
  settled,   \* positions: isSettled
  payout,    \* positions: payoutKes
  pool,      \* market_pools: yesShares, noShares
  record,    \* settlements: payoutKes per holder, None if there is no row
  trade,     \* the late trade in flight
  lates,     \* late trades so far
  con,       \* the consumer of the verdict
  fanout,    \* messages for the wallet: payouts
  refunds,   \* messages for the wallet: refunds, in order
  paid,      \* the wallet's PAYOUT entry per settlement id, None if there is none
  refunded   \* the wallet's REFUND entries per holder, their number and sum

positions == <<stake, settled, payout>>
market    == <<pool, trade, lates>>
wallet    == <<paid, refunded>>
vars == <<faults, verdict, positions, market, record, con, fanout, refunds, wallet>>

None   == -1
Money  == Nat \cup {None}
Losing == IF verdict = "YES" THEN "NO" ELSE "YES"
Of(o)  == {h \in Holders : h[2] = o}
Open(H) == {h \in H : stake[h] > 0 /\ ~settled[h]}

Payouts == [holder: Holders, amount: Nat]
Refunds == [holder: Holders, amount: Nat]
Waiting == [pc |-> "find", todo |-> {}, shares |-> [h \in Holders |-> 0], den |-> 0,
            current |-> CHOOSE h \in Holders : TRUE, out |-> {}, crashes |-> 0]

Consumer ==
  [pc: {"find", "pool", "record", "mark", "losers", "close", "publish", "done"},
   todo: SUBSET Holders, shares: [Holders -> Nat], den: Nat,
   current: Holders, out: SUBSET Payouts, crashes: 0..MaxCrashes]

TypeOK ==
  /\ faults \in FaultModels
  /\ verdict \in Verdicts
  /\ stake \in [Holders -> Nat]
  /\ settled \in [Holders -> BOOLEAN]
  /\ payout \in [Holders -> Money]
  /\ pool \in [Outcomes -> Nat]
  /\ record \in [Holders -> Money]
  /\ trade \in [pc: {"idle", "position"}, holder: Holders]
  /\ lates \in 0..MaxLateTrades
  /\ con \in Consumer
  /\ fanout \subseteq Payouts
  /\ refunds \in Seq(Refunds)
  /\ paid \in [Holders -> Money]
  /\ refunded \in [Holders -> [times: Nat, sum: Nat]]

Init ==
  /\ faults \in FaultModels
  /\ verdict \in Verdicts
  /\ stake \in [Holders -> 0..MaxStake]
  /\ settled = [h \in Holders |-> FALSE]
  /\ payout = [h \in Holders |-> None]
  /\ pool = [o \in Outcomes |-> SumFunctionOnSet(stake, Of(o))]
  /\ record = [h \in Holders |-> None]
  /\ trade = [pc |-> "idle", holder |-> CHOOSE h \in Holders : TRUE]
  /\ lates = 0
  /\ con = Waiting
  /\ fanout = {}
  /\ refunds = <<>>
  /\ paid = [h \in Holders |-> None]
  /\ refunded = [h \in Holders |-> [times |-> 0, sum |-> 0]]

-----------------------------------------------------------------------------
(* The late trade: its transaction grows the pool, then its upsert the     *)
(* position, which stays settled if it was.                                *)
TradePool ==
  /\ "late" \in faults
  /\ trade.pc = "idle"
  /\ lates < MaxLateTrades
  /\ lates' = lates + 1
  /\ \E h \in Holders :
       /\ pool' = [pool EXCEPT ![h[2]] = @ + 1]
       /\ trade' = [pc |-> "position", holder |-> h]
  /\ UNCHANGED <<faults, verdict, positions, record, con, fanout, refunds, wallet>>

TradePosition ==
  /\ trade.pc = "position"
  /\ stake' = [stake EXCEPT ![trade.holder] = @ + 1]
  /\ trade' = [trade EXCEPT !.pc = "idle"]
  /\ UNCHANGED <<faults, verdict, settled, payout, pool, lates, record, con, fanout, refunds,
                 wallet>>

-----------------------------------------------------------------------------
(* settleMarket: the open winning positions (none: nothing is done), ...   *)
Resolving == verdict \in Outcomes
Stay      == UNCHANGED <<faults, verdict, market>>

(* Mutant: the sides are swapped. *)
FindLosingSide ==
  LET winners == Open(Of(Losing))
  IN  /\ Resolving
      /\ con.pc = "find"
      /\ con' = IF winners = {} THEN [con EXCEPT !.pc = "done"]
                ELSE [con EXCEPT !.pc = "pool", !.todo = winners, !.shares = stake]
      /\ Stay /\ UNCHANGED <<positions, record, fanout, refunds, wallet>>

FindWinners ==
  LET winners == Open(Of(verdict))
  IN  /\ Resolving
      /\ con.pc = "find"
      /\ con' = IF winners = {} THEN [con EXCEPT !.pc = "done"]
                ELSE [con EXCEPT !.pc = "pool", !.todo = winners, !.shares = stake]
      /\ Stay /\ UNCHANGED <<positions, record, fanout, refunds, wallet>>

(* ... the pool, for the winning shares, ...                               *)
ReadPool ==
  /\ con.pc = "pool"
  /\ con' = [con EXCEPT !.pc = "record", !.den = pool[verdict]]
  /\ Stay /\ UNCHANGED <<positions, record, fanout, refunds, wallet>>

(* Mutant: the rake is a percentage, and one less the rake is negative. *)
PercentRake(h) == IF con.den = 0 THEN 0 ELSE con.shares[h] * (Pot \div con.den) * (1 - 4)

PayoutOf(h) == IF con.den = 0 THEN 0 ELSE con.shares[h] * (Pot \div con.den)

(* ... for each position the settlement row, an upsert that changes        *)
(* nothing when there is one, ...                                          *)
RecordSettlement ==
  /\ con.pc = "record"
  /\ \E h \in con.todo :
       /\ record' = IF record[h] = None THEN [record EXCEPT ![h] = PayoutOf(h)]
                                        ELSE record
       /\ con' = [con EXCEPT !.pc = "mark", !.current = h, !.todo = @ \ {h}]
  /\ Stay /\ UNCHANGED <<positions, fanout, refunds, wallet>>

(* Mutant: the loop returns after its first position. *)
MarkFirstWinner ==
  LET h == con.current
  IN  /\ con.pc = "mark"
      /\ settled' = [settled EXCEPT ![h] = TRUE]
      /\ payout' = [payout EXCEPT ![h] = PayoutOf(h)]
      /\ con' = [con EXCEPT !.pc = "losers",
                            !.out = @ \cup {[holder |-> h, amount |-> PayoutOf(h)]}]
      /\ Stay /\ UNCHANGED <<stake, record, fanout, refunds, wallet>>

(* ... and the position, ...                                               *)
MarkWinner ==
  LET h == con.current
  IN  /\ con.pc = "mark"
      /\ settled' = [settled EXCEPT ![h] = TRUE]
      /\ payout' = [payout EXCEPT ![h] = PayoutOf(h)]
      /\ con' = [con EXCEPT !.pc = IF con.todo = {} THEN "losers" ELSE "record",
                            !.out = @ \cup {[holder |-> h, amount |-> PayoutOf(h)]}]
      /\ Stay /\ UNCHANGED <<stake, record, fanout, refunds, wallet>>

(* ... the open losing positions, read for their messages, ...             *)
FindLosers ==
  /\ con.pc = "losers"
  /\ con' = [con EXCEPT !.pc = "close", !.todo = Open(Of(Losing))]
  /\ Stay /\ UNCHANGED <<positions, record, fanout, refunds, wallet>>

(* ... then settled by a condition, not by what was read, ...              *)
Close(H) ==
  /\ settled' = [h \in Holders |-> settled[h] \/ h \in Open(H)]
  /\ payout' = [h \in Holders |-> IF h \in Open(H) THEN 0 ELSE payout[h]]

CloseLosers ==
  /\ Resolving
  /\ con.pc = "close"
  /\ Close(Of(Losing))
  /\ con' = [con EXCEPT !.pc = "publish",
                        !.out = @ \cup {[holder |-> h, amount |-> 0] : h \in con.todo}]
  /\ Stay /\ UNCHANGED <<stake, record, fanout, refunds, wallet>>

(* ... and one batch of messages.                                          *)
PublishSettlements ==
  /\ Resolving
  /\ con.pc = "publish"
  /\ \/ fanout' = fanout \cup con.out
     \/ "publish" \in faults /\ UNCHANGED fanout
  /\ con' = [con EXCEPT !.pc = "done"]
  /\ Stay /\ UNCHANGED <<positions, record, refunds, wallet>>

-----------------------------------------------------------------------------
(* refundMarket: every open position, read, then settled by a condition,   *)
(* then one message each.                                                  *)
FindRefundable ==
  /\ verdict = "CANCEL"
  /\ con.pc = "find"
  /\ con' = [con EXCEPT !.pc = "close", !.todo = Open(Holders), !.shares = stake]
  /\ Stay /\ UNCHANGED <<positions, record, fanout, refunds, wallet>>

CloseRefunded ==
  /\ verdict = "CANCEL"
  /\ con.pc = "close"
  /\ Close(Holders)
  /\ con' = [con EXCEPT !.pc = "publish"]
  /\ Stay /\ UNCHANGED <<stake, record, fanout, refunds, wallet>>

PublishRefund ==
  /\ verdict = "CANCEL"
  /\ con.pc = "publish"
  /\ \/ /\ con.todo = {}
        /\ con' = [con EXCEPT !.pc = "done"]
        /\ UNCHANGED refunds
     \/ \E h \in con.todo :
          /\ refunds' = Append(refunds, [holder |-> h, amount |-> con.shares[h]])
          /\ con' = [con EXCEPT !.todo = @ \ {h}]
     \/ /\ "publish" \in faults
        /\ con' = [con EXCEPT !.pc = "done"]
        /\ UNCHANGED refunds
  /\ Stay /\ UNCHANGED <<positions, record, fanout, wallet>>

-----------------------------------------------------------------------------
(* An await of the handler throws: the message counts as handled. *)
Throw ==
  /\ "throw" \in faults
  /\ con.pc # "done"
  /\ con' = [con EXCEPT !.pc = "done"]
  /\ Stay /\ UNCHANGED <<positions, record, fanout, refunds, wallet>>

(* The process stops before the offset is committed. *)
Crash ==
  /\ "crash" \in faults
  /\ con.crashes < MaxCrashes
  /\ con' = [Waiting EXCEPT !.crashes = con.crashes + 1]
  /\ Stay /\ UNCHANGED <<positions, record, fanout, refunds, wallet>>

(* The wallet's consumers (modules Wallet for their detail): a payout      *)
(* whose settlement id is in the ledger is skipped, a refund is credited.  *)
PayWinner ==
  /\ \E m \in fanout :
       /\ paid' = IF paid[m.holder] = None
                  THEN [paid EXCEPT ![m.holder] = m.amount] ELSE paid
       /\ fanout' = fanout \ {m}
  /\ Stay /\ UNCHANGED <<positions, record, con, refunds, refunded>>

CreditRefund ==
  /\ refunds # <<>>
  /\ LET m == Head(refunds) IN
       refunded' = [refunded EXCEPT ![m.holder] = [times |-> @.times + 1,
                                                   sum   |-> @.sum + m.amount]]
  /\ refunds' = Tail(refunds)
  /\ Stay /\ UNCHANGED <<positions, record, con, fanout, paid>>

Settle == \/ FindWinners \/ ReadPool \/ RecordSettlement \/ MarkWinner
          \/ FindLosers \/ CloseLosers \/ PublishSettlements
          \/ FindRefundable \/ CloseRefunded \/ PublishRefund

Next == \/ TradePool \/ TradePosition \/ Settle \/ Throw \/ Crash
        \/ PayWinner \/ CreditRefund

Spec == Init /\ [][Next]_vars

(* The broker delivers and the consumers go on. *)
FairSpec ==
  /\ Spec
  /\ WF_vars(Settle) /\ WF_vars(PayWinner) /\ WF_vars(CreditRefund)
  /\ WF_vars(TradePosition)

-----------------------------------------------------------------------------
(* What is shown: open positions, results, and the admins' roster, where a *)
(* refunded position looks like a lost one.                                *)
Rows(u)     == {h \in Holders : h[1] = u /\ stake[h] > 0}
PaidOut(h)  == IF payout[h] = None THEN 0 ELSE payout[h]

getMyPositions(u) == {h \in Rows(u) : ~settled[h]}

getMyResults(u) == [h \in {x \in Rows(u) : settled[x]} |-> PaidOut(h)]

getMarketRoster ==
  LET rows == UNION {Rows(u) : u \in Users}
  IN  [winners |-> {h \in rows : settled[h] /\ PaidOut(h) > 0},
       losers  |-> {h \in rows : settled[h] /\ PaidOut(h) = 0},
       totalStakedKes  |-> SumFunctionOnSet(stake, rows),
       totalPaidOutKes |-> SumFunctionOnSet([h \in rows |-> PaidOut(h)], rows)]

-----------------------------------------------------------------------------
(* Payouts never exceed the pot, also when trades that were under way at   *)
(* the verdict finish while the market is being settled: the pool is read  *)
(* after the positions and written before them.                            *)
Received(h)   == IF paid[h] = None THEN 0 ELSE paid[h]
PaidInAll     == SumFunctionOnSet([h \in Holders |-> Received(h)], Holders)
PaidWithinPot == PaidInAll <= Pot

(* What a winner is paid is what the settlement row and the position say,  *)
(* also after a run that stopped half way was repeated; and only holders   *)
(* of the winning outcome are paid anything.                               *)
PaidIsRecorded ==
  \A h \in Holders :
    paid[h] \notin {None, 0} => /\ h[2] = verdict
                                /\ record[h] = paid[h] /\ payout[h] = paid[h]

(* A position is refunded once and, unless trades come in late, in full,   *)
(* and never on a resolved market, however often the cancellation is       *)
(* delivered.                                                              *)
RefundedOnce ==
  \A h \in Holders :
    /\ refunded[h].times <= 1
    /\ refunded[h].times = 1 => verdict = "CANCEL"
    /\ refunded[h].times = 1 /\ "late" \notin faults => refunded[h].sum = stake[h]

(* What users and admins are shown of the market agrees with the money:    *)
(* winners are paid at most what their results say, the roster says what   *)
(* is paid out in all, and it is within the pot; and when the settlement   *)
(* has ended unhindered, nobody is left in the list of open positions but  *)
(* the losers of a market that nobody won.                                 *)
ShownIsPaid ==
  LET roster == getMarketRoster
  IN  /\ PaidInAll <= roster.totalPaidOutKes
      /\ roster.totalPaidOutKes <= Pot
      /\ \A h \in Holders : paid[h] \notin {None, 0} =>
           h \in roster.winners /\ getMyResults(h[1])[h] = paid[h]
      /\ faults = {} /\ con.pc = "done" /\ con.out \cup Range(refunds) # {} =>
           \A u \in Users : getMyPositions(u) = {}

(* Payouts and refunds are within the pot, recorded, shown, and made once. *)
PaidAsRecorded == PaidWithinPot /\ PaidIsRecorded /\ RefundedOnce /\ ShownIsPaid

(* The winners of a resolved market are paid in the end, if they held their*)
(* position at the verdict and the handler is neither stopped nor fails,   *)
(* also while trades come in late.  (The documentation of the resolve      *)
(* endpoint has no condition; a crash between marking a winner and the     *)
(* publish leaves the winner unpaid for good.)                             *)
AtVerdict(h) == stake[h] > 0 /\ lates = 0 /\ con.pc = "find"
Uninterrupted == faults \subseteq {"late"}
VerdictWinnersArePaid ==
  \A h \in Holders :
    Uninterrupted /\ AtVerdict(h) /\ h[2] = verdict ~> paid[h] > 0

(* Likewise all who hold a position when the market is cancelled get their *)
(* refund.                                                                 *)
VerdictHoldersAreRefunded ==
  \A h \in Holders :
    Uninterrupted /\ AtVerdict(h) /\ verdict = "CANCEL" ~> refunded[h].times = 1

(* Both: everybody gets what is due. *)
HoldersGetTheirDue == VerdictWinnersArePaid /\ VerdictHoldersAreRefunded

=============================================================================
