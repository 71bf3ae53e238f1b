--------------------------- MODULE PlaceTradeProofs ---------------------------
(***************************************************************************)
(* What holds of placeTrade for every number of users, requests and keys,  *)
(* all amounts, and whatever calls fail.                                   *)
(***************************************************************************)
EXTENDS PlaceTrade, SumProofs, SequenceTheorems, TLAPS

-----------------------------------------------------------------------------
(* Types.                                                                  *)

PC == {"idle"} \cup Stages \cup Ended

LEMMA PoolFacts == NoPool \in Pool /\ SeedPool \in Pool
<1>1. [o \in Outcomes |-> 0] \in Side /\ [o \in Outcomes |-> SeedKes] \in Side
  BY PlaceTradeAssumption DEF Side
<1>2. NoPool \in Pool
  BY <1>1 DEF NoPool, Pool
<1> QED BY <1>1, <1>2 DEF SeedPool, NoPool, Pool

LEMMA RequestFields ==
  ASSUME NEW q \in Request
  PROVE  /\ q.pc \in PC /\ q.user \in Users /\ q.key \in Keys
         /\ q.outcome \in Outcomes /\ q.amount \in Nat \ {0} /\ q.amount \in Amounts
         /\ q.seen \in Pool /\ q.averaged \in SUBSET Keys
         /\ q.retries \in Nat /\ q.attempt \in Nat
BY PlaceTradeAssumption DEF Request, PC

LEMMA RequestUpdate ==
  ASSUME NEW q \in Request, NEW pc \in PC, NEW n \in Nat, NEW s \in Pool,
         NEW ks \in SUBSET Keys
  PROVE  /\ [q EXCEPT !.pc = pc, !.attempt = n] \in Request
         /\ [q EXCEPT !.attempt = n] \in Request
         /\ [q EXCEPT !.pc = pc, !.seen = s] \in Request
         /\ [q EXCEPT !.pc = pc, !.retries = n] \in Request
         /\ [q EXCEPT !.pc = pc, !.averaged = ks] \in Request
BY DEF Request, PC

LEMMA SharesType == \A a \in Nat : calcSharesReceived(a) \in Nat
BY PlaceTradeAssumption DEF calcSharesReceived

LEMMA AddType ==
  ASSUME NEW s \in Side, NEW o \in Outcomes, NEW n \in Nat
  PROVE  Add(s, o, n) \in Side
BY DEF Add, Side

LEMMA SetReqType ==
  ASSUME TypeOK, NEW r \in Requests, NEW q \in Request, SetReq(r, q)
  PROVE  req' \in [Requests -> Request]
BY DEF TypeOK, SetReq

LEMMA GotoType ==
  ASSUME TypeOK, NEW r \in Requests, NEW pc \in PC, Goto(r, pc)
  PROVE  req' \in [Requests -> Request]
<1>1. [req[r] EXCEPT !.pc = pc, !.attempt = 1] \in Request
  BY RequestUpdate, PoolFacts DEF TypeOK
<1> QED BY <1>1, SetReqType DEF Goto

LEMMA PurseType ==
  ASSUME TypeOK, NEW u \in Users, NEW a \in Int
  PROVE  /\ Hold(u, a) => purse' \in [Users -> [balance: Int, reserved: Int]]
         /\ Spend(u, a) => purse' \in [Users -> [balance: Int, reserved: Int]]
<1> DEFINE P == [balance: Int, reserved: Int]
<1>1. purse[u] \in P /\ purse[u].reserved + a \in Int /\ purse[u].balance - a \in Int
  BY DEF TypeOK
<1>2. /\ [purse[u] EXCEPT !.reserved = purse[u].reserved + a] \in P
      /\ [purse[u] EXCEPT !.balance = purse[u].balance - a] \in P
  BY <1>1
<1> QED BY <1>2 DEF TypeOK, Hold, Spend

LEMMA ChargeType ==
  ASSUME TypeOK, NEW r \in Requests, Charge(r)
  PROVE  /\ purse' \in [Users -> [balance: Int, reserved: Int]]
         /\ charged' \in [Keys -> Nat]
<1>1. req[r].user \in Users /\ req[r].key \in Keys /\ req[r].amount \in Int
  BY RequestFields DEF TypeOK
<1>2. charged[req[r].key] + 1 \in Nat
  BY <1>1 DEF TypeOK
<1> QED BY <1>1, <1>2, PurseType DEF Charge, TypeOK

LEMMA InitType == Init => TypeOK
<1> SUFFICES ASSUME Init PROVE TypeOK
  OBVIOUS
<1>1. Submissions \subseteq Request
  BY PoolFacts DEF Submissions, Request
<1>2. NoPosition \in Position
  BY DEF NoPosition, Position
<1>3. [kes |-> [o \in Outcomes |-> SeedKes], totalVolume |-> 0, tradeCount |-> 0]
        \in [kes: Side, totalVolume: Nat, tradeCount: Nat]
  BY PlaceTradeAssumption DEF Side
<1>4. purse \in [Users -> [balance: Int, reserved: Int]]
  BY PlaceTradeAssumption DEF Init
<1>5. << >> \in Seq(Trade)
  OBVIOUS
<1> QED BY <1>1, <1>2, <1>3, <1>4, <1>5, PoolFacts DEF Init, TypeOK

LEMMA CommitType ==
  ASSUME TypeOK, NEW r \in Requests, CommitTrade(r)
  PROVE  TypeOK'
<1> DEFINE q == req[r]
           shares == calcSharesReceived(q.amount)
           kes2 == Add(q.seen.kes, q.outcome, q.amount)
           shares2 == Add(pool.shares, q.outcome, shares)
           v == pool.version + 1
           t == [key |-> q.key, user |-> q.user, outcome |-> q.outcome,
                 amount |-> q.amount, poolAtTrade |-> q.seen.kes, by |-> r]
<1>1. /\ q.key \in Keys /\ q.user \in Users /\ q.outcome \in Outcomes
      /\ q.amount \in Amounts /\ q.amount \in Nat
      /\ q.seen \in Pool /\ pool \in Pool
  BY RequestFields DEF TypeOK
<1>2. q.seen.kes \in Side /\ pool.shares \in Side /\ v \in Nat
  BY <1>1 DEF Pool
<1>3. shares \in Nat
  BY <1>1, SharesType
<1>4. kes2 \in Side /\ shares2 \in Side
  BY <1>1, <1>2, <1>3, AddType
<1>5. t \in Trade
  BY <1>1, <1>2 DEF Trade
<1>6. Append(trades, t) \in Seq(Trade)
  BY <1>5 DEF TypeOK
<1>7. [pool EXCEPT !.kes = kes2, !.shares = shares2, !.version = v] \in Pool
  <2> HIDE DEF kes2, shares2, v
  <2> QED BY <1>1, <1>2, <1>4 DEF Pool
<1>8. req' \in [Requests -> Request]
  BY GotoType DEF CommitTrade, PC, Stages
<1> QED BY <1>6, <1>7, <1>8 DEF CommitTrade, TypeOK, wallet

LEMMA UpsertType ==
  ASSUME TypeOK, NEW r \in Requests, UpsertPosition(r)
  PROVE  TypeOK'
<1> DEFINE q == req[r]
           h == Holding(r)
           old == position[h]
           new == [exists |-> TRUE, shares |-> old.shares + calcSharesReceived(q.amount),
                   cost |-> old.cost + q.amount,
                   averaged |-> IF old.exists THEN q.averaged ELSE {q.key}]
<1>1. /\ q.key \in Keys /\ q.amount \in Nat /\ q.averaged \in SUBSET Keys
      /\ h \in Users \X Outcomes
  BY RequestFields DEF TypeOK, Holding
<1>2. old \in Position
  BY <1>1 DEF TypeOK
<1>3. calcSharesReceived(q.amount) \in Nat
  BY <1>1, SharesType
<1>4. new \in Position
  BY <1>1, <1>2, <1>3 DEF Position
<1>5. req' \in [Requests -> Request]
  BY GotoType DEF UpsertPosition, PC, Stages
<1>6. position' = [position EXCEPT ![h] = new]
  BY DEF UpsertPosition
<1>7. position' \in [Users \X Outcomes -> Position]
  BY <1>1, <1>4, <1>6 DEF TypeOK
<1> QED BY <1>5, <1>7 DEF UpsertPosition, TypeOK, market, wallet

LEMMA HandleType ==
  ASSUME TypeOK, NEW r \in Requests, Handle(r) \/ Submit(r)
  PROVE  TypeOK'
<1> DEFINE RT == req' \in [Requests -> Request]
           WT == purse' \in [Users -> [balance: Int, reserved: Int]]
<1>1. /\ req[r] \in Request /\ req[r].user \in Users /\ req[r].amount \in Nat
      /\ req[r].key \in Keys /\ req[r].seen \in Pool /\ pool \in Pool
      /\ req[r].retries + 1 \in Nat /\ req[r].attempt + 1 \in Nat
      /\ req[r].outcome \in Outcomes /\ -req[r].amount \in Int
  BY RequestFields DEF TypeOK
<1>2. ASSUME UNCHANGED <<active, pool, trades, position, purse, charged, mirror>>, RT
      PROVE  TypeOK'
  BY <1>2 DEF TypeOK
<1>3. CASE \/ Lookup(r) \/ AssertMarketActive(r) \/ PublishTrade(r) \/ PublishFails(r)
           \/ Submit(r)
  <2>1. RT
    BY <1>3, GotoType
       DEF Lookup, AssertMarketActive, PublishTrade, PublishFails, Submit, PC,
           Stages, Ended
  <2> QED BY <1>2, <1>3, <2>1
          DEF Lookup, AssertMarketActive, PublishTrade, PublishFails, Submit,
              market, wallet
<1>4. CASE ReserveWalletFunds(r)
  <2>1. RT
    BY <1>4, GotoType DEF ReserveWalletFunds, PC, Stages, Ended
  <2>2. WT
    BY <1>1, <1>4, PurseType DEF ReserveWalletFunds, TypeOK
  <2> QED BY <1>4, <2>1, <2>2 DEF ReserveWalletFunds, TypeOK, market
<1>5. CASE ReadPool(r)
  <2>1. [req[r] EXCEPT !.pc = "commit", !.seen = pool] \in Request
    BY <1>1, RequestUpdate DEF PC, Stages
  <2>2. RT
    BY <1>5, <2>1, SetReqType, GotoType DEF ReadPool, PC, Stages
  <2> QED BY <1>2, <1>5, <2>2 DEF ReadPool, market, wallet
<1>6. CASE CommitFails(r)
  <2>1. [req[r] EXCEPT !.pc = "read", !.retries = req[r].retries + 1] \in Request
    BY <1>1, RequestUpdate DEF PC, Stages
  <2>2. RT
    BY <1>6, <2>1, SetReqType, GotoType DEF CommitFails, PC, Stages
  <2> QED BY <1>2, <1>6, <2>2 DEF CommitFails, market, wallet
<1>7. CASE GetUpdatedAvgPrice(r)
  <2> DEFINE ks == position[Holding(r)].averaged \cup {req[r].key}
  <2>1. position[Holding(r)] \in Position
    BY <1>1 DEF TypeOK, Holding
  <2>2. ks \in SUBSET Keys
    BY <1>1, <2>1 DEF Position
  <2>3. [req[r] EXCEPT !.pc = "position", !.averaged = ks] \in Request
    BY <1>1, <2>2, RequestUpdate DEF PC, Stages
  <2>4. RT
    BY <1>7, <2>3, SetReqType DEF GetUpdatedAvgPrice
  <2> QED BY <1>2, <1>7, <2>4 DEF GetUpdatedAvgPrice, market, wallet
<1>8. CASE ConfirmWalletDebit(r)
  <2>1. RT
    BY <1>8, GotoType DEF ConfirmWalletDebit, PC, Stages
  <2>2. WT /\ charged' \in [Keys -> Nat]
    BY <1>8, ChargeType DEF ConfirmWalletDebit, TypeOK, wallet
  <2> QED BY <1>8, <2>1, <2>2 DEF ConfirmWalletDebit, TypeOK, market
<1>9. CASE ReleaseWalletReserve(r)
  <2>1. [req[r] EXCEPT !.attempt = req[r].attempt + 1] \in Request
    BY <1>1, RequestUpdate DEF PC, Stages
  <2>2. AfterRelease(r) \/ NextAttempt(r) => RT
    BY <2>1, SetReqType, GotoType DEF AfterRelease, NextAttempt, PC, Stages, Ended
  <2>3. WT
    BY <1>1, <1>9, PurseType DEF ReleaseWalletReserve, TypeOK
  <2> QED BY <1>9, <2>2, <2>3 DEF ReleaseWalletReserve, TypeOK, market
<1>10. CASE ReadForMirror(r)
  <2>1. [req[r] EXCEPT !.pc = "mirror", !.seen = pool] \in Request
    BY <1>1, RequestUpdate DEF PC, Stages
  <2>2. RT
    BY <1>10, <2>1, SetReqType DEF ReadForMirror
  <2> QED BY <1>2, <1>10, <2>2 DEF ReadForMirror, market, wallet
<1>11. CASE PublishPrice(r)
  <2>1. RT
    BY <1>11, GotoType DEF PublishPrice, PC, Stages
  <2>2. req[r].seen.kes \in Side /\ mirror.totalVolume + req[r].amount \in Nat
        /\ mirror.tradeCount + 1 \in Nat
    BY <1>1 DEF TypeOK, Pool
  <2>3. mirror' \in [kes: Side, totalVolume: Nat, tradeCount: Nat]
    BY <1>11, <2>2 DEF PublishPrice, updatePoolStats
  <2> QED BY <1>11, <2>1, <2>3 DEF PublishPrice, TypeOK, market, wallet
<1> QED BY <1>3, <1>4, <1>5, <1>6, <1>7, <1>8, <1>9, <1>10, <1>11,
           CommitType, UpsertType DEF Handle

LEMMA NextType == TypeOK /\ [Next]_vars => TypeOK'
<1> SUFFICES ASSUME TypeOK, [Next]_vars PROVE TypeOK'
  OBVIOUS
<1>1. CASE CloseMarket
  BY <1>1 DEF CloseMarket, TypeOK, wallet
<1>2. CASE InitMarketPool
  BY <1>2, PoolFacts DEF InitMarketPool, TypeOK, wallet
<1>3. CASE UNCHANGED vars
  BY <1>3 DEF vars, TypeOK
<1> QED BY <1>1, <1>2, <1>3, HandleType DEF Next

(* Every state the handlers reach is well typed: in particular no pool,     *)
(* no position and no count of charges ever goes below zero.                *)
THEOREM TypeCorrect == Spec => []TypeOK
BY InitType, NextType, PTL DEF Spec

-----------------------------------------------------------------------------
(* Safety.  The argument: a read that still has the pool's version still    *)
(* has its contents, since only a commit and the creation change the pool;  *)
(* a key has one trade, so one handler that may charge for it, and that     *)
(* handler passes the debit once.                                           *)

Untraded == {"idle", "lookup", "check", "reserve", "read", "commit", "returned", "rejected"}
Owing    == {"average", "position", "debit"}
Paid     == {"settle", "notify", "mirror", "announce", "report", "confirmed"}

SoundRead(q, p) ==
  q.pc = "commit" => /\ p.exists
                     /\ q.seen.version <= p.version
                     /\ q.seen.version = p.version => q.seen.kes = p.kes

OneTradePerKey ==
  \A i, j \in 1..Len(trades) : trades[i].key = trades[j].key => i = j

IsOf(t, q) == /\ t.key = q.key /\ t.user = q.user
              /\ t.outcome = q.outcome /\ t.amount = q.amount

TradeIsItsHandlers ==
  \A i \in 1..Len(trades) : /\ IsOf(trades[i], req[trades[i].by])
                            /\ req[trades[i].by].pc \notin Untraded

HasTrade(r) == \E i \in 1..Len(trades) : trades[i].by = r

ChargeIsOwed ==
  /\ \A r \in Requests : req[r].pc \in Owing \cup Paid => HasTrade(r)
  /\ \A r \in Requests : req[r].pc \in Owing => charged[req[r].key] = 0
  /\ \A r \in Requests : req[r].pc \in Paid => charged[req[r].key] = 1
  /\ \A k \in Keys : charged[k] <= 1
  /\ \A k \in Keys : TradesOf(k) = {} => charged[k] = 0

IInv ==
  /\ TypeOK
  /\ PricedInSequence
  /\ ~pool.exists => trades = << >>
  /\ \A r \in Requests : SoundRead(req[r], pool)
  /\ OneTradePerKey
  /\ TradeIsItsHandlers
  /\ ChargeIsOwed

(* What one step of a handler does to the request and to the tables. *)
Keeps(q, q2) == /\ q2.user = q.user /\ q2.key = q.key
                /\ q2.outcome = q.outcome /\ q2.amount = q.amount

Passes(q, q2) ==
  /\ q2.pc = "commit" => pool.exists /\ q2.seen = pool
  /\ q.pc \notin Untraded => q2.pc \notin Untraded
  /\ q2.pc \in Owing => q.pc \in Owing
  /\ q2.pc \in Paid => q.pc \in Paid
  /\ q2.pc = "returned" => q.pc = "lookup"

Bills(r) ==
  /\ req[r].pc = "debit"
  /\ req'[r].pc \in {"settle", "release"}
  /\ charged' = [charged EXCEPT ![req[r].key] = charged[req[r].key] + 1]

LEMMA SetReqStep ==
  ASSUME TypeOK, NEW r \in Requests, NEW q, SetReq(r, q)
  PROVE  req'[r] = q /\ \A d \in Requests : d # r => req'[d] = req[d]
BY DEF TypeOK, SetReq

LEMMA GotoStep ==
  ASSUME TypeOK, NEW r \in Requests, NEW pc, Goto(r, pc)
  PROVE  /\ req'[r].pc = pc /\ Keeps(req[r], req'[r])
         /\ \A d \in Requests : d # r => req'[d] = req[d]
<1> DEFINE q == [req[r] EXCEPT !.pc = pc, !.attempt = 1]
<1>1. q.pc = pc /\ Keeps(req[r], q)
  BY DEF TypeOK, Request, Keeps
<1>2. SetReq(r, q)
  BY DEF Goto
<1> HIDE DEF q
<1> QED BY <1>1, <1>2, SetReqStep

LEMMA HandleStep ==
  ASSUME TypeOK, NEW r \in Requests, Handle(r) \/ Submit(r)
  PROVE  /\ Keeps(req[r], req'[r])
         /\ \A d \in Requests : d # r => req'[d] = req[d]
         /\ \/ CommitTrade(r) /\ req[r].pc = "commit" /\ req'[r].pc = "average"
            \/ Bills(r) /\ UNCHANGED <<pool, trades>>
            \/ Passes(req[r], req'[r]) /\ UNCHANGED <<pool, trades, charged>>
<1> DEFINE Mine == Keeps(req[r], req'[r])
           Others == \A d \in Requests : d # r => req'[d] = req[d]
<1>1. req[r] \in Request
  BY DEF TypeOK
<1>2. \A pc : Goto(r, pc) => Mine /\ Others /\ req'[r].pc = pc
  BY GotoStep
<1>3. \A q : SetReq(r, q) => Others /\ req'[r] = q
  BY SetReqStep
<1> USE DEF Passes, Untraded, Owing, Paid, At, market, wallet
<1>4. CASE Lookup(r) \/ AssertMarketActive(r) \/ Submit(r)
  BY <1>2, <1>4 DEF Lookup, AssertMarketActive, Submit
<1>5. CASE ReserveWalletFunds(r)
  BY <1>2, <1>5 DEF ReserveWalletFunds
<1>6. CASE ReadPool(r)
  <2>1. CASE ~pool.exists
    BY <1>2, <1>6, <2>1 DEF ReadPool
  <2>2. CASE pool.exists
    <3> DEFINE q == [req[r] EXCEPT !.pc = "commit", !.seen = pool]
    <3>1. q.pc = "commit" /\ q.seen = pool /\ Keeps(req[r], q)
      BY <1>1 DEF Request, Keeps
    <3>2. SetReq(r, q)
      BY <1>6, <2>2 DEF ReadPool
    <3> HIDE DEF q
    <3> QED BY <1>3, <1>6, <2>2, <3>1, <3>2 DEF ReadPool
  <2> QED BY <2>1, <2>2
<1>7. CASE CommitTrade(r)
  BY <1>2, <1>7 DEF CommitTrade
<1>8. CASE CommitFails(r)
  <2> DEFINE q == [req[r] EXCEPT !.pc = "read", !.retries = req[r].retries + 1]
  <2>1. q.pc = "read" /\ Keeps(req[r], q)
    BY <1>1 DEF Request, Keeps
  <2>2. SetReq(r, q) \/ Goto(r, "release")
    BY <1>8 DEF CommitFails
  <2>3. Mine /\ Others /\ req'[r].pc \in {"read", "release"}
    <3> HIDE DEF q
    <3> QED BY <1>2, <1>3, <2>1, <2>2
  <2> QED BY <1>8, <2>3 DEF CommitFails
<1>9. CASE GetUpdatedAvgPrice(r)
  <2> DEFINE q == [req[r] EXCEPT !.pc = "position",
                     !.averaged = position[Holding(r)].averaged \cup {req[r].key}]
  <2>1. q.pc = "position" /\ Keeps(req[r], q)
    BY <1>1 DEF Request, Keeps
  <2>2. SetReq(r, q)
    BY <1>9 DEF GetUpdatedAvgPrice
  <2> HIDE DEF q
  <2> QED BY <1>3, <1>9, <2>1, <2>2 DEF GetUpdatedAvgPrice
<1>10. CASE UpsertPosition(r)
  BY <1>2, <1>10 DEF UpsertPosition
<1>11. CASE ConfirmWalletDebit(r)
  BY <1>2, <1>11 DEF ConfirmWalletDebit, Charge, Bills
<1>12. CASE ReleaseWalletReserve(r)
  <2> DEFINE q == [req[r] EXCEPT !.attempt = req[r].attempt + 1]
  <2>1. q.pc = req[r].pc /\ Keeps(req[r], q)
    BY <1>1 DEF Request, Keeps
  <2>2. AfterRelease(r) \/ SetReq(r, q)
    BY <1>12 DEF ReleaseWalletReserve, NextAttempt
  <2>3. AfterRelease(r) => Mine /\ Others
          /\ req'[r].pc = IF req[r].pc = "settle" THEN "notify" ELSE "busy"
    BY <1>2 DEF AfterRelease
  <2> HIDE DEF q
  <2> QED BY <1>3, <1>12, <2>1, <2>2, <2>3 DEF ReleaseWalletReserve
<1>13. CASE ReadForMirror(r)
  <2> DEFINE q == [req[r] EXCEPT !.pc = "mirror", !.seen = pool]
  <2>1. q.pc = "mirror" /\ Keeps(req[r], q)
    BY <1>1 DEF Request, Keeps
  <2>2. SetReq(r, q)
    BY <1>13 DEF ReadForMirror
  <2> HIDE DEF q
  <2> QED BY <1>3, <1>13, <2>1, <2>2 DEF ReadForMirror
<1>14. CASE PublishPrice(r) \/ PublishTrade(r) \/ PublishFails(r)
  BY <1>2, <1>14 DEF PublishPrice, PublishTrade, PublishFails
<1> QED BY <1>4, <1>5, <1>6, <1>7, <1>8, <1>9, <1>10, <1>11, <1>12, <1>13,
           <1>14 DEF Handle

LEMMA InitInv == Init => IInv
<1> SUFFICES ASSUME Init PROVE IInv
  OBVIOUS
<1>1. TypeOK
  BY InitType
<1>2. /\ trades = << >> /\ Len(trades) = 0 /\ ~pool.exists
      /\ \A r \in Requests : req[r].pc = "idle"
      /\ \A k \in Keys : charged[k] = 0
  BY DEF Init, NoPool, Submissions
<1>3. PricedInSequence /\ OneTradePerKey /\ TradeIsItsHandlers
  BY <1>2 DEF PricedInSequence, OneTradePerKey, TradeIsItsHandlers
<1>4. ChargeIsOwed
  BY <1>2 DEF ChargeIsOwed, Owing, Paid
<1>5. \A r \in Requests : SoundRead(req[r], pool)
  BY <1>2 DEF SoundRead
<1> QED BY <1>1, <1>2, <1>3, <1>4, <1>5 DEF IInv

(* The facts about the tables that every case below needs. *)
LEMMA TableFacts ==
  ASSUME TypeOK
  PROVE  /\ Len(trades) \in Nat
         /\ pool.version \in Nat
         /\ \A i \in 1..Len(trades) : trades[i] \in Trade /\ trades[i].by \in Requests
                                      /\ trades[i].key \in Keys
         /\ \A r \in Requests : /\ req[r] \in Request /\ req[r].key \in Keys
                                /\ req[r].seen.version \in Nat
         /\ \A k \in Keys : charged[k] \in Nat
<1>1. \A i \in 1..Len(trades) : trades[i] \in Trade
  BY DEF TypeOK
<1>2. \A r \in Requests : req[r].seen \in Pool
  BY RequestFields DEF TypeOK
<1> QED BY <1>1, <1>2, RequestFields DEF TypeOK, Trade, Pool

LEMMA CommitInv ==
  ASSUME IInv, NEW r \in Requests, CommitTrade(r), TypeOK',
         req'[r].pc = "average", Keeps(req[r], req'[r]),
         \A d \in Requests : d # r => req'[d] = req[d]
  PROVE  IInv'
<1> DEFINE q == req[r]
           t == [key |-> q.key, user |-> q.user, outcome |-> q.outcome,
                 amount |-> q.amount, poolAtTrade |-> q.seen.kes, by |-> r]
<1>0. PICK n \in Nat : n = Len(trades)
  BY TableFacts DEF IInv
<1>1. /\ n \in Nat /\ pool.version \in Nat /\ trades \in Seq(Trade) /\ q \in Request
      /\ trades' \in Seq(Trade)
  BY TableFacts DEF IInv, TypeOK
<1>2. /\ q.pc = "commit" /\ q.seen.version = pool.version
      /\ TradesOf(q.key) = {} /\ trades' = Append(trades, t) /\ charged' = charged
  BY DEF CommitTrade, At, VersionMatches, KeyIsNew, wallet
<1>3. /\ Len(trades') = n + 1 /\ trades'[n + 1] = t
      /\ \A i \in 1..n : trades'[i] = trades[i]
  BY <1>0, <1>1, <1>2
<1>4. /\ pool.exists /\ q.seen.kes = pool.kes
  BY <1>2 DEF IInv, SoundRead
<1>5. /\ pool'.exists /\ pool'.version = pool.version + 1
      /\ pool'.kes = Add(q.seen.kes, q.outcome, q.amount)
  BY <1>4 DEF CommitTrade, IInv, TypeOK, Pool
<1>6. PricedInSequence'
  <2>1. /\ \A i \in 0..n : Stake(i)' = Stake(i)
        /\ Stake(n + 1)' = pool'.kes
    <3>1. \A i \in 0..n : Stake(i)' = Stake(i)
      BY <1>0, <1>1, <1>3 DEF Stake, After, SeedPool
    <3>2. Stake(n + 1)' = Add(t.poolAtTrade, t.outcome, t.amount)
      BY <1>0, <1>1, <1>3 DEF Stake, After
    <3> QED BY <1>5, <3>1, <3>2
  <2>2. /\ \A i \in 1..n : trades[i].poolAtTrade = Stake(i - 1)
        /\ pool.kes = Stake(n)
    BY <1>0, <1>4 DEF IInv, PricedInSequence
  <2>3. ASSUME NEW i \in 1..(n + 1) PROVE trades'[i].poolAtTrade = Stake(i - 1)'
    <3>1. CASE i = n + 1
      BY <1>0, <1>1, <1>3, <1>4, <2>1, <2>2, <3>1
    <3>2. CASE i \in 1..n
      BY <1>0, <1>1, <1>3, <2>1, <2>2, <3>2
    <3> QED BY <1>0, <1>1, <3>1, <3>2
  <2> QED BY <1>3, <1>5, <2>1, <2>3 DEF PricedInSequence
<1>7. OneTradePerKey'
  <2>1. \A i \in 1..n : trades[i].key # q.key
    BY <1>0, <1>2 DEF TradesOf
  <2> QED BY <1>0, <1>1, <1>3, <2>1 DEF IInv, OneTradePerKey
<1>8. TradeIsItsHandlers'
  <2>1. \A i \in 1..n : trades[i].by \in Requests /\ trades[i].by # r
    BY <1>0, <1>2, TableFacts DEF IInv, TradeIsItsHandlers, Untraded
  <2>2. ASSUME NEW i \in 1..(n + 1)
        PROVE  /\ IsOf(trades'[i], req'[trades'[i].by])
               /\ req'[trades'[i].by].pc \notin Untraded
    <3>1. CASE i = n + 1
      BY <1>3, <3>1 DEF IsOf, Keeps, Untraded
    <3>2. CASE i \in 1..n
      BY <1>0, <1>3, <2>1, <3>2 DEF IInv, TradeIsItsHandlers
    <3> QED BY <1>0, <3>1, <3>2
  <2> QED BY <1>3, <2>2 DEF TradeIsItsHandlers
<1>9. \A d \in Requests : SoundRead(req'[d], pool')
  <2> SUFFICES ASSUME NEW d \in Requests, d # r, req[d].pc = "commit"
               PROVE  SoundRead(req'[d], pool')
    BY DEF SoundRead
  <2> QED BY <1>0, <1>1, <1>5, TableFacts DEF IInv, SoundRead
<1>10. ChargeIsOwed'
  <2>1. charged[q.key] = 0
    BY <1>2, TableFacts DEF IInv, ChargeIsOwed
  <2>2. ASSUME NEW d \in Requests
        PROVE  /\ req'[d].pc \in Owing => charged[req'[d].key] = 0
               /\ req'[d].pc \in Owing \cup Paid => HasTrade(d)'
               /\ req'[d].pc \in Paid => charged[req'[d].key] = 1
    <3>1. CASE d = r
      <4>1. HasTrade(d)'
        BY <1>0, <1>3, <3>1 DEF HasTrade
      <4> QED BY <2>1, <3>1, <4>1 DEF Keeps, Paid
    <3>2. CASE d # r
      <4>1. HasTrade(d) => HasTrade(d)'
        BY <1>0, <1>3 DEF HasTrade
      <4> QED BY <3>2, <4>1 DEF IInv, ChargeIsOwed
    <3> QED BY <3>1, <3>2
  <2>3. \A k \in Keys : TradesOf(k)' = {} => TradesOf(k) = {}
    BY <1>0, <1>1, <1>3 DEF TradesOf
  <2> QED BY <1>2, <2>2, <2>3 DEF IInv, ChargeIsOwed
<1> QED BY <1>5, <1>6, <1>7, <1>8, <1>9, <1>10 DEF IInv

LEMMA BillInv ==
  ASSUME IInv, NEW r \in Requests, Bills(r), UNCHANGED <<pool, trades>>, TypeOK',
         Keeps(req[r], req'[r]), \A d \in Requests : d # r => req'[d] = req[d]
  PROVE  IInv'
<1> DEFINE k0 == req[r].key
<1>1. /\ k0 \in Keys /\ charged \in [Keys -> Nat]
      /\ \A d \in Requests : req'[d].key = req[d].key /\ req[d].key \in Keys
  BY TableFacts DEF IInv, TypeOK, Keeps
<1>2. charged[k0] = 0
  BY DEF Bills, IInv, ChargeIsOwed, Owing
<1>3. PICK i0 \in 1..Len(trades) : trades[i0].by = r /\ trades[i0].key = k0
  BY DEF Bills, IInv, ChargeIsOwed, Owing, TradeIsItsHandlers, IsOf, HasTrade
<1>4. charged'[k0] = 1 /\ \A k \in Keys : k # k0 => charged'[k] = charged[k]
  BY <1>1, <1>2 DEF Bills
<1>5. PricedInSequence' /\ OneTradePerKey'
  BY DEF IInv, PricedInSequence, OneTradePerKey, Stake, After
<1>6. TradeIsItsHandlers'
  <2>1. \A i \in 1..Len(trades) : trades[i].by \in Requests
    BY TableFacts DEF IInv
  <2> QED BY <1>1, <2>1 DEF IInv, TradeIsItsHandlers, Bills, Untraded, IsOf, Keeps
<1>7. \A d \in Requests : SoundRead(req'[d], pool')
  BY DEF IInv, SoundRead, Bills
<1>8. ChargeIsOwed'
  <2>1. ASSUME NEW d \in Requests, req'[d].pc \in Owing
        PROVE  charged'[req'[d].key] = 0
    <3>1. d # r /\ req'[d] = req[d]
      BY <2>1 DEF Bills, Owing
    <3>2. PICK i \in 1..Len(trades) : trades[i].by = d /\ trades[i].key = req[d].key
      BY <2>1, <3>1 DEF IInv, ChargeIsOwed, TradeIsItsHandlers, IsOf, HasTrade
    <3>3. req[d].key # k0
      BY <1>3, <3>1, <3>2 DEF IInv, OneTradePerKey
    <3> QED BY <1>1, <1>4, <2>1, <3>1, <3>2, <3>3 DEF IInv, ChargeIsOwed
  <2>2. ASSUME NEW d \in Requests, req'[d].pc \in Paid
        PROVE  charged'[req'[d].key] = 1
    <3>1. CASE d = r
      BY <1>1, <1>4, <3>1
    <3>2. CASE d # r
      BY <1>1, <1>4, <2>2, <3>2 DEF IInv, ChargeIsOwed
    <3> QED BY <3>1, <3>2
  <2>3. \A k \in Keys : charged'[k] <= 1
    BY <1>4 DEF IInv, ChargeIsOwed
  <2>4. \A k \in Keys : TradesOf(k) = {} => charged'[k] = 0
    BY <1>3, <1>4 DEF IInv, ChargeIsOwed, TradesOf
  <2>5. \A d \in Requests : req'[d].pc \in Owing \cup Paid => HasTrade(d)'
    <3>1. HasTrade(r)'
      BY <1>3 DEF HasTrade
    <3>2. \A d \in Requests : HasTrade(d)' <=> HasTrade(d)
      BY DEF HasTrade
    <3> QED BY <3>1, <3>2 DEF IInv, ChargeIsOwed
  <2>6. \A k \in Keys : TradesOf(k)' = TradesOf(k)
    BY DEF TradesOf
  <2> QED BY <2>1, <2>2, <2>3, <2>4, <2>5, <2>6 DEF ChargeIsOwed
<1> QED BY <1>5, <1>6, <1>7, <1>8 DEF IInv

LEMMA PassInv ==
  ASSUME IInv, NEW r \in Requests, Passes(req[r], req'[r]),
         UNCHANGED <<pool, trades, charged>>, TypeOK',
         Keeps(req[r], req'[r]), \A d \in Requests : d # r => req'[d] = req[d]
  PROVE  IInv'
<1>1. \A d \in Requests : /\ Keeps(req[d], req'[d])
                          /\ req[d].pc \notin Untraded => req'[d].pc \notin Untraded
                          /\ req'[d].pc \in Owing => req[d].pc \in Owing
                          /\ req'[d].pc \in Paid => req[d].pc \in Paid
  BY DEF Keeps, Passes
<1>2. PricedInSequence' /\ OneTradePerKey'
  BY DEF IInv, PricedInSequence, OneTradePerKey, Stake, After
<1>3. TradeIsItsHandlers'
  <2>1. \A i \in 1..Len(trades) : trades[i].by \in Requests
    BY TableFacts DEF IInv
  <2> QED BY <1>1, <2>1 DEF IInv, TradeIsItsHandlers, IsOf, Keeps
<1>4. \A d \in Requests : SoundRead(req'[d], pool')
  <2>1. SoundRead(req'[r], pool')
    BY TableFacts DEF IInv, SoundRead, Passes
  <2>2. \A d \in Requests : d # r => SoundRead(req'[d], pool')
    BY DEF IInv, SoundRead
  <2> QED BY <2>1, <2>2
<1>5. ChargeIsOwed'
  <2>1. \A d \in Requests : HasTrade(d)' <=> HasTrade(d)
    BY DEF HasTrade
  <2>2. \A k \in Keys : TradesOf(k)' = TradesOf(k)
    BY DEF TradesOf
  <2> QED BY <1>1, <2>1, <2>2 DEF IInv, ChargeIsOwed, Keeps
<1> QED BY <1>2, <1>3, <1>4, <1>5 DEF IInv

LEMMA NextInv == IInv /\ [Next]_vars => IInv'
<1> SUFFICES ASSUME IInv, [Next]_vars PROVE IInv'
  OBVIOUS
<1>1. TypeOK'
  BY NextType DEF IInv
<1>2. ASSUME UNCHANGED <<pool, trades, charged, req>> PROVE IInv'
  BY <1>1, <1>2 DEF IInv, PricedInSequence, OneTradePerKey, TradeIsItsHandlers, IsOf,
                    ChargeIsOwed, HasTrade, SoundRead, TradesOf, Stake, After
<1>3. CASE CloseMarket
  BY <1>2, <1>3 DEF CloseMarket, wallet
<1>4. CASE InitMarketPool
  <2>1. /\ trades' = << >> /\ trades = << >> /\ Len(trades) = 0
        /\ pool'.kes = SeedPool.kes /\ pool'.exists
        /\ UNCHANGED <<req, charged>>
    BY <1>4 DEF InitMarketPool, IInv, wallet, SeedPool, NoPool
  <2>2. PricedInSequence' /\ OneTradePerKey' /\ TradeIsItsHandlers'
    BY <2>1 DEF PricedInSequence, OneTradePerKey, TradeIsItsHandlers, Stake
  <2>3. ChargeIsOwed'
    BY <2>1 DEF IInv, ChargeIsOwed, TradesOf, HasTrade
  <2>4. \A r \in Requests : SoundRead(req'[r], pool')
    BY <1>4, <2>1 DEF InitMarketPool, IInv, SoundRead
  <2> QED BY <1>1, <2>1, <2>2, <2>3, <2>4 DEF IInv
<1>5. ASSUME NEW r \in Requests, Submit(r) \/ Handle(r) PROVE IInv'
  BY <1>1, <1>5, HandleStep, CommitInv, BillInv, PassInv DEF IInv
<1>6. CASE UNCHANGED vars
  BY <1>2, <1>6 DEF vars
<1> QED BY <1>3, <1>4, <1>5, <1>6 DEF Next

(* The inductive invariant: a read whose version is still the pool's is the *)
(* pool; a key has the trade of one handler, and only that handler charges. *)
THEOREM InductiveInvariant == Spec => []IInv
BY InitInv, NextInv, PTL DEF Spec

(* Each trade is priced on the pool exactly as the trade before it left     *)
(* it, for every number of handlers, retries and lost calls.                *)
THEOREM PricedInSequenceHolds == Spec => []PricedInSequence
<1>1. IInv => PricedInSequence
  BY DEF IInv
<1> QED BY <1>1, InductiveInvariant, PTL

LEMMA TradesOfKey ==
  ASSUME TypeOK, OneTradePerKey, NEW k \in Keys
  PROVE  /\ Cardinality(TradesOf(k)) = IF TradesOf(k) = {} THEN 0 ELSE 1
<1>1. CASE TradesOf(k) = {}
  BY <1>1, FS_EmptySet
<1>2. CASE TradesOf(k) # {}
  <2>1. PICK i : i \in TradesOf(k)
    BY <1>2
  <2>2. TradesOf(k) = {i}
    BY <2>1 DEF OneTradePerKey, TradesOf
  <2> QED BY <1>2, <2>2, FS_Singleton
<1> QED BY <1>1, <1>2

LEMMA ChargedOnceFollows == IInv => ChargedOnce
BY TradesOfKey, TableFacts DEF IInv, ChargedOnce, ChargeIsOwed

(* A key has one trade and one debit at most, however often and however     *)
(* simultaneously its request is submitted.                                 *)
THEOREM ChargedOnceHolds == Spec => []ChargedOnce
BY ChargedOnceFollows, InductiveInvariant, PTL

(* A request that is answered with an earlier trade is answered with one of *)
(* its user: the lookup saw it, and no trade is ever deleted.               *)
ReturnsOwn(r) == \E i \in TradesOf(req[r].key) : trades[i].user = req[r].user
ReturnedIsOwn == \A r \in Requests : At(r, "returned") => ReturnsOwn(r)

LEMMA ReturnStep ==
  ASSUME IInv, ReturnedIsOwn, NEW r \in Requests, Handle(r) \/ Submit(r)
  PROVE  ReturnedIsOwn'
<1>1. /\ Keeps(req[r], req'[r])
      /\ \A d \in Requests : d # r => req'[d] = req[d]
      /\ \/ CommitTrade(r) /\ req[r].pc = "commit" /\ req'[r].pc = "average"
         \/ Bills(r) /\ UNCHANGED <<pool, trades>>
         \/ Passes(req[r], req'[r]) /\ UNCHANGED <<pool, trades, charged>>
  BY HandleStep DEF IInv
<1>2. trades \in Seq(Trade)
  BY DEF IInv, TypeOK
<1>3. ASSUME NEW k, NEW i \in TradesOf(k)
      PROVE  i \in TradesOf(k)' /\ trades'[i] = trades[i]
  <2>1. CASE UNCHANGED trades
    BY <1>3, <2>1 DEF TradesOf
  <2>2. CASE CommitTrade(r)
    <3>1. PICK t : trades' = Append(trades, t)
      BY <2>2 DEF CommitTrade
    <3> QED BY <1>2, <1>3, <3>1 DEF TradesOf
  <2> QED BY <1>1, <2>1, <2>2
<1>4. ASSUME NEW d \in Requests, req[d].key = req'[d].key, req[d].user = req'[d].user,
             ReturnsOwn(d)
      PROVE  ReturnsOwn(d)'
  <2>1. PICK i \in TradesOf(req[d].key) : trades[i].user = req[d].user
    BY <1>4 DEF ReturnsOwn
  <2>2. i \in TradesOf(req[d].key)' /\ trades'[i].user = req'[d].user
    BY <1>3, <1>4, <2>1
  <2> QED BY <2>2, <1>4 DEF ReturnsOwn, TradesOf
<1>5. ASSUME NEW d \in Requests, d # r, req'[d].pc = "returned"
      PROVE  ReturnsOwn(d)'
  <2>1. req'[d] = req[d]
    BY <1>1, <1>5
  <2> QED BY <1>4, <1>5, <2>1 DEF ReturnedIsOwn, At
<1>6. ASSUME req'[r].pc = "returned"
      PROVE  ReturnsOwn(r)'
  <2>1. req[r].pc = "lookup"
    BY <1>1, <1>6 DEF Bills, Passes
  <2>2. Lookup(r)
    BY <2>1 DEF Handle, Submit, Lookup, AssertMarketActive, ReserveWalletFunds,
                ReadPool, CommitTrade, CommitFails, GetUpdatedAvgPrice,
                UpsertPosition, ConfirmWalletDebit, ReleaseWalletReserve,
                ReadForMirror, PublishPrice, PublishTrade, PublishFails, At
  <2>3. \A pc : Goto(r, pc) => req'[r].pc = pc
    BY GotoStep DEF IInv
  <2>4. ReturnsOwn(r)
    BY <1>6, <2>2, <2>3 DEF Lookup, ReturnsOwn
  <2>5. req[r].key = req'[r].key /\ req[r].user = req'[r].user
    BY <1>1 DEF Keeps
  <2> QED BY <1>4, <2>4, <2>5
<1> QED BY <1>5, <1>6 DEF ReturnedIsOwn, At

LEMMA ReturnInv == Spec => []ReturnedIsOwn
<1>1. Init => ReturnedIsOwn
  BY DEF Init, Submissions, ReturnedIsOwn, At
<1>2. ASSUME IInv, ReturnedIsOwn, [Next]_vars
      PROVE  ReturnedIsOwn'
  <2>1. CASE CloseMarket \/ InitMarketPool \/ UNCHANGED vars
    <3>1. UNCHANGED <<req, trades>>
      BY <2>1 DEF CloseMarket, InitMarketPool, vars, market
    <3> QED BY <1>2, <3>1 DEF ReturnedIsOwn, ReturnsOwn, TradesOf, At
  <2> QED BY <1>2, <2>1, ReturnStep DEF Next
<1> QED BY <1>1, <1>2, InductiveInvariant, PTL DEF Spec

(* Whatever calls to the wallet and to Kafka fail or lose their answer, a   *)
(* request confirmed with a new trade was paid for, exactly once; one that  *)
(* is answered with an earlier trade gets a trade of its own user and key,  *)
(* which is paid for too unless its handler has yet to debit or its debit   *)
(* has failed.                                                              *)
THEOREM ConfirmedIsPaidHolds == Spec => []ConfirmedIsPaid
<1>1. ASSUME IInv, ReturnedIsOwn PROVE ConfirmedIsPaid
  <2>1. \A r \in Requests : At(r, "confirmed") => charged[req[r].key] = 1
    BY <1>1 DEF IInv, ChargeIsOwed, At, Paid
  <2>2. ASSUME NEW r \in Requests, At(r, "returned")
        PROVE  \E i \in TradesOf(req[r].key) :
                 /\ trades[i].user = req[r].user
                 /\ \/ charged[req[r].key] = 1
                    \/ AwaitsDebit(i)
                    \/ DebitRefused(i)
    <3>1. PICK i \in TradesOf(req[r].key) : trades[i].user = req[r].user
      BY <1>1, <2>2 DEF ReturnedIsOwn, ReturnsOwn
    <3> DEFINE d == trades[i].by
    <3>2. i \in 1..Len(trades) /\ trades[i].key = req[r].key /\ trades[i] \in Trade
      BY <1>1, <3>1 DEF TradesOf, IInv, TypeOK
    <3>3. d \in Requests /\ req[d] \in Request
      BY <1>1, <3>2 DEF Trade, IInv, TypeOK
    <3>4. req[d].key = req[r].key /\ req[d].pc \notin Untraded
      BY <1>1, <3>2 DEF IInv, TradeIsItsHandlers, IsOf
    <3>5. req[d].pc \in {"idle"} \cup Stages \cup Ended
      BY <3>3 DEF Request
    <3>6. \/ req[d].pc \in Paid
          \/ req[d].pc \in {"average", "position", "debit"}
          \/ req[d].pc \in {"release", "busy"}
      BY <3>4, <3>5 DEF Untraded, Paid, Stages, Ended
    <3>7. req[d].pc \in Paid => charged[req[r].key] = 1
      BY <1>1, <3>3, <3>4 DEF IInv, ChargeIsOwed
    <3> QED BY <3>1, <3>6, <3>7 DEF AwaitsDebit, DebitRefused
  <2> QED BY <1>1, <2>1, <2>2, ChargedOnceFollows DEF ConfirmedIsPaid
<1> QED BY <1>1, InductiveInvariant, ReturnInv, PTL

-----------------------------------------------------------------------------
(* Books.  A trade is booked once its handler has written the position, so *)
(* each position is the sum of the booked trades of its holder; the pool   *)
(* is the seed and the sum of all trades; and every copy of the pool is    *)
(* one that some trade has left.                                           *)

PositionBooked(h) ==
  /\ position[h].exists <=> Booked(h) # {}
  /\ position[h].cost = CostOf(trades, Booked(h))
  /\ position[h].shares = SharesOf(trades, Booked(h))
  /\ position[h].cost = SHARE_PRICE_KES * position[h].shares

TradesOn(o) == {i \in 1..Len(trades) : trades[i].outcome = o}

PoolIsSum ==
  pool.exists => \A o \in Outcomes : pool.kes[o] = SeedKes + CostOf(trades, TradesOn(o))

IsPast(kes) == \E i \in 0..Len(trades) : kes = Stake(i)

PricesArePast ==
  /\ IsPast(mirror.kes)
  /\ \A r \in Requests : req[r].pc = "mirror" => IsPast(req[r].seen.kes)

BInv ==
  /\ IInv
  /\ \A h \in Users \X Outcomes : PositionBooked(h)
  /\ PoolIsSum
  /\ PricesArePast

(* Sums over trades. *)
LEMMA SharesExact ==
  \A a \in Amounts : /\ a \in Nat /\ calcSharesReceived(a) \in Nat
                     /\ a = SHARE_PRICE_KES * calcSharesReceived(a)
<1>1. \A a \in Amounts : a \in Nat /\ a % SHARE_PRICE_KES = 0 /\ SHARE_PRICE_KES \in Nat \ {0}
  BY PlaceTradeAssumption
<1>2. \A n \in Nat : \A d \in Nat \ {0} : n % d = 0 => n = d * (n \div d)
  OBVIOUS
<1> QED BY <1>1, <1>2, SharesType DEF calcSharesReceived

LEMMA TradeAmount ==
  ASSUME NEW l \in Seq(Trade), NEW i \in 1..Len(l)
  PROVE  /\ l[i] \in Trade /\ l[i].amount \in Amounts /\ l[i].amount \in Nat
         /\ calcSharesReceived(l[i].amount) \in Nat
<1>1. l[i] \in Trade
  OBVIOUS
<1> QED BY <1>1, SharesExact DEF Trade

LEMMA CostFacts ==
  ASSUME NEW l \in Seq(Trade), NEW S \in SUBSET (1..Len(l))
  PROVE  /\ IsFiniteSet(S)
         /\ CostOf(l, S) \in Nat /\ SharesOf(l, S) \in Nat
         /\ \A i \in (1..Len(l)) \ S :
              /\ CostOf(l, S \cup {i}) = CostOf(l, S) + l[i].amount
              /\ SharesOf(l, S \cup {i}) = SharesOf(l, S) + calcSharesReceived(l[i].amount)
<1> DEFINE D == 1..Len(l)
           f == [i \in D |-> l[i].amount]
           e == [i \in D |-> calcSharesReceived(l[i].amount)]
<1>1. IsFiniteSet(D)
  BY FS_Interval
<1>2. \A i \in D : f[i] \in Nat /\ e[i] \in Nat
  BY TradeAmount
<1>3. \A T \in SUBSET D : IsFiniteSet(T) /\ Sums(f, T) /\ Sums(e, T)
  <2> SUFFICES ASSUME NEW T \in SUBSET D PROVE IsFiniteSet(T) /\ Sums(f, T) /\ Sums(e, T)
    OBVIOUS
  <2> HIDE DEF f, e, D
  <2>1. IsFiniteSet(T)
    BY <1>1, FS_Subset
  <2>2. \A i \in T : f[i] \in Int /\ e[i] \in Int
    BY <1>2
  <2> QED BY <2>1, <2>2 DEF Sums
<1>4. CostOf(l, S) \in Nat /\ SharesOf(l, S) \in Nat
  <2>1. SumFunctionOnSet(f, S) \in Nat /\ SumFunctionOnSet(e, S) \in Nat
    <3> HIDE DEF f, e
    <3> QED BY <1>2, <1>3, SumNat
  <2> QED BY <2>1 DEF CostOf, SharesOf
<1>5. ASSUME NEW i \in D \ S
      PROVE  /\ CostOf(l, S \cup {i}) = CostOf(l, S) + l[i].amount
             /\ SharesOf(l, S \cup {i}) = SharesOf(l, S) + calcSharesReceived(l[i].amount)
  <2>1. /\ SumFunctionOnSet(f, S \cup {i}) = f[i] + SumFunctionOnSet(f, S)
        /\ SumFunctionOnSet(e, S \cup {i}) = e[i] + SumFunctionOnSet(e, S)
    <3> HIDE DEF f, e
    <3>1. S \cup {i} \in SUBSET D /\ i \notin S
      OBVIOUS
    <3> QED BY <1>3, <3>1, SumAdd
  <2>2. f[i] = l[i].amount /\ e[i] = calcSharesReceived(l[i].amount)
    OBVIOUS
  <2>3. /\ CostOf(l, S \cup {i}) = l[i].amount + CostOf(l, S)
        /\ SharesOf(l, S \cup {i}) = calcSharesReceived(l[i].amount) + SharesOf(l, S)
    BY <2>1, <2>2 DEF CostOf, SharesOf
  <2>4. l[i].amount \in Nat /\ calcSharesReceived(l[i].amount) \in Nat
    BY TradeAmount
  <2> QED BY <1>4, <2>3, <2>4
<1> QED BY <1>3, <1>4, <1>5

LEMMA NoCost == \A l : CostOf(l, {}) = 0 /\ SharesOf(l, {}) = 0
BY SumEmpty DEF CostOf, SharesOf

LEMMA CostAppend ==
  ASSUME NEW l \in Seq(Trade), NEW t \in Trade, NEW S \in SUBSET (1..Len(l))
  PROVE  /\ CostOf(Append(l, t), S) = CostOf(l, S)
         /\ SharesOf(Append(l, t), S) = SharesOf(l, S)
<1>0. PICK n \in Nat : n = Len(l)
  OBVIOUS
<1> DEFINE m  == Append(l, t)
           f  == [i \in 1..Len(l) |-> l[i].amount]
           e  == [i \in 1..Len(l) |-> calcSharesReceived(l[i].amount)]
           f2 == [i \in 1..Len(m) |-> m[i].amount]
           e2 == [i \in 1..Len(m) |-> calcSharesReceived(m[i].amount)]
<1>1. Len(m) = n + 1 /\ \A i \in 1..n : m[i] = l[i]
  BY <1>0
<1>2. \A i \in 1..n : /\ l[i].amount \in Int /\ calcSharesReceived(l[i].amount) \in Int
  BY <1>0, TradeAmount
<1>3. \A i \in 1..n : i \in 1..(n + 1)
  OBVIOUS
<1>4. \A i \in S : /\ f2[i] = f[i] /\ e2[i] = e[i]
                   /\ f[i] \in Int /\ e[i] \in Int
  <2> SUFFICES ASSUME NEW i \in S
               PROVE  f2[i] = f[i] /\ e2[i] = e[i] /\ f[i] \in Int /\ e[i] \in Int
    OBVIOUS
  <2>1. i \in 1..n /\ i \in 1..(n + 1) /\ i \in 1..Len(l) /\ i \in 1..Len(m)
    BY <1>0, <1>1, <1>3
  <2>2. l[i].amount \in Int /\ calcSharesReceived(l[i].amount) \in Int /\ m[i] = l[i]
    BY <1>1, <1>2, <2>1
  <2> HIDE DEF m
  <2> QED BY <2>1, <2>2
<1>5. IsFiniteSet(S)
  BY CostFacts
<1>6. /\ SumFunctionOnSet(f, S) = SumFunctionOnSet(f2, S)
      /\ SumFunctionOnSet(e, S) = SumFunctionOnSet(e2, S)
  <2> HIDE DEF f, e, f2, e2
  <2>1. Sums(f, S) /\ Sums(e, S)
    BY <1>4, <1>5 DEF Sums
  <2> QED BY <1>4, <2>1, SumSame
<1> QED BY <1>6 DEF CostOf, SharesOf

(* What a handler's step means for the books: it commits a trade, or writes *)
(* a position, or changes neither and stays on its side of the position,    *)
(* and a copy of the pool comes from the pool.                              *)
Unbooked == {"average", "position"}

LEMMA BookStep ==
  ASSUME TypeOK, NEW r \in Requests, Handle(r) \/ Submit(r)
  PROVE  \/ CommitTrade(r) /\ UNCHANGED <<position, mirror>>
         \/ /\ UpsertPosition(r) /\ UNCHANGED <<pool, trades, mirror>>
            /\ req[r].pc = "position" /\ req'[r].pc = "debit"
         \/ /\ UNCHANGED <<pool, trades, position>>
            /\ req[r].pc \in Unbooked <=> req'[r].pc \in Unbooked
            /\ req'[r].pc = "mirror" => req'[r].seen = pool /\ req[r].pc \in Paid
            /\ mirror' # mirror => req[r].pc = "mirror" /\ mirror'.kes = req[r].seen.kes
<1>1. req[r] \in Request
  BY DEF TypeOK
<1>2. \A pc : Goto(r, pc) => req'[r].pc = pc
  BY GotoStep
<1>3. \A q : SetReq(r, q) => req'[r] = q
  BY SetReqStep
<1> USE DEF Unbooked, Paid, At, market, wallet
<1>4. CASE Lookup(r) \/ AssertMarketActive(r) \/ Submit(r)
  BY <1>2, <1>4 DEF Lookup, AssertMarketActive, Submit
<1>5. CASE ReserveWalletFunds(r)
  BY <1>2, <1>5 DEF ReserveWalletFunds
<1>6. CASE ReadPool(r)
  <2> DEFINE q == [req[r] EXCEPT !.pc = "commit", !.seen = pool]
  <2>1. q.pc = "commit"
    BY <1>1 DEF Request
  <2>2. SetReq(r, q) \/ Goto(r, "release")
    BY <1>6 DEF ReadPool
  <2> HIDE DEF q
  <2>3. req'[r].pc \in {"commit", "release"}
    BY <1>2, <1>3, <2>1, <2>2
  <2> QED BY <1>6, <2>3 DEF ReadPool
<1>7. CASE CommitTrade(r)
  BY <1>7 DEF CommitTrade
<1>8. CASE CommitFails(r)
  <2> DEFINE q == [req[r] EXCEPT !.pc = "read", !.retries = req[r].retries + 1]
  <2>1. q.pc = "read"
    BY <1>1 DEF Request
  <2>2. SetReq(r, q) \/ Goto(r, "release")
    BY <1>8 DEF CommitFails
  <2> HIDE DEF q
  <2>3. req'[r].pc \in {"read", "release"}
    BY <1>2, <1>3, <2>1, <2>2
  <2> QED BY <1>8, <2>3 DEF CommitFails
<1>9. CASE GetUpdatedAvgPrice(r)
  <2> DEFINE q == [req[r] EXCEPT !.pc = "position",
                     !.averaged = position[Holding(r)].averaged \cup {req[r].key}]
  <2>1. q.pc = "position"
    BY <1>1 DEF Request
  <2>2. SetReq(r, q)
    BY <1>9 DEF GetUpdatedAvgPrice
  <2> HIDE DEF q
  <2>3. req'[r].pc = "position"
    BY <1>3, <2>1, <2>2
  <2> QED BY <1>9, <2>3 DEF GetUpdatedAvgPrice
<1>10. CASE UpsertPosition(r)
  BY <1>2, <1>10 DEF UpsertPosition
<1>11. CASE ConfirmWalletDebit(r)
  BY <1>2, <1>11 DEF ConfirmWalletDebit
<1>12. CASE ReleaseWalletReserve(r)
  <2> DEFINE q == [req[r] EXCEPT !.attempt = req[r].attempt + 1]
  <2>1. q.pc = req[r].pc
    BY <1>1 DEF Request
  <2>2. AfterRelease(r) \/ SetReq(r, q)
    BY <1>12 DEF ReleaseWalletReserve, NextAttempt
  <2>3. AfterRelease(r) => req'[r].pc = IF req[r].pc = "settle" THEN "notify" ELSE "busy"
    BY <1>2 DEF AfterRelease
  <2> HIDE DEF q
  <2>4. req'[r].pc \in {req[r].pc, "notify", "busy"}
    BY <1>3, <2>1, <2>2, <2>3
  <2> QED BY <1>12, <2>4 DEF ReleaseWalletReserve
<1>13. CASE ReadForMirror(r)
  <2> DEFINE q == [req[r] EXCEPT !.pc = "mirror", !.seen = pool]
  <2>1. q.pc = "mirror" /\ q.seen = pool
    BY <1>1 DEF Request
  <2>2. SetReq(r, q)
    BY <1>13 DEF ReadForMirror
  <2> HIDE DEF q
  <2>3. req'[r].pc = "mirror" /\ req'[r].seen = pool
    BY <1>3, <2>1, <2>2
  <2> QED BY <1>13, <2>3 DEF ReadForMirror
<1>14. CASE PublishPrice(r)
  BY <1>2, <1>14 DEF PublishPrice, updatePoolStats
<1>15. CASE PublishTrade(r) \/ PublishFails(r)
  BY <1>2, <1>15 DEF PublishTrade, PublishFails
<1> QED BY <1>4, <1>5, <1>6, <1>7, <1>8, <1>9, <1>10, <1>11, <1>12, <1>13,
           <1>14, <1>15 DEF Handle

(* The handler's own trade, which is the only one of its key. *)
LEMMA OwnTrade ==
  ASSUME IInv, NEW i \in 1..Len(trades), NEW j \in 1..Len(trades),
         trades[i].by = trades[j].by
  PROVE  i = j
BY DEF IInv, OneTradePerKey, TradeIsItsHandlers, IsOf

LEMMA StakesKept ==
  ASSUME TypeOK, NEW t \in Trade, trades' = Append(trades, t)
  PROVE  \A i \in 0..Len(trades) : Stake(i)' = Stake(i)
<1>1. PICK n \in Nat : n = Len(trades)
  BY TableFacts
<1>2. trades \in Seq(Trade)
  BY DEF TypeOK
<1>3. \A i \in 1..n : trades'[i] = trades[i]
  BY <1>1, <1>2
<1> QED BY <1>1, <1>3 DEF Stake, After, SeedPool

LEMMA CommitBooks ==
  ASSUME BInv, NEW r \in Requests, CommitTrade(r), UNCHANGED <<position, mirror>>, IInv',
         Keeps(req[r], req'[r]), \A d \in Requests : d # r => req'[d] = req[d]
  PROVE  BInv'
<1> DEFINE q == req[r]
           t == [key |-> q.key, user |-> q.user, outcome |-> q.outcome,
                 amount |-> q.amount, poolAtTrade |-> q.seen.kes, by |-> r]
<1>0. PICK n \in Nat : n = Len(trades)
  BY TableFacts DEF BInv, IInv
<1>1. TypeOK /\ TypeOK' /\ IInv
  BY DEF BInv, IInv
<1>2. /\ q.pc = "commit" /\ q.seen.version = pool.version
      /\ trades' = Append(trades, t) /\ req'[r].pc = "average"
  BY <1>1, GotoStep DEF CommitTrade, At, VersionMatches
<1> HIDE DEF t
<1>3. /\ trades \in Seq(Trade) /\ trades' \in Seq(Trade)
      /\ Len(trades') = n + 1 /\ trades'[n + 1] = t
      /\ \A i \in 1..n : trades'[i] = trades[i]
  BY <1>0, <1>1, <1>2 DEF TypeOK
<1>4. n + 1 \in 1..Len(trades') /\ t \in Trade
  BY <1>3
<1>5. t.user = q.user /\ t.outcome = q.outcome /\ t.amount = q.amount /\ t.by = r
  BY DEF t
<1>6. ASSUME NEW h \in Users \X Outcomes PROVE PositionBooked(h)'
  <2>1. \A i \in 1..n : trades[i].by \in Requests /\ trades[i].by # r
    BY <1>0, <1>1, <1>2, TableFacts DEF IInv, TradeIsItsHandlers, Untraded
  <2>2. Booked(h)' = Booked(h)
    <3>1. \A i \in 1..n : i \in Booked(h)' <=> i \in Booked(h)
      BY <1>0, <1>3, <2>1 DEF Booked, Pending
    <3>2. n + 1 \notin Booked(h)'
      BY <1>2, <1>3, <1>5 DEF Booked, Pending
    <3>3. \A i \in Booked(h)' : i \in 1..n
      BY <1>3, <3>2 DEF Booked
    <3>4. \A i \in Booked(h) : i \in 1..n
      BY <1>0 DEF Booked
    <3> QED BY <3>1, <3>3, <3>4
  <2>3. Booked(h) \in SUBSET (1..Len(trades))
    BY DEF Booked
  <2>4. /\ CostOf(trades', Booked(h)) = CostOf(trades, Booked(h))
        /\ SharesOf(trades', Booked(h)) = SharesOf(trades, Booked(h))
    BY <1>2, <1>3, <1>4, <2>3, CostAppend
  <2>5. PositionBooked(h)
    BY DEF BInv
  <2> QED BY <2>2, <2>4, <2>5 DEF PositionBooked
<1>7. PoolIsSum'
  <2>1. pool.exists /\ q.seen.kes = pool.kes
    BY <1>1, <1>2 DEF IInv, SoundRead
  <2>2. pool'.kes = Add(pool.kes, t.outcome, t.amount)
    BY <1>1, <1>5, <2>1 DEF CommitTrade, TypeOK, Pool
  <2>3. ASSUME NEW o \in Outcomes
        PROVE  pool'.kes[o] = SeedKes + CostOf(trades', TradesOn(o)')
    <3>1. TradesOn(o) \in SUBSET (1..Len(trades)) /\ TradesOn(o) \in SUBSET (1..Len(trades'))
      BY <1>0, <1>3 DEF TradesOn
    <3>2. n + 1 \notin TradesOn(o)
      BY <1>0 DEF TradesOn
    <3>3. CostOf(trades', TradesOn(o)) = CostOf(trades, TradesOn(o))
      BY <1>2, <1>3, <1>4, <3>1, CostAppend
    <3>4. CostOf(trades', TradesOn(o) \cup {n + 1}) = CostOf(trades, TradesOn(o)) + t.amount
      BY <1>3, <1>4, <3>1, <3>2, <3>3, CostFacts
    <3>5. TradesOn(o)' = IF o = t.outcome THEN TradesOn(o) \cup {n + 1} ELSE TradesOn(o)
      <4>1. \A i \in 1..n : i \in TradesOn(o)' <=> i \in TradesOn(o)
        BY <1>0, <1>3 DEF TradesOn
      <4>2. n + 1 \in TradesOn(o)' <=> o = t.outcome
        BY <1>3, <1>4 DEF TradesOn
      <4>3. \A i \in TradesOn(o)' : i \in 1..n \/ i = n + 1
        BY <1>0, <1>3 DEF TradesOn
      <4>4. \A i \in TradesOn(o) : i \in 1..n
        BY <1>0 DEF TradesOn
      <4>5. CASE o = t.outcome
        <5>1. TradesOn(o)' = TradesOn(o) \cup {n + 1}
          BY <4>1, <4>2, <4>3, <4>4, <4>5
        <5> QED BY <4>5, <5>1
      <4>6. CASE o # t.outcome
        <5>1. TradesOn(o)' = TradesOn(o)
          BY <4>1, <4>2, <4>3, <4>4, <4>6
        <5> QED BY <4>6, <5>1
      <4> QED BY <4>5, <4>6
    <3>6. pool.kes[o] = SeedKes + CostOf(trades, TradesOn(o))
      BY <2>1 DEF BInv, PoolIsSum
    <3>7. /\ pool.kes \in Side /\ CostOf(trades, TradesOn(o)) \in Nat /\ t.amount \in Nat
          /\ SeedKes \in Nat
      BY <1>1, <1>3, <1>4, <3>1, CostFacts, PlaceTradeAssumption DEF TypeOK, Pool, Trade
    <3>8. pool'.kes[o] = IF o = t.outcome THEN pool.kes[o] + t.amount ELSE pool.kes[o]
      BY <2>2, <3>7 DEF Add, Side
    <3> QED BY <3>3, <3>4, <3>5, <3>6, <3>7, <3>8
  <2> QED BY <2>3 DEF PoolIsSum
<1>8. PricesArePast'
  <2>1. \A i \in 0..Len(trades) : Stake(i)' = Stake(i)
    BY <1>1, <1>2, <1>4, StakesKept
  <2>2. \A k : IsPast(k) => IsPast(k)'
    BY <1>0, <1>3, <2>1 DEF IsPast
  <2>3. IsPast(mirror.kes) /\ \A d \in Requests : req[d].pc = "mirror" => IsPast(req[d].seen.kes)
    BY DEF BInv, PricesArePast
  <2>4. IsPast(mirror.kes)'
    BY <2>2, <2>3 DEF IsPast
  <2>5. ASSUME NEW d \in Requests, req'[d].pc = "mirror" PROVE IsPast(req[d].seen.kes)'
    <3>1. d # r /\ req'[d] = req[d]
      BY <1>2, <2>5
    <3> QED BY <2>2, <2>3, <2>5, <3>1 DEF IsPast
  <2> QED BY <2>4, <2>5 DEF PricesArePast
<1> QED BY <1>6, <1>7, <1>8 DEF BInv

LEMMA UpsertBooks ==
  ASSUME BInv, NEW r \in Requests, UpsertPosition(r), UNCHANGED <<pool, trades, mirror>>, IInv',
         req[r].pc = "position", req'[r].pc = "debit",
         Keeps(req[r], req'[r]), \A d \in Requests : d # r => req'[d] = req[d]
  PROVE  BInv'
<1>1. TypeOK /\ IInv
  BY DEF BInv, IInv
<1>2. PICK j \in 1..Len(trades) : trades[j].by = r
  BY <1>1 DEF IInv, ChargeIsOwed, HasTrade, Owing
<1>3. /\ IsOf(trades[j], req[r])
      /\ \A i \in 1..Len(trades) : trades[i].by \in Requests /\ (trades[i].by = r => i = j)
  BY <1>1, <1>2, OwnTrade, TableFacts DEF IInv, TradeIsItsHandlers
<1> DEFINE a == req[r].amount
           h0 == Holding(r)
           old == position[h0]
           new == [exists |-> TRUE, shares |-> old.shares + calcSharesReceived(a),
                   cost |-> old.cost + a,
                   averaged |-> IF old.exists THEN req[r].averaged ELSE {req[r].key}]
<1>4. /\ h0 \in Users \X Outcomes /\ a \in Amounts /\ trades[j].amount = a
      /\ position \in [Users \X Outcomes -> Position] /\ trades \in Seq(Trade)
      /\ <<trades[j].user, trades[j].outcome>> = h0
  BY <1>1, <1>3, RequestFields DEF TypeOK, Holding, IsOf
<1>5. position' = [position EXCEPT ![h0] = new]
  BY DEF UpsertPosition
<1>6. ASSUME NEW h \in Users \X Outcomes PROVE PositionBooked(h)'
  <2>1. \A i \in 1..Len(trades) : i # j => (i \in Booked(h)' <=> i \in Booked(h))
    BY <1>3 DEF Booked, Pending
  <2>2. j \notin Booked(h) /\ (j \in Booked(h)' <=> h = h0)
    BY <1>2, <1>4 DEF Booked, Pending
  <2>3. /\ Booked(h) \in SUBSET (1..Len(trades)) /\ Booked(h)' \in SUBSET (1..Len(trades))
    BY DEF Booked
  <2>4. PositionBooked(h)
    BY DEF BInv
  <2>5. CASE h # h0
    <3>1. Booked(h)' = Booked(h)
      <4>1. \A i \in 1..Len(trades) : i \in Booked(h)' <=> i \in Booked(h)
        BY <2>1, <2>2, <2>5
      <4> QED BY <2>3, <4>1
    <3>2. position'[h] = position[h]
      <4> HIDE DEF new, h0
      <4> QED BY <1>4, <1>5, <2>5
    <3> QED BY <2>4, <3>1, <3>2 DEF PositionBooked
  <2>6. CASE h = h0
    <3>1. Booked(h)' = Booked(h) \cup {j}
      BY <2>1, <2>2, <2>3, <2>6
    <3>2. j \in (1..Len(trades)) \ Booked(h)
      BY <2>2
    <3>3. /\ CostOf(trades, Booked(h) \cup {j}) = CostOf(trades, Booked(h)) + a
          /\ SharesOf(trades, Booked(h) \cup {j}) = SharesOf(trades, Booked(h)) + calcSharesReceived(a)
      BY <1>4, <2>3, <3>2, CostFacts
    <3>4. position'[h] = new
      BY <1>4, <1>5, <2>6
    <3>5. position'[h].exists = TRUE /\ position'[h].cost = position[h].cost + a
          /\ position'[h].shares = position[h].shares + calcSharesReceived(a)
      BY <2>6, <3>4
    <3>6. /\ a \in Nat /\ calcSharesReceived(a) \in Nat /\ a = SHARE_PRICE_KES * calcSharesReceived(a)
          /\ position[h].shares \in Nat /\ SHARE_PRICE_KES \in Nat
      BY <1>4, SharesExact, PlaceTradeAssumption DEF Position
    <3>7. \A m, k \in Nat : SHARE_PRICE_KES * m + SHARE_PRICE_KES * k = SHARE_PRICE_KES * (m + k)
      BY <3>6
    <3>8. position'[h].cost = SHARE_PRICE_KES * position'[h].shares
      <4>1. position[h].cost = SHARE_PRICE_KES * position[h].shares
        BY <2>4 DEF PositionBooked
      <4>2. position'[h].cost = SHARE_PRICE_KES * position[h].shares + SHARE_PRICE_KES * calcSharesReceived(a)
        BY <4>1, <3>5, <3>6
      <4> QED BY <4>2, <3>5, <3>6, <3>7
    <3> HIDE DEF a
    <3> QED BY <2>4, <3>1, <3>3, <3>5, <3>8 DEF PositionBooked
  <2> QED BY <2>5, <2>6
<1>7. PoolIsSum'
  BY DEF BInv, PoolIsSum, TradesOn
<1>8. PricesArePast'
  <2>1. \A i \in 0..Len(trades) : Stake(i)' = Stake(i)
    BY DEF Stake, After
  <2>2. \A k : IsPast(k) => IsPast(k)'
    BY <2>1 DEF IsPast
  <2> QED BY <2>2 DEF BInv, PricesArePast, IsPast
<1> QED BY <1>6, <1>7, <1>8 DEF BInv

LEMMA QuietBooks ==
  ASSUME BInv, NEW r \in Requests, UNCHANGED <<pool, trades, position>>, IInv',
         req[r].pc \in Unbooked <=> req'[r].pc \in Unbooked,
         req'[r].pc = "mirror" => req'[r].seen = pool /\ req[r].pc \in Paid,
         mirror' # mirror => req[r].pc = "mirror" /\ mirror'.kes = req[r].seen.kes,
         \A d \in Requests : d # r => req'[d] = req[d]
  PROVE  BInv'
<1>1. IInv
  BY DEF BInv
<1>2. \A i \in 1..Len(trades) : trades[i].by \in Requests
  BY <1>1, TableFacts DEF IInv
<1>3. ASSUME NEW h \in Users \X Outcomes PROVE PositionBooked(h)'
  <2>1. \A i \in 1..Len(trades) : Pending(i)' <=> Pending(i)
    BY <1>2 DEF Pending, Unbooked
  <2>2. Booked(h)' = Booked(h)
    BY <2>1 DEF Booked
  <2> QED BY <2>2 DEF BInv, PositionBooked
<1>4. PoolIsSum'
  BY DEF BInv, PoolIsSum, TradesOn
<1>5. PricesArePast'
  <2>1. \A i \in 0..Len(trades) : Stake(i)' = Stake(i)
    BY DEF Stake, After
  <2>2. \A k : IsPast(k) => IsPast(k)'
    BY <2>1 DEF IsPast
  <2>3. IsPast(mirror.kes) /\ \A d \in Requests : req[d].pc = "mirror" => IsPast(req[d].seen.kes)
    BY DEF BInv, PricesArePast
  <2>4. IsPast(mirror'.kes)
    BY <2>3
  <2>5. ASSUME NEW d \in Requests, req'[d].pc = "mirror" PROVE IsPast(req'[d].seen.kes)
    <3>1. CASE d # r
      BY <2>3, <2>5, <3>1
    <3>2. CASE d = r
      <4>1. PICK i \in 1..Len(trades) : trades[i].by = r
        BY <1>1, <2>5, <3>2 DEF IInv, ChargeIsOwed, HasTrade
      <4>2. trades # << >>
        BY <4>1
      <4>3. pool.kes = Stake(Len(trades))
        BY <1>1, <4>2 DEF IInv, PricedInSequence
      <4>4. Len(trades) \in 0..Len(trades)
        BY <1>1, TableFacts DEF IInv
      <4> QED BY <2>5, <3>2, <4>3, <4>4 DEF IsPast
    <3> QED BY <3>1, <3>2
  <2>6. IsPast(mirror'.kes) <=> IsPast(mirror.kes)'
    BY <2>1 DEF IsPast
  <2>7. \A d \in Requests : IsPast(req'[d].seen.kes) <=> IsPast(req[d].seen.kes)'
    BY <2>1 DEF IsPast
  <2> QED BY <2>4, <2>5, <2>6, <2>7 DEF PricesArePast
<1> QED BY <1>3, <1>4, <1>5 DEF BInv

LEMMA InitBooks == Init => BInv
<1> SUFFICES ASSUME Init PROVE BInv
  OBVIOUS
<1>1. IInv
  BY InitInv
<1>2. trades = << >> /\ Len(trades) = 0 /\ ~pool.exists
  BY DEF Init, NoPool
<1>3. ASSUME NEW h \in Users \X Outcomes PROVE PositionBooked(h)
  <2>1. Booked(h) = {}
    BY <1>2 DEF Booked
  <2>2. position[h] = NoPosition
    BY DEF Init
  <2> QED BY <2>1, <2>2, NoCost, PlaceTradeAssumption DEF PositionBooked, NoPosition
<1>4. PricesArePast
  <2>1. mirror.kes = Stake(0)
    BY DEF Init, Stake, SeedPool, NoPool
  <2>2. \A r \in Requests : req[r].pc = "idle"
    BY DEF Init, Submissions
  <2> QED BY <1>2, <2>1, <2>2 DEF PricesArePast, IsPast
<1> QED BY <1>1, <1>2, <1>3, <1>4 DEF BInv, PoolIsSum

LEMMA NextBooks == BInv /\ [Next]_vars => BInv'
<1> SUFFICES ASSUME BInv, [Next]_vars PROVE BInv'
  OBVIOUS
<1>1. IInv /\ IInv' /\ TypeOK
  BY NextInv DEF BInv, IInv
<1>2. ASSUME UNCHANGED <<trades, position, mirror, req>>, PoolIsSum' PROVE BInv'
  <2>1. \A h \in Users \X Outcomes : PositionBooked(h)'
    BY <1>2 DEF BInv, PositionBooked, Booked, Pending
  <2>2. \A i \in 0..Len(trades) : Stake(i)' = Stake(i)
    BY <1>2 DEF Stake, After
  <2>3. \A k : IsPast(k) => IsPast(k)'
    BY <1>2, <2>2 DEF IsPast
  <2>4. PricesArePast'
    BY <1>2, <2>3 DEF BInv, PricesArePast, IsPast
  <2> QED BY <1>1, <1>2, <2>1, <2>4 DEF BInv
<1>3. ASSUME UNCHANGED <<pool, trades, position, mirror, req>> PROVE BInv'
  <2>1. PoolIsSum'
    BY <1>3 DEF BInv, PoolIsSum, TradesOn
  <2> QED BY <1>2, <1>3, <2>1
<1>4. CASE CloseMarket
  BY <1>3, <1>4 DEF CloseMarket
<1>5. CASE InitMarketPool
  <2>1. /\ trades' = << >> /\ Len(trades') = 0
        /\ pool'.kes = [o \in Outcomes |-> SeedKes]
        /\ UNCHANGED <<trades, position, mirror, req>>
    BY <1>1, <1>5 DEF InitMarketPool, IInv, SeedPool, NoPool
  <2>2. PoolIsSum'
    <3>1. \A o \in Outcomes : TradesOn(o)' = {}
      BY <2>1 DEF TradesOn
    <3>2. ASSUME NEW o \in Outcomes
          PROVE  pool'.kes[o] = SeedKes + CostOf(trades', TradesOn(o)')
      <4>1. CostOf(trades', TradesOn(o)') = 0
        BY <3>1, NoCost
      <4>2. pool'.kes[o] = SeedKes
        BY <2>1
      <4> QED BY <4>1, <4>2, PlaceTradeAssumption
    <3> QED BY <3>2 DEF PoolIsSum
  <2> QED BY <1>2, <2>1, <2>2
<1>6. ASSUME NEW r \in Requests, Submit(r) \/ Handle(r) PROVE BInv'
  <2>1. Keeps(req[r], req'[r]) /\ \A d \in Requests : d # r => req'[d] = req[d]
    BY <1>1, <1>6, HandleStep
  <2> QED BY <1>1, <1>6, <2>1, BookStep, CommitBooks, UpsertBooks, QuietBooks
<1>7. CASE UNCHANGED vars
  BY <1>3, <1>7 DEF vars
<1> QED BY <1>4, <1>5, <1>6, <1>7 DEF Next

-----------------------------------------------------------------------------
(* Accounts.  When no call fails, a request holds its stake from the        *)
(* reservation to the release and has paid it from the debit on, so the     *)
(* reserved part and the balance of a purse are sums over requests.  From   *)
(* these sums follows why a debit that fails is one of a user who has less  *)
(* than twice the stakes.                                                   *)

Reserving == {"read", "commit", "average", "position", "debit", "settle", "release"}
Telling  == {"announce", "report", "confirmed"}
Failed   == {"release", "busy"}

Begun        == {r \in Requests : req[r].pc # "idle"}
With(u, pcs) == {r \in Requests : req[r].user = u /\ req[r].pc \in pcs}

PageIsSum == mirror.tradeCount = Cardinality(Told) /\ mirror.totalVolume = CostOf(trades, Told)

PurseIsSum(u) ==
  /\ purse[u].reserved = StakedBy(req, With(u, Reserving))
  /\ purse[u].balance = OpeningBalance - StakedBy(req, With(u, Paid))

UnpaidIsUncovered ==
  \A i \in 1..Len(trades) : req[trades[i].by].pc \in Failed =>
    OpeningBalance < 2 * StakedBy(req, With(trades[i].user, PC \ {"idle"}))

AInv ==
  /\ IInv
  /\ IsFiniteSet(Begun)
  /\ Faults = {} => /\ PageIsSum
                    /\ \A u \in Users : PurseIsSum(u)
                    /\ UnpaidIsUncovered

(* Sums over requests. *)
LEMMA StakeFacts ==
  ASSUME NEW q \in [Requests -> Request], NEW S \in SUBSET Requests, IsFiniteSet(S)
  PROVE  /\ StakedBy(q, S) \in Nat
         /\ \A r \in Requests \ S : StakedBy(q, S \cup {r}) = StakedBy(q, S) + q[r].amount
         /\ \A r \in S : StakedBy(q, S \ {r}) = StakedBy(q, S) - q[r].amount
         /\ \A T \in SUBSET S : StakedBy(q, T) <= StakedBy(q, S)
<1> DEFINE f == [r \in Requests |-> q[r].amount]
<1>1. \A r \in Requests : f[r] \in Nat /\ f[r] = q[r].amount
  BY RequestFields
<1>2. StakedBy(q, S) = SumFunctionOnSet(f, S)
  BY DEF StakedBy
<1>3. \A T \in SUBSET Requests : StakedBy(q, T) = SumFunctionOnSet(f, T)
  BY DEF StakedBy
<1> HIDE DEF f
<1>4. \A T \in SUBSET Requests : IsFiniteSet(T) => Sums(f, T)
  BY <1>1 DEF Sums
<1>5. StakedBy(q, S) \in Nat
  BY <1>1, <1>2, SumNat
<1>6. ASSUME NEW r \in Requests \ S
      PROVE  StakedBy(q, S \cup {r}) = StakedBy(q, S) + q[r].amount
  <2>1. S \cup {r} \in SUBSET Requests /\ IsFiniteSet(S \cup {r}) /\ r \notin S
    BY FS_AddElement
  <2>2. SumFunctionOnSet(f, S \cup {r}) = f[r] + SumFunctionOnSet(f, S)
    BY <1>4, <2>1, SumAdd
  <2> QED BY <1>1, <1>2, <1>3, <1>5, <2>1, <2>2
<1>7. ASSUME NEW r \in S
      PROVE  StakedBy(q, S \ {r}) = StakedBy(q, S) - q[r].amount
  <2>1. SumFunctionOnSet(f, S) = f[r] + SumFunctionOnSet(f, S \ {r})
    BY <1>4, SumRemove
  <2>2. S \ {r} \in SUBSET Requests /\ IsFiniteSet(S \ {r})
    BY FS_RemoveElement
  <2>3. SumFunctionOnSet(f, S \ {r}) \in Nat
    BY <1>1, <2>2, SumNat
  <2> QED BY <1>1, <1>2, <1>3, <2>1, <2>2, <2>3
<1>8. ASSUME NEW T \in SUBSET S
      PROVE  StakedBy(q, T) <= StakedBy(q, S)
  <2> DEFINE g == [r \in S |-> IF r \in T THEN f[r] ELSE 0]
  <2>1. /\ \A r \in S : g[r] \in Nat /\ g[r] <= f[r]
        /\ \A r \in S \ T : g[r] = 0
        /\ \A r \in T : g[r] = f[r]
    BY <1>1
  <2> HIDE DEF g
  <2>2. Sums(g, S) /\ Sums(f, S) /\ Sums(g, T)
    BY <1>4, <2>1, FS_Subset DEF Sums
  <2>3. SumFunctionOnSet(g, S) = SumFunctionOnSet(g, T)
    BY <2>1, <2>2, SumWithin
  <2>4. SumFunctionOnSet(g, T) = SumFunctionOnSet(f, T)
    BY <2>1, <2>2, SumSame
  <2>5. SumFunctionOnSet(g, S) <= SumFunctionOnSet(f, S)
    BY <2>1, <2>2, SumBelow
  <2> QED BY <1>3, <2>3, <2>4, <2>5
<1> QED BY <1>5, <1>6, <1>7, <1>8

(* A handler's step changes the sums of its user by its own stake. *)
LEMMA StakeStep ==
  ASSUME TypeOK, TypeOK', IsFiniteSet(Begun), NEW r \in Requests,
         Keeps(req[r], req'[r]), \A d \in Requests : d # r => req'[d] = req[d],
         NEW pcs, "idle" \notin pcs, NEW u
  PROVE  /\ StakedBy(req, With(u, pcs)) \in Nat
         /\ u = req[r].user /\ req[r].pc \notin pcs /\ req'[r].pc \in pcs =>
              StakedBy(req', With(u, pcs)') = StakedBy(req, With(u, pcs)) + req[r].amount
         /\ u = req[r].user /\ req[r].pc \in pcs /\ req'[r].pc \notin pcs =>
              StakedBy(req', With(u, pcs)') = StakedBy(req, With(u, pcs)) - req[r].amount
         /\ u # req[r].user \/ (req[r].pc \in pcs <=> req'[r].pc \in pcs) =>
              StakedBy(req', With(u, pcs)') = StakedBy(req, With(u, pcs))
<1> DEFINE W == With(u, pcs)
<1>1. req \in [Requests -> Request]
  BY DEF TypeOK
<1>2. W \in SUBSET Requests /\ IsFiniteSet(W)
  BY FS_Subset DEF With, Begun
<1>3. \A S : StakedBy(req', S) = StakedBy(req, S)
  <2>1. \A d \in Requests : req'[d].amount = req[d].amount
    BY DEF Keeps
  <2>2. [d \in Requests |-> req'[d].amount] = [d \in Requests |-> req[d].amount]
    BY <2>1
  <2> QED BY <2>2 DEF StakedBy
<1>4. \A d \in Requests : d # r => (d \in W' <=> d \in W)
  BY DEF With
<1>5. W' \in SUBSET Requests
  BY DEF With
<1>6. /\ r \in W <=> u = req[r].user /\ req[r].pc \in pcs
      /\ r \in W' <=> u = req[r].user /\ req'[r].pc \in pcs
  BY DEF With, Keeps
<1> HIDE DEF W
<1>7. CASE r \notin W /\ r \in W'
  <2>1. W' = W \cup {r}
    BY <1>2, <1>4, <1>5, <1>7
  <2>2. StakedBy(req, W \cup {r}) = StakedBy(req, W) + req[r].amount /\ StakedBy(req, W) \in Nat
    BY <1>1, <1>2, <1>7, StakeFacts
  <2> QED BY <1>3, <1>6, <1>7, <2>1, <2>2 DEF W
<1>8. CASE r \in W /\ r \notin W'
  <2>1. W' = W \ {r}
    BY <1>2, <1>4, <1>5, <1>8
  <2>2. StakedBy(req, W \ {r}) = StakedBy(req, W) - req[r].amount /\ StakedBy(req, W) \in Nat
    BY <1>1, <1>2, <1>8, StakeFacts
  <2> QED BY <1>3, <1>6, <1>8, <2>1, <2>2 DEF W
<1>9. CASE r \in W <=> r \in W'
  <2>1. W' = W
    BY <1>2, <1>4, <1>5, <1>9
  <2>2. StakedBy(req, W) \in Nat
    BY <1>1, <1>2, StakeFacts
  <2> QED BY <1>3, <1>6, <1>9, <2>1, <2>2 DEF W
<1> QED BY <1>7, <1>8, <1>9

(* What a handler's step means for the accounts when no call fails. *)
Moves(q, q2) ==
  /\ q2.pc # "idle"
  /\ q.pc \in Reserving <=> q2.pc \in Reserving
  /\ q.pc \in Paid <=> q2.pc \in Paid
  /\ q.pc \in Telling <=> q2.pc \in Telling
  /\ q2.pc \in Failed => q.pc \in Untraded

LEMMA CalmStep ==
  ASSUME TypeOK, Faults = {}, NEW r \in Requests, Handle(r) \/ Submit(r)
  PROVE  LET q == req[r]
             q2 == req'[r]
         IN  \/ CommitTrade(r) /\ UNCHANGED <<purse, mirror>>
             \/ /\ q.pc = "reserve" /\ q2.pc = "read"
                /\ Hold(q.user, q.amount) /\ UNCHANGED <<trades, mirror>>
             \/ /\ q.pc = "debit" /\ q2.pc = "settle"
                /\ Spend(q.user, q.amount) /\ UNCHANGED <<trades, mirror>>
             \/ /\ q.pc = "debit" /\ q2.pc = "release"
                /\ Available(q.user) < q.amount /\ UNCHANGED <<trades, purse, mirror>>
             \/ /\ <<q.pc, q2.pc>> \in {<<"settle", "notify">>, <<"release", "busy">>}
                /\ Hold(q.user, -q.amount) /\ UNCHANGED <<trades, mirror>>
             \/ /\ q.pc = "mirror" /\ q2.pc = "announce"
                /\ mirror' = updatePoolStats(q.seen.kes, q.amount)
                /\ UNCHANGED <<trades, purse>>
             \/ Moves(q, q2) /\ UNCHANGED <<trades, purse, mirror>>
<1>1. req[r] \in Request
  BY DEF TypeOK
<1>2. \A pc : Goto(r, pc) => req'[r].pc = pc
  BY GotoStep
<1>3. \A q : SetReq(r, q) => req'[r] = q
  BY SetReqStep
<1> USE DEF Moves, Reserving, Paid, Telling, Failed, Untraded, At, market, wallet
<1>4. CASE Lookup(r) \/ AssertMarketActive(r) \/ Submit(r)
  BY <1>2, <1>4 DEF Lookup, AssertMarketActive, Submit
<1>5. CASE ReserveWalletFunds(r)
  BY <1>2, <1>5 DEF ReserveWalletFunds
<1>6. CASE ReadPool(r)
  <2> DEFINE q == [req[r] EXCEPT !.pc = "commit", !.seen = pool]
  <2>1. q.pc = "commit"
    BY <1>1 DEF Request
  <2>2. SetReq(r, q) \/ Goto(r, "release")
    BY <1>6 DEF ReadPool
  <2> HIDE DEF q
  <2>3. req'[r].pc \in {"commit", "release"}
    BY <1>2, <1>3, <2>1, <2>2
  <2> QED BY <1>6, <2>3 DEF ReadPool
<1>7. CASE CommitTrade(r)
  BY <1>7 DEF CommitTrade
<1>8. CASE CommitFails(r)
  <2> DEFINE q == [req[r] EXCEPT !.pc = "read", !.retries = req[r].retries + 1]
  <2>1. q.pc = "read"
    BY <1>1 DEF Request
  <2>2. SetReq(r, q) \/ Goto(r, "release")
    BY <1>8 DEF CommitFails
  <2> HIDE DEF q
  <2>3. req'[r].pc \in {"read", "release"}
    BY <1>2, <1>3, <2>1, <2>2
  <2> QED BY <1>8, <2>3 DEF CommitFails
<1>9. CASE GetUpdatedAvgPrice(r)
  <2> DEFINE q == [req[r] EXCEPT !.pc = "position",
                     !.averaged = position[Holding(r)].averaged \cup {req[r].key}]
  <2>1. q.pc = "position"
    BY <1>1 DEF Request
  <2>2. SetReq(r, q)
    BY <1>9 DEF GetUpdatedAvgPrice
  <2> HIDE DEF q
  <2>3. req'[r].pc = "position"
    BY <1>3, <2>1, <2>2
  <2> QED BY <1>9, <2>3 DEF GetUpdatedAvgPrice
<1>10. CASE UpsertPosition(r)
  BY <1>2, <1>10 DEF UpsertPosition
<1>11. CASE ConfirmWalletDebit(r)
  BY <1>2, <1>11 DEF ConfirmWalletDebit, Charge
<1>12. CASE ReleaseWalletReserve(r)
  <2>1. AfterRelease(r) => req'[r].pc = IF req[r].pc = "settle" THEN "notify" ELSE "busy"
    BY <1>2 DEF AfterRelease
  <2> QED BY <1>12, <2>1 DEF ReleaseWalletReserve
<1>13. CASE ReadForMirror(r)
  <2> DEFINE q == [req[r] EXCEPT !.pc = "mirror", !.seen = pool]
  <2>1. q.pc = "mirror"
    BY <1>1 DEF Request
  <2>2. SetReq(r, q)
    BY <1>13 DEF ReadForMirror
  <2> HIDE DEF q
  <2>3. req'[r].pc = "mirror"
    BY <1>3, <2>1, <2>2
  <2> QED BY <1>13, <2>3 DEF ReadForMirror
<1>14. CASE PublishPrice(r)
  BY <1>2, <1>14 DEF PublishPrice
<1>15. CASE PublishTrade(r)
  BY <1>2, <1>15 DEF PublishTrade
<1>16. ~PublishFails(r)
  BY DEF PublishFails
<1> QED BY <1>4, <1>5, <1>6, <1>7, <1>8, <1>9, <1>10, <1>11, <1>12, <1>13,
           <1>14, <1>15, <1>16 DEF Handle

LEMMA PurseStep ==
  ASSUME TypeOK, NEW u \in Users, NEW a \in Int, NEW v \in Users
  PROVE  /\ purse[v].reserved \in Int /\ purse[v].balance \in Int
         /\ Hold(u, a) => /\ purse'[v].balance = purse[v].balance
                          /\ purse'[v].reserved = purse[v].reserved + (IF v = u THEN a ELSE 0)
         /\ Spend(u, a) => /\ purse'[v].reserved = purse[v].reserved
                           /\ purse'[v].balance = purse[v].balance - (IF v = u THEN a ELSE 0)
<1> DEFINE P == [balance: Int, reserved: Int]
           x == [purse[u] EXCEPT !.reserved = purse[u].reserved + a]
           y == [purse[u] EXCEPT !.balance = purse[u].balance - a]
<1>1. purse \in [Users -> P] /\ purse[u] \in P /\ purse[v] \in P
  BY DEF TypeOK
<1>2. /\ x.reserved = purse[u].reserved + a /\ x.balance = purse[u].balance
      /\ y.balance = purse[u].balance - a /\ y.reserved = purse[u].reserved
  BY <1>1
<1>3. /\ Hold(u, a) => purse' = [purse EXCEPT ![u] = x]
      /\ Spend(u, a) => purse' = [purse EXCEPT ![u] = y]
  BY DEF Hold, Spend
<1> HIDE DEF x, y
<1>4. /\ Hold(u, a) => purse'[v] = IF v = u THEN x ELSE purse[v]
      /\ Spend(u, a) => purse'[v] = IF v = u THEN y ELSE purse[v]
  BY <1>1, <1>3
<1> QED BY <1>1, <1>2, <1>4

LEMMA PurseSums ==
  ASSUME AInv, TypeOK', Faults = {}, NEW r \in Requests, Handle(r) \/ Submit(r),
         NEW u \in Users
  PROVE  PurseIsSum(u)'
<1> DEFINE q == req[r]
           q2 == req'[r]
           R == StakedBy(req, With(u, Reserving))
           P == StakedBy(req, With(u, Paid))
           R2 == StakedBy(req', With(u, Reserving)')
           P2 == StakedBy(req', With(u, Paid)')
           a == q.amount
           mine == u = q.user
<1>1. /\ TypeOK /\ IsFiniteSet(Begun) /\ OpeningBalance \in Int
      /\ purse[u].reserved = R /\ purse[u].balance = OpeningBalance - P
  BY PlaceTradeAssumption DEF AInv, IInv, PurseIsSum
<1>2. Keeps(q, q2) /\ \A d \in Requests : d # r => req'[d] = req[d]
  BY <1>1, HandleStep
<1>3. /\ R \in Nat
      /\ mine /\ q.pc \notin Reserving /\ q2.pc \in Reserving => R2 = R + a
      /\ mine /\ q.pc \in Reserving /\ q2.pc \notin Reserving => R2 = R - a
      /\ ~mine \/ (q.pc \in Reserving <=> q2.pc \in Reserving) => R2 = R
  <2>1. "idle" \notin Reserving
    BY DEF Reserving
  <2> QED BY <1>1, <1>2, <2>1, StakeStep
<1>4. /\ P \in Nat
      /\ mine /\ q.pc \notin Paid /\ q2.pc \in Paid => P2 = P + a
      /\ mine /\ q.pc \in Paid /\ q2.pc \notin Paid => P2 = P - a
      /\ ~mine \/ (q.pc \in Paid <=> q2.pc \in Paid) => P2 = P
  <2>1. "idle" \notin Paid
    BY DEF Paid
  <2> QED BY <1>1, <1>2, <2>1, StakeStep
<1>5. q.user \in Users /\ a \in Nat /\ -a \in Int
  BY <1>1, RequestFields DEF TypeOK
<1>6. SUFFICES purse'[u].reserved = R2 /\ purse'[u].balance = OpeningBalance - P2
  BY DEF PurseIsSum
<1> HIDE DEF R, P, R2, P2, mine
<1>7. ASSUME UNCHANGED purse, q.pc \in Reserving <=> q2.pc \in Reserving,
             q.pc \in Paid <=> q2.pc \in Paid
      PROVE  purse'[u].reserved = R2 /\ purse'[u].balance = OpeningBalance - P2
  BY <1>1, <1>3, <1>4, <1>7
<1>8. CASE CommitTrade(r) /\ UNCHANGED purse
  <2>1. q.pc = "commit" /\ q2.pc = "average"
    BY <1>1, <1>8, GotoStep DEF CommitTrade, At
  <2> QED BY <1>7, <1>8, <2>1 DEF Reserving, Paid
<1>9. CASE q.pc = "reserve" /\ q2.pc = "read" /\ Hold(q.user, a)
  <2>1. purse'[u].balance = purse[u].balance
        /\ purse'[u].reserved = purse[u].reserved + (IF u = q.user THEN a ELSE 0)
    BY <1>1, <1>5, <1>9, PurseStep
  <2>2. P2 = P /\ R2 = R + (IF u = q.user THEN a ELSE 0)
    BY <1>3, <1>4, <1>9 DEF Reserving, Paid, mine
  <2> QED BY <1>1, <2>1, <2>2
<1>10. CASE q.pc = "debit" /\ q2.pc = "settle" /\ Spend(q.user, a)
  <2>1. purse'[u].reserved = purse[u].reserved
        /\ purse'[u].balance = purse[u].balance - (IF u = q.user THEN a ELSE 0)
    BY <1>1, <1>5, <1>10, PurseStep
  <2>2. R2 = R /\ P2 = P + (IF u = q.user THEN a ELSE 0)
    BY <1>3, <1>4, <1>10 DEF Reserving, Paid, mine
  <2> QED BY <1>1, <1>4, <1>5, <2>1, <2>2
<1>11. CASE q.pc = "debit" /\ q2.pc = "release" /\ UNCHANGED purse
  BY <1>7, <1>11 DEF Reserving, Paid
<1>12. CASE /\ <<q.pc, q2.pc>> \in {<<"settle", "notify">>, <<"release", "busy">>}
            /\ Hold(q.user, -a)
  <2>1. purse'[u].balance = purse[u].balance
        /\ purse'[u].reserved = purse[u].reserved + (IF u = q.user THEN -a ELSE 0)
    BY <1>1, <1>5, <1>12, PurseStep
  <2>2. \/ q.pc = "settle" /\ q2.pc = "notify"
        \/ q.pc = "release" /\ q2.pc = "busy"
    BY <1>12
  <2>3. P2 = P /\ R2 = R + (IF u = q.user THEN -a ELSE 0)
    BY <1>3, <1>4, <1>5, <2>2 DEF Reserving, Paid, mine
  <2> QED BY <1>1, <2>1, <2>3
<1>13. CASE q.pc = "mirror" /\ q2.pc = "announce" /\ UNCHANGED purse
  BY <1>7, <1>13 DEF Reserving, Paid
<1>14. CASE Moves(q, q2) /\ UNCHANGED purse
  BY <1>7, <1>14 DEF Moves
<1> QED BY <1>1, <1>8, <1>9, <1>10, <1>11, <1>12, <1>13, <1>14, CalmStep

LEMMA PageSums ==
  ASSUME AInv, IInv', Faults = {}, NEW r \in Requests, Handle(r) \/ Submit(r)
  PROVE  PageIsSum'
<1> DEFINE q == req[r]
           q2 == req'[r]
<1>1. /\ IInv /\ TypeOK /\ TypeOK' /\ PageIsSum
      /\ \A d \in Requests : d # r => req'[d] = req[d]
  BY HandleStep DEF AInv, IInv
<1>2. /\ trades \in Seq(Trade) /\ Told \in SUBSET (1..Len(trades))
      /\ \A i \in 1..Len(trades) : trades[i].by \in Requests
  BY <1>1, TableFacts DEF TypeOK, Told
<1>3. ASSUME UNCHANGED <<trades, mirror>>, q.pc \in Telling <=> q2.pc \in Telling
      PROVE  PageIsSum'
  <2>1. \A i \in 1..Len(trades) : i \in Told' <=> i \in Told
    BY <1>1, <1>2, <1>3 DEF Told, Telling
  <2>2. Told' \in SUBSET (1..Len(trades))
    BY <1>3 DEF Told
  <2>3. Told' = Told
    BY <1>2, <2>1, <2>2
  <2> QED BY <1>1, <1>3, <2>3 DEF PageIsSum
<1>4. CASE CommitTrade(r) /\ UNCHANGED mirror
  <2> DEFINE t == [key |-> q.key, user |-> q.user, outcome |-> q.outcome,
                   amount |-> q.amount, poolAtTrade |-> q.seen.kes, by |-> r]
  <2>1. q.pc = "commit" /\ q2.pc = "average" /\ trades' = Append(trades, t) /\ t.by = r
    BY <1>1, <1>4, GotoStep DEF CommitTrade, At
  <2> HIDE DEF t
  <2>2. PICK n \in Nat : n = Len(trades)
    BY <1>1, TableFacts
  <2>3. Len(trades') = n + 1 /\ trades'[n + 1] = t /\ \A i \in 1..n : trades'[i] = trades[i]
    BY <1>2, <2>1, <2>2
  <2>4. n + 1 \in 1..Len(trades') /\ trades' \in Seq(Trade)
    BY <1>1, <2>3 DEF TypeOK
  <2>5. t \in Trade
    BY <2>3, <2>4
  <2>6. \A i \in 1..n : trades[i].by # r
    BY <1>1, <2>1, <2>2 DEF IInv, TradeIsItsHandlers, Untraded
  <2>7. Told' = Told
    <3>1. \A i \in 1..n : i \in Told' <=> i \in Told
      BY <1>1, <1>2, <2>2, <2>3, <2>6 DEF Told
    <3>2. n + 1 \notin Told'
      BY <2>1, <2>3 DEF Told
    <3>3. Told' \subseteq 1..(n + 1) /\ Told \subseteq 1..n
      BY <2>2, <2>3 DEF Told
    <3>4. \A i \in 1..(n + 1) : i \in 1..n \/ i = n + 1
      OBVIOUS
    <3> QED BY <3>1, <3>2, <3>3, <3>4
  <2>8. CostOf(trades', Told) = CostOf(trades, Told)
    BY <1>2, <2>1, <2>5, CostAppend
  <2> QED BY <1>1, <1>4, <2>7, <2>8 DEF PageIsSum
<1>5. CASE /\ q.pc = "mirror" /\ q2.pc = "announce" /\ UNCHANGED trades
           /\ mirror' = updatePoolStats(q.seen.kes, q.amount)
  <2>1. PICK j \in 1..Len(trades) : trades[j].by = r
    BY <1>1, <1>5 DEF IInv, ChargeIsOwed, HasTrade, Paid
  <2>2. /\ trades[j].amount = q.amount
        /\ \A i \in 1..Len(trades) : trades[i].by = r => i = j
    BY <1>1, <2>1, OwnTrade DEF IInv, TradeIsItsHandlers, IsOf
  <2>3. j \notin Told /\ Told' = Told \cup {j}
    <3>1. \A i \in 1..Len(trades) : i # j => (i \in Told' <=> i \in Told)
      BY <1>1, <1>2, <1>5, <2>2 DEF Told
    <3>2. j \notin Told /\ j \in Told'
      BY <1>5, <2>1 DEF Told
    <3>3. Told' \in SUBSET (1..Len(trades))
      BY <1>5 DEF Told
    <3> QED BY <1>2, <3>1, <3>2, <3>3
  <2>4. IsFiniteSet(Told) /\ Cardinality(Told') = Cardinality(Told) + 1
    BY <1>2, <2>3, CostFacts, FS_AddElement
  <2>5. CostOf(trades, Told') = CostOf(trades, Told) + q.amount
    BY <1>2, <2>1, <2>2, <2>3, CostFacts
  <2>6. mirror'.totalVolume = mirror.totalVolume + q.amount
        /\ mirror'.tradeCount = mirror.tradeCount + 1
    BY <1>5 DEF updatePoolStats
  <2> QED BY <1>1, <1>5, <2>4, <2>5, <2>6 DEF PageIsSum
<1>6. CASE Moves(q, q2) /\ UNCHANGED <<trades, mirror>>
  BY <1>3, <1>6 DEF Moves
<1> QED
  <2>1. \/ CommitTrade(r) /\ UNCHANGED mirror
        \/ /\ q.pc = "mirror" /\ q2.pc = "announce" /\ UNCHANGED trades
           /\ mirror' = updatePoolStats(q.seen.kes, q.amount)
        \/ Moves(q, q2) /\ UNCHANGED <<trades, mirror>>
        \/ /\ UNCHANGED <<trades, mirror>>
           /\ <<q.pc, q2.pc>> \in {<<"reserve", "read">>, <<"debit", "settle">>,
                <<"debit", "release">>, <<"settle", "notify">>, <<"release", "busy">>}
    BY <1>1, CalmStep
  <2>2. ASSUME <<q.pc, q2.pc>> \in {<<"reserve", "read">>, <<"debit", "settle">>,
                 <<"debit", "release">>, <<"settle", "notify">>, <<"release", "busy">>}
        PROVE  q.pc \notin Telling /\ q2.pc \notin Telling
    BY <2>2 DEF Telling
  <2> QED BY <1>3, <1>4, <1>5, <1>6, <2>1, <2>2

LEMMA BegunStep ==
  ASSUME IsFiniteSet(Begun), NEW r \in Requests, \A d \in Requests : d # r => req'[d] = req[d]
  PROVE  IsFiniteSet(Begun')
<1>1. Begun' \subseteq Begun \cup {r}
  BY DEF Begun
<1>2. IsFiniteSet(Begun \cup {r})
  BY FS_AddElement
<1> QED BY <1>1, <1>2, FS_Subset

(* A debit that fails is one of a user who has less than twice the stakes: *)
(* what was paid before and this stake are different stakes, and so are    *)
(* those that are held.                                                    *)
LEMMA DebitFailsUncovered ==
  ASSUME AInv, Faults = {}, NEW r \in Requests, req[r].pc = "debit",
         Available(req[r].user) < req[r].amount
  PROVE  OpeningBalance < 2 * StakedBy(req, With(req[r].user, PC \ {"idle"}))
<1> DEFINE u == req[r].user
           a == req[r].amount
           W == With(u, PC \ {"idle"})
           H == With(u, Reserving)
           P == With(u, Paid)
<1>1. /\ req \in [Requests -> Request] /\ u \in Users /\ a \in Nat
      /\ IsFiniteSet(Begun) /\ PurseIsSum(u) /\ OpeningBalance \in Nat
  BY RequestFields, PlaceTradeAssumption DEF AInv, IInv, TypeOK
<1>2. W \in SUBSET Requests /\ IsFiniteSet(W)
  BY <1>1, FS_Subset DEF With, Begun
<1>3. H \in SUBSET W /\ P \cup {r} \in SUBSET W /\ r \in Requests \ P
  BY DEF With, Reserving, Paid, PC, Stages, Ended
<1>4. P \in SUBSET Requests /\ IsFiniteSet(P) /\ H \in SUBSET Requests /\ IsFiniteSet(H)
  BY <1>2, <1>3, FS_Subset DEF With
<1> HIDE DEF W, H, P
<1>5. StakedBy(req, P) \in Nat /\ StakedBy(req, P \cup {r}) = StakedBy(req, P) + a
  BY <1>1, <1>3, <1>4, StakeFacts
<1>6. /\ StakedBy(req, W) \in Nat /\ StakedBy(req, H) \in Nat
      /\ StakedBy(req, H) <= StakedBy(req, W)
      /\ StakedBy(req, P \cup {r}) <= StakedBy(req, W)
  BY <1>1, <1>2, <1>3, <1>4, StakeFacts
<1>7. (OpeningBalance - StakedBy(req, P)) - StakedBy(req, H) < a
  BY <1>1 DEF PurseIsSum, Available, H, P
<1>8. OpeningBalance < 2 * StakedBy(req, W)
  BY <1>1, <1>5, <1>6, <1>7
<1> QED BY <1>8 DEF W

LEMMA UnpaidStep ==
  ASSUME AInv, IInv', Faults = {}, NEW r \in Requests, Handle(r) \/ Submit(r)
  PROVE  UnpaidIsUncovered'
<1> DEFINE q == req[r]
           q2 == req'[r]
           All == PC \ {"idle"}
<1>1. /\ IInv /\ TypeOK /\ TypeOK' /\ IsFiniteSet(Begun) /\ UnpaidIsUncovered
      /\ OpeningBalance \in Nat
  BY PlaceTradeAssumption DEF AInv, IInv
<1>2. Keeps(q, q2) /\ \A d \in Requests : d # r => req'[d] = req[d]
  BY <1>1, HandleStep
<1>3. \A u : /\ StakedBy(req, With(u, All)) \in Nat /\ StakedBy(req', With(u, All)') \in Nat
             /\ StakedBy(req, With(u, All)) <= StakedBy(req', With(u, All)')
  <2>1. q.pc \in PC /\ q2.pc \in PC /\ q.amount \in Nat /\ "idle" \notin All
    BY <1>1, RequestFields DEF TypeOK
  <2>2. q2.pc # "idle" \/ CommitTrade(r)
    BY <1>1, CalmStep DEF Moves
  <2>3. CommitTrade(r) => q2.pc = "average"
    BY <1>1, GotoStep DEF CommitTrade
  <2>4. q2.pc \in All
    BY <2>1, <2>2, <2>3
  <2> HIDE DEF All
  <2>5. \A u : \/ StakedBy(req', With(u, All)') = StakedBy(req, With(u, All)) + q.amount
               \/ StakedBy(req', With(u, All)') = StakedBy(req, With(u, All))
    BY <1>1, <1>2, <2>1, <2>4, StakeStep
  <2>6. \A u : StakedBy(req, With(u, All)) \in Nat
    BY <1>1, <1>2, <2>1, StakeStep
  <2> QED BY <2>1, <2>5, <2>6
<1>4. ASSUME NEW i \in 1..Len(trades), req'[trades[i].by].pc \in Failed,
             NEW w, w = trades[i].user
      PROVE  OpeningBalance < 2 * StakedBy(req', With(w, All)')
  <2>1. trades[i].by \in Requests
    BY <1>1, TableFacts
  <2>2. ASSUME OpeningBalance < 2 * StakedBy(req, With(w, All))
        PROVE  OpeningBalance < 2 * StakedBy(req', With(w, All)')
    <3> HIDE DEF All
    <3>1. /\ StakedBy(req, With(w, All)) \in Nat /\ StakedBy(req', With(w, All)') \in Nat
          /\ StakedBy(req, With(w, All)) <= StakedBy(req', With(w, All)')
      BY <1>3
    <3> QED BY <1>1, <2>2, <3>1
  <2>3. req[trades[i].by].pc \in Failed => OpeningBalance < 2 * StakedBy(req, With(w, All))
    BY <1>1, <1>4 DEF UnpaidIsUncovered
  <2>4. CASE trades[i].by # r
    BY <1>2, <1>4, <2>1, <2>2, <2>3, <2>4
  <2>5. CASE trades[i].by = r
    <3>1. q.pc \notin Untraded /\ w = q.user /\ q2.pc \in Failed
      BY <1>1, <1>4, <2>5 DEF IInv, TradeIsItsHandlers, IsOf
    <3>2. \/ q.pc = "debit" /\ Available(q.user) < q.amount
          \/ q.pc = "release"
      <4>1. ~CommitTrade(r)
        BY <1>1, <3>1, GotoStep DEF CommitTrade, Failed
      <4>2. ~Moves(q, q2)
        BY <3>1 DEF Moves
      <4>3. ASSUME <<q.pc, q2.pc>> \in {<<"settle", "notify">>, <<"release", "busy">>}
            PROVE  q.pc = "release"
        BY <3>1, <4>3 DEF Failed
      <4> QED BY <1>1, <3>1, <4>1, <4>2, <4>3, CalmStep DEF Failed
    <3>3. CASE q.pc = "debit" /\ Available(q.user) < q.amount
      BY <2>2, <3>1, <3>3, DebitFailsUncovered
    <3>4. CASE q.pc = "release"
      BY <2>2, <2>3, <2>5, <3>4 DEF Failed
    <3> QED BY <3>2, <3>3, <3>4
  <2> QED BY <2>4, <2>5
<1>5. CASE UNCHANGED trades
  <2>1. \A i \in 1..Len(trades) : req'[trades[i].by].pc \in Failed =>
          \A w : w = trades[i].user => OpeningBalance < 2 * StakedBy(req', With(w, All)')
    BY <1>4
  <2> QED BY <1>5, <2>1 DEF UnpaidIsUncovered, With
<1>6. CASE CommitTrade(r)
  <2> DEFINE t == [key |-> q.key, user |-> q.user, outcome |-> q.outcome,
                   amount |-> q.amount, poolAtTrade |-> q.seen.kes, by |-> r]
  <2>1. q2.pc = "average" /\ trades' = Append(trades, t) /\ t.by = r /\ trades \in Seq(Trade)
    BY <1>1, <1>6, GotoStep DEF CommitTrade, TypeOK
  <2> HIDE DEF t
  <2>2. PICK n \in Nat : n = Len(trades)
    BY <1>1, TableFacts
  <2>3. Len(trades') = n + 1 /\ trades'[n + 1] = t /\ \A i \in 1..n : trades'[i] = trades[i]
    BY <2>1, <2>2
  <2>4. \A i \in 1..n : req'[trades'[i].by].pc \in Failed =>
          \A w : w = trades'[i].user => OpeningBalance < 2 * StakedBy(req', With(w, All)')
    BY <1>4, <2>2, <2>3
  <2>5. req'[trades'[n + 1].by].pc \notin Failed
    BY <2>1, <2>3 DEF Failed
  <2>6. \A i \in 1..(n + 1) : i \in 1..n \/ i = n + 1
    OBVIOUS
  <2>7. \A i \in 1..(n + 1) : req'[trades'[i].by].pc \in Failed =>
          \A w : w = trades'[i].user => OpeningBalance < 2 * StakedBy(req', With(w, All)')
    BY <2>4, <2>5, <2>6
  <2> QED BY <2>3, <2>7 DEF UnpaidIsUncovered, With
<1> QED BY <1>1, <1>5, <1>6, CalmStep

LEMMA InitAccounts == Init => AInv
<1> SUFFICES ASSUME Init PROVE AInv
  OBVIOUS
<1>1. /\ trades = << >> /\ Len(trades) = 0 /\ \A r \in Requests : req[r].pc = "idle"
      /\ OpeningBalance \in Int
  BY PlaceTradeAssumption DEF Init, Submissions
<1>2. Begun = {} /\ Told = {} /\ \A u : With(u, Reserving) = {} /\ With(u, Paid) = {}
  BY <1>1 DEF Begun, Told, With, Reserving, Paid
<1>3. StakedBy(req, {}) = 0
  BY SumEmpty DEF StakedBy
<1>4. PageIsSum
  BY <1>2, NoCost, FS_EmptySet DEF PageIsSum, Init
<1>5. ASSUME NEW u \in Users PROVE PurseIsSum(u)
  <2>1. purse[u].reserved = 0 /\ purse[u].balance = OpeningBalance
    BY DEF Init
  <2>2. StakedBy(req, With(u, Reserving)) = 0 /\ StakedBy(req, With(u, Paid)) = 0
    BY <1>2, <1>3
  <2>3. OpeningBalance - 0 = OpeningBalance
    BY <1>1
  <2> QED BY <2>1, <2>2, <2>3 DEF PurseIsSum
<1>6. UnpaidIsUncovered
  BY <1>1 DEF UnpaidIsUncovered
<1> QED BY <1>2, <1>4, <1>5, <1>6, InitInv, FS_EmptySet DEF AInv

LEMMA NextAccounts == AInv /\ [Next]_vars => AInv'
<1> SUFFICES ASSUME AInv, [Next]_vars PROVE AInv'
  OBVIOUS
<1>1. IInv /\ IInv' /\ TypeOK /\ TypeOK' /\ IsFiniteSet(Begun)
  BY NextInv DEF AInv, IInv
<1>2. ASSUME UNCHANGED <<trades, purse, mirror, req>> PROVE AInv'
  BY <1>1, <1>2 DEF AInv, Begun, PageIsSum, Told, PurseIsSum, UnpaidIsUncovered, With
<1>3. CASE CloseMarket
  BY <1>2, <1>3 DEF CloseMarket, wallet
<1>4. CASE InitMarketPool
  BY <1>2, <1>4 DEF InitMarketPool, wallet
<1>5. ASSUME NEW r \in Requests, Submit(r) \/ Handle(r) PROVE AInv'
  <2>1. IsFiniteSet(Begun')
    BY <1>1, <1>5, HandleStep, BegunStep
  <2>2. ASSUME Faults = {}
        PROVE  PageIsSum' /\ (\A u \in Users : PurseIsSum(u)') /\ UnpaidIsUncovered'
    BY <1>1, <1>5, <2>2, PageSums, PurseSums, UnpaidStep
  <2> QED BY <1>1, <2>1, <2>2 DEF AInv
<1>6. CASE UNCHANGED vars
  BY <1>2, <1>6 DEF vars
<1> QED BY <1>3, <1>4, <1>5, <1>6 DEF Next

-----------------------------------------------------------------------------
(* What the books and the accounts say of what is shown. *)
LEMMA TapeFollows == BInv => TapeExplainsPool
<1>1. /\ \A S : KesOnTape(S) = CostOf(trades, S)
      /\ \A o : {i \in 1..Len(trades) : getMarketTrades[i].outcome = o} = TradesOn(o)
  <2>1. \A i \in 1..Len(trades) : /\ getMarketTrades[i].amountKes = trades[i].amount
                                  /\ getMarketTrades[i].outcome = trades[i].outcome
    BY DEF getMarketTrades
  <2>2. [i \in 1..Len(trades) |-> getMarketTrades[i].amountKes]
          = [i \in 1..Len(trades) |-> trades[i].amount]
    BY <2>1
  <2> QED BY <2>1, <2>2 DEF KesOnTape, CostOf, TradesOn
<1> QED BY <1>1 DEF BInv, PoolIsSum, TapeExplainsPool

LEMMA PositionsFollow == BInv => PositionsMatchTrades
<1> SUFFICES ASSUME BInv, NEW o \in Outcomes, NEW u \in Users
             PROVE  LET mine == Booked(<<u, o>>)
                    IN  IF mine = {} THEN u \notin DOMAIN getMarketHolders(o)
                        ELSE /\ mine \subseteq getMyTrades(u)
                             /\ getMyPositions(u)[o].costKes = CostOf(trades, mine)
                             /\ getMarketHolders(o)[u].sharesHeld = SharesOf(trades, mine)
                             /\ getMarketPosition(u) = {o} =>
                                  \A x \in Outcomes : CostOf(trades, mine) >= position[<<u, x>>].cost
  BY DEF PositionsMatchTrades
<1> DEFINE mine == Booked(<<u, o>>)
           held(x) == position[<<u, x>>]
<1>1. /\ \A x \in Outcomes : PositionBooked(<<u, x>>)
      /\ trades \in Seq(Trade) /\ position \in [Users \X Outcomes -> Position]
  BY DEF BInv, IInv, TypeOK
<1>2. \A x \in Outcomes : /\ held(x).exists <=> Booked(<<u, x>>) # {}
                          /\ held(x).cost = CostOf(trades, Booked(<<u, x>>))
                          /\ held(x).shares = SharesOf(trades, Booked(<<u, x>>))
                          /\ held(x).cost = SHARE_PRICE_KES * held(x).shares
                          /\ held(x).shares \in Nat /\ held(x).cost \in Nat
  BY <1>1 DEF PositionBooked, Position
<1>3. CASE mine = {}
  <2>1. ~held(o).exists
    BY <1>2, <1>3
  <2> QED BY <1>3, <2>1 DEF getMarketHolders
<1>4. CASE mine # {}
  <2>1. held(o).exists
    BY <1>2, <1>4
  <2>2. mine \subseteq getMyTrades(u)
    BY DEF Booked, getMyTrades
  <2>3. /\ getMyPositions(u)[o].costKes = held(o).cost
        /\ getMarketHolders(o)[u].sharesHeld = held(o).shares
    BY <2>1 DEF getMyPositions, getMarketHolders, Shown
  <2>4. ASSUME getMarketPosition(u) = {o}, NEW x \in Outcomes
        PROVE  held(o).cost >= held(x).cost
    <3>1. CASE ~held(x).exists
      <4>1. held(x).cost = 0
        BY <1>2, <3>1, NoCost
      <4> QED BY <1>2, <4>1
    <3>2. CASE held(x).exists
      <4>1. x \in DOMAIN getMyPositions(u)
        BY <3>2 DEF getMyPositions
      <4>2. held(o).shares >= held(x).shares
        BY <2>4, <4>1 DEF getMarketPosition
      <4>3. \A m, k \in Nat : m >= k => SHARE_PRICE_KES * m >= SHARE_PRICE_KES * k
        BY PlaceTradeAssumption
      <4> QED BY <1>2, <4>2, <4>3
    <3> QED BY <3>1, <3>2
  <2> QED BY <1>2, <1>4, <2>2, <2>3, <2>4
<1> QED BY <1>3, <1>4

LEMMA PageFollows == AInv /\ BInv => PageCountsTrades
<1> SUFFICES ASSUME AInv, BInv PROVE PageCountsTrades
  OBVIOUS
<1>1. Faults = {} => /\ getMarket.tradeCount = Cardinality(Told)
                     /\ getMarket.totalVolume = CostOf(trades, Told)
  BY DEF AInv, PageIsSum, getMarket
<1>2. PICK i \in 0..Len(trades) : mirror.kes = Stake(i)
  BY DEF BInv, PricesArePast, IsPast
<1> QED BY <1>1, <1>2 DEF PageCountsTrades, getMarket

LEMMA AccountsFollow == AInv => ReservedIsPending /\ CoveredIsPaid
<1> SUFFICES ASSUME AInv PROVE ReservedIsPending /\ CoveredIsPaid
  OBVIOUS
<1>1. \A u : Locked(u) = With(u, Reserving)
  BY DEF Locked, With, Reserving
<1>2. \A u : Submitted(u) = With(u, PC \ {"idle"})
  BY RequestFields DEF Submitted, With, AInv, IInv, TypeOK
<1>3. ReservedIsPending
  BY <1>1 DEF ReservedIsPending, AInv, PurseIsSum
<1>4. CoveredIsPaid
  <2> SUFFICES ASSUME Faults = {}, NEW i \in 1..Len(trades), req[trades[i].by].pc \in Ended,
                      OpeningBalance >= 2 * StakedBy(req, Submitted(trades[i].user))
               PROVE  charged[trades[i].key] = 1
    BY DEF CoveredIsPaid
  <2>1. trades[i].by \in Requests /\ IsOf(trades[i], req[trades[i].by])
        /\ req[trades[i].by].pc \notin Untraded
    BY TableFacts DEF AInv, IInv, TradeIsItsHandlers
  <2>2. req[trades[i].by].pc \notin Failed
    <3> DEFINE w == StakedBy(req, With(trades[i].user, PC \ {"idle"}))
    <3>1. OpeningBalance >= 2 * w
      BY <1>2
    <3>2. req[trades[i].by].pc \in Failed => OpeningBalance < 2 * w
      BY DEF AInv, UnpaidIsUncovered
    <3>3. w \in Nat /\ OpeningBalance \in Nat
      <4>1. With(trades[i].user, PC \ {"idle"}) \in SUBSET Requests
            /\ IsFiniteSet(With(trades[i].user, PC \ {"idle"}))
        BY FS_Subset DEF AInv, With, Begun
      <4>2. req \in [Requests -> Request]
        BY DEF AInv, IInv, TypeOK
      <4> QED BY <4>1, <4>2, StakeFacts, PlaceTradeAssumption
    <3> HIDE DEF w
    <3> QED BY <3>1, <3>2, <3>3
  <2>3. req[trades[i].by].pc \in Paid
    BY <2>1, <2>2 DEF Ended, Untraded, Failed, Paid
  <2> QED BY <2>1, <2>3 DEF AInv, IInv, ChargeIsOwed, IsOf
<1> QED BY <1>3, <1>4

(* The books of the trading service agree with one another, with the market *)
(* page and with the wallet, for any number of users, requests and keys in  *)
(* every interleaving of the handlers.                                      *)
THEOREM BooksMatchTradesHolds == Spec => []BooksMatchTrades
<1>1. Spec => []BInv
  BY InitBooks, NextBooks, PTL DEF Spec
<1>2. Spec => []AInv
  BY InitAccounts, NextAccounts, PTL DEF Spec
<1>3. AInv /\ BInv => BooksMatchTrades
  BY ChargedOnceFollows, TapeFollows, PositionsFollow, PageFollows, AccountsFollow
     DEF BInv, BooksMatchTrades
<1> QED BY <1>1, <1>2, <1>3, PTL

=============================================================================
