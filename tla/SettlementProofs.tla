--------------------------- MODULE SettlementProofs ---------------------------
(***************************************************************************)
(* What holds of settlements and refunds for any number of users, and any  *)
(* stakes, pot, late trades and crashes.                                   *)
(***************************************************************************)
EXTENDS Settlement, SumProofs, TLAPS

-----------------------------------------------------------------------------
(* Holders, and the sums over them.                                        *)

LEMMA HolderSets ==
  /\ IsFiniteSet(Holders) /\ Holders # {}
  /\ \A o : Of(o) \in SUBSET Holders /\ IsFiniteSet(Of(o))
<1>1. IsFiniteSet({"YES"})
  BY FS_Singleton
<1>2. IsFiniteSet({"YES"} \cup {"NO"})
  BY <1>1, FS_AddElement
<1>3. Outcomes = {"YES"} \cup {"NO"}
  BY DEF Outcomes
<1>4. IsFiniteSet(Holders)
  <2>1. IsFiniteSet(Outcomes) /\ IsFiniteSet(Users)
    BY <1>2, <1>3, SettlementAssumption
  <2> QED BY <2>1, FS_Product DEF Holders
<1>5. Holders # {}
  <2>1. PICK u \in Users : TRUE
    BY SettlementAssumption
  <2>2. <<u, "YES">> \in Holders
    BY <1>3 DEF Holders
  <2> QED BY <2>2
<1>6. \A o : Of(o) \in SUBSET Holders
  BY DEF Of
<1> QED BY <1>4, <1>5, <1>6, FS_Subset

LEMMA StakeSums ==
  ASSUME NEW s, \A h \in Holders : s[h] \in Nat, NEW o
  PROVE  Sums(s, Of(o)) /\ SumFunctionOnSet(s, Of(o)) \in Nat
<1>1. Of(o) \in SUBSET Holders /\ IsFiniteSet(Of(o))
  BY HolderSets
<1>2. \A h \in Of(o) : s[h] \in Nat
  BY <1>1
<1>3. SumFunctionOnSet(s, Of(o)) \in Nat
  BY <1>1, <1>2, SumNat
<1> QED BY <1>1, <1>2, <1>3 DEF Sums

(* A stake that grows by one makes the sum over its outcome one more. *)
LEMMA StakeGrows ==
  ASSUME NEW s \in [Holders -> Nat], NEW g \in Holders, NEW o
  PROVE  SumFunctionOnSet([s EXCEPT ![g] = @ + 1], Of(o))
           = SumFunctionOnSet(s, Of(o)) + (IF g[2] = o THEN 1 ELSE 0)
<1> DEFINE e == [s EXCEPT ![g] = @ + 1]
<1>1. /\ \A h \in Holders : e[h] \in Nat /\ s[h] \in Nat
      /\ e[g] = s[g] + 1 /\ \A h \in Holders \ {g} : e[h] = s[h]
  OBVIOUS
<1> HIDE DEF e
<1>2. /\ Sums(s, Of(o)) /\ SumFunctionOnSet(s, Of(o)) \in Nat
      /\ Sums(e, Of(o)) /\ SumFunctionOnSet(e, Of(o)) \in Nat
  BY <1>1, StakeSums
<1>3. CASE g[2] = o
  <2>1. g \in Of(o) /\ \A h \in Of(o) \ {g} : s[h] = e[h]
    BY <1>1, <1>3 DEF Of
  <2>2. SumFunctionOnSet(e, Of(o)) = SumFunctionOnSet(s, Of(o)) - s[g] + e[g]
    BY <1>2, <2>1, SumChange
  <2>3. s[g] \in Nat /\ e[g] = s[g] + 1
    BY <1>1
  <2>4. SumFunctionOnSet(e, Of(o)) = SumFunctionOnSet(s, Of(o)) + 1
    BY <1>2, <2>2, <2>3
  <2> QED BY <1>3, <2>4 DEF e
<1>4. CASE g[2] # o
  <2>1. \A h \in Of(o) : s[h] = e[h]
    BY <1>1, <1>4 DEF Of
  <2>2. SumFunctionOnSet(s, Of(o)) = SumFunctionOnSet(e, Of(o))
    BY <1>2, <2>1, SumSame
  <2> QED BY <1>2, <1>4, <2>2 DEF e
<1> QED BY <1>3, <1>4

-----------------------------------------------------------------------------
(* Types.                                                                  *)

(* The consumer after a step. *)
Turns(p, t, s, d, u, o) ==
  /\ con' \in Consumer
  /\ con'.pc = p /\ con'.todo = t /\ con'.shares = s
  /\ con'.den = d /\ con'.current = u /\ con'.out = o

Pcs == {"find", "pool", "record", "mark", "losers", "close", "publish", "done"}

(* The updates of the consumer, field by field. *)
LEMMA PcTurns ==
  ASSUME con \in Consumer, NEW p \in Pcs,
         con' = [con EXCEPT !.pc = p]
  PROVE  Turns(p, con.todo, con.shares, con.den, con.current, con.out)
<1> DEFINE x == [con EXCEPT !.pc = p]
<1>1. x.pc = p /\ x.todo = con.todo /\ x.shares = con.shares
  BY DEF Consumer
<1>2. x.den = con.den /\ x.current = con.current /\ x.out = con.out
  BY DEF Consumer
<1>3. x \in Consumer
  BY DEF Consumer, Pcs
<1> HIDE DEF x
<1>4. con' = x
  BY DEF x
<1> QED BY <1>1, <1>2, <1>3, <1>4 DEF Turns

LEMMA TodoTurns ==
  ASSUME con \in Consumer, NEW p \in Pcs, NEW t \in SUBSET Holders,
         con' = [con EXCEPT !.pc = p, !.todo = t]
  PROVE  Turns(p, t, con.shares, con.den, con.current, con.out)
<1> DEFINE x == [con EXCEPT !.pc = p, !.todo = t]
<1>1. x.pc = p /\ x.todo = t /\ x.shares = con.shares
  BY DEF Consumer
<1>2. x.den = con.den /\ x.current = con.current /\ x.out = con.out
  BY DEF Consumer
<1>3. x \in Consumer
  BY DEF Consumer, Pcs
<1> HIDE DEF x
<1>4. con' = x
  BY DEF x
<1> QED BY <1>1, <1>2, <1>3, <1>4 DEF Turns

LEMMA SharesTurns ==
  ASSUME con \in Consumer, NEW p \in Pcs, NEW t \in SUBSET Holders, NEW s \in [Holders -> Nat],
         con' = [con EXCEPT !.pc = p, !.todo = t, !.shares = s]
  PROVE  Turns(p, t, s, con.den, con.current, con.out)
<1> DEFINE x == [con EXCEPT !.pc = p, !.todo = t, !.shares = s]
<1>1. x.pc = p /\ x.todo = t /\ x.shares = s
  BY DEF Consumer
<1>2. x.den = con.den /\ x.current = con.current /\ x.out = con.out
  BY DEF Consumer
<1>3. x \in Consumer
  BY DEF Consumer, Pcs
<1> HIDE DEF x
<1>4. con' = x
  BY DEF x
<1> QED BY <1>1, <1>2, <1>3, <1>4 DEF Turns

LEMMA DenTurns ==
  ASSUME con \in Consumer, NEW p \in Pcs, NEW d \in Nat,
         con' = [con EXCEPT !.pc = p, !.den = d]
  PROVE  Turns(p, con.todo, con.shares, d, con.current, con.out)
<1> DEFINE x == [con EXCEPT !.pc = p, !.den = d]
<1>1. x.pc = p /\ x.todo = con.todo /\ x.shares = con.shares
  BY DEF Consumer
<1>2. x.den = d /\ x.current = con.current /\ x.out = con.out
  BY DEF Consumer
<1>3. x \in Consumer
  BY DEF Consumer, Pcs
<1> HIDE DEF x
<1>4. con' = x
  BY DEF x
<1> QED BY <1>1, <1>2, <1>3, <1>4 DEF Turns

LEMMA CurrentTurns ==
  ASSUME con \in Consumer, NEW p \in Pcs, NEW u \in Holders, NEW t \in SUBSET Holders,
         con' = [con EXCEPT !.pc = p, !.current = u, !.todo = t]
  PROVE  Turns(p, t, con.shares, con.den, u, con.out)
<1> DEFINE x == [con EXCEPT !.pc = p, !.current = u, !.todo = t]
<1>1. x.pc = p /\ x.todo = t /\ x.shares = con.shares
  BY DEF Consumer
<1>2. x.den = con.den /\ x.current = u /\ x.out = con.out
  BY DEF Consumer
<1>3. x \in Consumer
  BY DEF Consumer, Pcs
<1> HIDE DEF x
<1>4. con' = x
  BY DEF x
<1> QED BY <1>1, <1>2, <1>3, <1>4 DEF Turns

LEMMA OutTurns ==
  ASSUME con \in Consumer, NEW p \in Pcs, NEW o \in SUBSET Payouts,
         con' = [con EXCEPT !.pc = p, !.out = o]
  PROVE  Turns(p, con.todo, con.shares, con.den, con.current, o)
<1> DEFINE x == [con EXCEPT !.pc = p, !.out = o]
<1>1. x.pc = p /\ x.todo = con.todo /\ x.shares = con.shares
  BY DEF Consumer
<1>2. x.den = con.den /\ x.current = con.current /\ x.out = o
  BY DEF Consumer
<1>3. x \in Consumer
  BY DEF Consumer, Pcs
<1> HIDE DEF x
<1>4. con' = x
  BY DEF x
<1> QED BY <1>1, <1>2, <1>3, <1>4 DEF Turns

LEMMA LessTurns ==
  ASSUME con \in Consumer, NEW t \in SUBSET Holders,
         con' = [con EXCEPT !.todo = t]
  PROVE  Turns(con.pc, t, con.shares, con.den, con.current, con.out)
<1> DEFINE x == [con EXCEPT !.todo = t]
<1>1. x.pc = con.pc /\ x.todo = t /\ x.shares = con.shares
  BY DEF Consumer
<1>2. x.den = con.den /\ x.current = con.current /\ x.out = con.out
  BY DEF Consumer
<1>3. x \in Consumer
  BY DEF Consumer, Pcs
<1> HIDE DEF x
<1>4. con' = x
  BY DEF x
<1> QED BY <1>1, <1>2, <1>3, <1>4 DEF Turns

LEMMA ConFacts ==
  ASSUME TypeOK
  PROVE  /\ con \in Consumer
         /\ con.pc \in {"find", "pool", "record", "mark", "losers", "close", "publish", "done"}
         /\ con.todo \in SUBSET Holders /\ con.shares \in [Holders -> Nat] /\ con.den \in Nat
         /\ con.current \in Holders /\ con.out \in SUBSET Payouts
         /\ con.crashes \in 0..MaxCrashes
BY DEF TypeOK, Consumer

LEMMA PayoutType ==
  ASSUME TypeOK, NEW h \in Holders
  PROVE  PayoutOf(h) \in Nat
<1>1. con.shares[h] \in Nat /\ con.den \in Nat /\ Pot \in Nat
  BY ConFacts, SettlementAssumption
<1>2. con.den # 0 => Pot \div con.den \in Nat
  BY <1>1, Quotient
<1> QED BY <1>1, <1>2 DEF PayoutOf

(* A cancelled market never gets to the steps of a settlement. *)
Routed == ~Resolving => con.pc \in {"find", "close", "publish", "done"}

TInv == TypeOK /\ Routed

LEMMA OpenType == \A H \in SUBSET Holders : Open(H) \in SUBSET Holders
BY DEF Open

(* What each action of the consumer makes of it. *)
LEMMA Finishes ==
  ASSUME TypeOK, con' = [con EXCEPT !.pc = "done"]
  PROVE  Turns("done", con.todo, con.shares, con.den, con.current, con.out)
BY ConFacts, PcTurns DEF Pcs

LEMMA FindWinnersTurns ==
  ASSUME TypeOK, FindWinners
  PROVE  \/ /\ Open(Of(verdict)) = {}
            /\ Turns("done", con.todo, con.shares, con.den, con.current, con.out)
         \/ /\ Open(Of(verdict)) # {}
            /\ Turns("pool", Open(Of(verdict)), stake, con.den, con.current, con.out)
<1> DEFINE W == Open(Of(verdict))
<1>1. W \in SUBSET Holders /\ stake \in [Holders -> Nat]
  BY OpenType, HolderSets DEF TypeOK
<1>2. con' = IF W = {} THEN [con EXCEPT !.pc = "done"]
             ELSE [con EXCEPT !.pc = "pool", !.todo = W, !.shares = stake]
  BY DEF FindWinners
<1> HIDE DEF W
<1>3. CASE W = {}
  BY <1>2, <1>3, Finishes DEF W
<1>4. CASE W # {}
  <2>1. Turns("pool", W, stake, con.den, con.current, con.out)
    BY <1>1, <1>2, <1>4, ConFacts, SharesTurns DEF Pcs
  <2> QED BY <1>4, <2>1 DEF W
<1> QED BY <1>3, <1>4

LEMMA ReadPoolTurns ==
  ASSUME TInv, ReadPool
  PROVE  /\ verdict \in Outcomes
         /\ Turns("record", con.todo, con.shares, pool[verdict], con.current, con.out)
<1>1. TypeOK /\ verdict \in Outcomes
  BY DEF ReadPool, TInv, Routed, Resolving
<1>2. PICK d \in Nat : d = pool[verdict]
  BY <1>1 DEF TypeOK
<1>3. con' = [con EXCEPT !.pc = "record", !.den = d]
  BY <1>2 DEF ReadPool
<1>4. Turns("record", con.todo, con.shares, d, con.current, con.out)
  BY <1>1, <1>3, ConFacts, DenTurns DEF Pcs
<1> QED BY <1>1, <1>2, <1>4

LEMMA RecordTurns ==
  ASSUME TypeOK, RecordSettlement
  PROVE  \E h \in con.todo :
           /\ record' = IF record[h] = None THEN [record EXCEPT ![h] = PayoutOf(h)]
                                            ELSE record
           /\ Turns("mark", con.todo \ {h}, con.shares, con.den, h, con.out)
<1>1. PICK h \in con.todo :
           /\ record' = IF record[h] = None THEN [record EXCEPT ![h] = PayoutOf(h)]
                                            ELSE record
           /\ con' = [con EXCEPT !.pc = "mark", !.current = h, !.todo = @ \ {h}]
  BY DEF RecordSettlement
<1>2. PICK t \in SUBSET Holders : t = con.todo \ {h}
  BY ConFacts
<1>3. con' = [con EXCEPT !.pc = "mark", !.current = h, !.todo = t] /\ h \in Holders
  BY <1>1, <1>2, ConFacts
<1>4. Turns("mark", t, con.shares, con.den, h, con.out)
  BY <1>3, ConFacts, CurrentTurns DEF Pcs
<1> QED BY <1>1, <1>2, <1>4

LEMMA MarkTurns ==
  ASSUME TypeOK, MarkWinner
  PROVE  Turns(IF con.todo = {} THEN "losers" ELSE "record", con.todo, con.shares, con.den,
               con.current,
               con.out \cup {[holder |-> con.current, amount |-> PayoutOf(con.current)]})
<1>1. PICK p \in {"losers", "record"} : p = IF con.todo = {} THEN "losers" ELSE "record"
  OBVIOUS
<1>2. PICK o \in SUBSET Payouts :
        o = con.out \cup {[holder |-> con.current, amount |-> PayoutOf(con.current)]}
  <2>1. con.current \in Holders /\ con.out \in SUBSET Payouts
    BY ConFacts
  <2>2. PayoutOf(con.current) \in Nat
    BY <2>1, PayoutType
  <2>3. [holder |-> con.current, amount |-> PayoutOf(con.current)] \in Payouts
    BY <2>1, <2>2 DEF Payouts
  <2> QED BY <2>1, <2>3
<1>3. con' = [con EXCEPT !.pc = p, !.out = o]
  BY <1>1, <1>2 DEF MarkWinner
<1>4. Turns(p, con.todo, con.shares, con.den, con.current, o)
  BY <1>3, ConFacts, OutTurns DEF Pcs
<1> QED BY <1>1, <1>2, <1>4

LEMMA FindLosersTurns ==
  ASSUME TypeOK, FindLosers
  PROVE  Turns("close", Open(Of(Losing)), con.shares, con.den, con.current, con.out)
<1>1. PICK t \in SUBSET Holders : t = Open(Of(Losing))
  BY OpenType, HolderSets
<1>2. con' = [con EXCEPT !.pc = "close", !.todo = t]
  BY <1>1 DEF FindLosers
<1>3. Turns("close", t, con.shares, con.den, con.current, con.out)
  BY <1>2, ConFacts, TodoTurns DEF Pcs
<1> QED BY <1>1, <1>3

LEMMA CloseLosersTurns ==
  ASSUME TypeOK, CloseLosers
  PROVE  Turns("publish", con.todo, con.shares, con.den, con.current,
               con.out \cup {[holder |-> h, amount |-> 0] : h \in con.todo})
<1>1. PICK o \in SUBSET Payouts : o = con.out \cup {[holder |-> h, amount |-> 0] : h \in con.todo}
  <2>1. con.todo \in SUBSET Holders /\ con.out \in SUBSET Payouts
    BY ConFacts
  <2>2. \A h \in con.todo : [holder |-> h, amount |-> 0] \in Payouts
    BY <2>1 DEF Payouts
  <2> QED BY <2>1, <2>2
<1>2. con' = [con EXCEPT !.pc = "publish", !.out = o]
  BY <1>1 DEF CloseLosers
<1>3. Turns("publish", con.todo, con.shares, con.den, con.current, o)
  BY <1>2, ConFacts, OutTurns DEF Pcs
<1> QED BY <1>1, <1>3

LEMMA FindRefundableTurns ==
  ASSUME TypeOK, FindRefundable
  PROVE  Turns("close", Open(Holders), stake, con.den, con.current, con.out)
<1>1. PICK t \in SUBSET Holders : t = Open(Holders)
  BY OpenType
<1>2. con' = [con EXCEPT !.pc = "close", !.todo = t, !.shares = stake]
      /\ stake \in [Holders -> Nat]
  BY <1>1 DEF FindRefundable, TypeOK
<1>3. Turns("close", t, stake, con.den, con.current, con.out)
  BY <1>2, ConFacts, SharesTurns DEF Pcs
<1> QED BY <1>1, <1>3

LEMMA CloseRefundedTurns ==
  ASSUME TypeOK, CloseRefunded
  PROVE  Turns("publish", con.todo, con.shares, con.den, con.current, con.out)
BY ConFacts, PcTurns DEF Pcs, CloseRefunded

LEMMA PublishRefundTurns ==
  ASSUME TypeOK, PublishRefund
  PROVE  \/ /\ UNCHANGED refunds
            /\ Turns("done", con.todo, con.shares, con.den, con.current, con.out)
            /\ con.todo = {} \/ "publish" \in faults
         \/ \E h \in con.todo :
              /\ refunds' = Append(refunds, [holder |-> h, amount |-> con.shares[h]])
              /\ Turns("publish", con.todo \ {h}, con.shares, con.den, con.current, con.out)
<1>1. CASE /\ UNCHANGED refunds /\ con' = [con EXCEPT !.pc = "done"]
           /\ con.todo = {} \/ "publish" \in faults
  BY <1>1, Finishes
<1>2. ASSUME NEW h \in con.todo,
             refunds' = Append(refunds, [holder |-> h, amount |-> con.shares[h]]),
             con' = [con EXCEPT !.todo = @ \ {h}]
      PROVE  Turns("publish", con.todo \ {h}, con.shares, con.den, con.current, con.out)
  <2>1. PICK t \in SUBSET Holders : t = con.todo \ {h}
    BY ConFacts
  <2>2. con' = [con EXCEPT !.todo = t] /\ con.pc = "publish"
    BY <1>2, <2>1 DEF PublishRefund
  <2>3. Turns("publish", t, con.shares, con.den, con.current, con.out)
    BY <2>2, ConFacts, LessTurns
  <2> QED BY <2>1, <2>3
<1> QED BY <1>1, <1>2 DEF PublishRefund

LEMMA CrashTurns ==
  ASSUME TypeOK, Crash
  PROVE  Turns("find", {}, [h \in Holders |-> 0], 0, Waiting.current, {})
<1>1. PICK n \in 0..MaxCrashes : con' = [Waiting EXCEPT !.crashes = n]
  <2>1. con.crashes + 1 \in 0..MaxCrashes
    BY ConFacts, SettlementAssumption DEF Crash
  <2> QED BY <2>1 DEF Crash
<1>2. Waiting.current \in Holders
  BY HolderSets DEF Waiting
<1>3. /\ con'.pc = "find" /\ con'.todo = {} /\ con'.shares = [h \in Holders |-> 0]
      /\ con'.den = 0 /\ con'.out = {} /\ con'.current = Waiting.current
  BY <1>1 DEF Waiting
<1>4. con' \in Consumer
  <2> DEFINE u == CHOOSE h \in Holders : TRUE
  <2>1. u \in Holders
    BY HolderSets
  <2>2. con' = [pc |-> "find", todo |-> {}, shares |-> [h \in Holders |-> 0], den |-> 0,
                current |-> u, out |-> {}, crashes |-> n]
    BY <1>1 DEF Waiting
  <2> HIDE DEF u
  <2> QED BY <2>1, <2>2 DEF Consumer
<1> QED BY <1>3, <1>4 DEF Turns

LEMMA CloseType ==
  ASSUME TypeOK, NEW H, Close(H)
  PROVE  settled' \in [Holders -> BOOLEAN] /\ payout' \in [Holders -> Money]
BY DEF Close, TypeOK, Money

LEMMA RefundsType ==
  ASSUME TypeOK, NEW h \in Holders, NEW a \in Nat,
         refunds' = Append(refunds, [holder |-> h, amount |-> a])
  PROVE  refunds' \in Seq(Refunds)
<1>1. [holder |-> h, amount |-> a] \in Refunds
  BY DEF Refunds
<1> QED BY <1>1 DEF TypeOK

LEMMA InitTInv == Init => TInv
<1> SUFFICES ASSUME Init PROVE TInv
  OBVIOUS
<1>1. stake \in [Holders -> Nat]
  BY SettlementAssumption DEF Init
<1>2. pool \in [Outcomes -> Nat]
  <2>1. \A o : SumFunctionOnSet(stake, Of(o)) \in Nat
    BY <1>1, StakeSums
  <2> QED BY <2>1 DEF Init
<1>3. (CHOOSE h \in Holders : TRUE) \in Holders
  BY HolderSets
<1>4. con \in Consumer /\ con.pc = "find"
  <2> DEFINE u == CHOOSE h \in Holders : TRUE
  <2>1. con = [pc |-> "find", todo |-> {}, shares |-> [h \in Holders |-> 0], den |-> 0,
               current |-> u, out |-> {}, crashes |-> 0]
    BY DEF Init, Waiting
  <2>2. u \in Holders /\ 0 \in 0..MaxCrashes
    BY <1>3, SettlementAssumption
  <2> HIDE DEF u
  <2> QED BY <2>1, <2>2 DEF Consumer
<1>5. trade \in [pc: {"idle", "position"}, holder: Holders]
  BY <1>3 DEF Init
<1>6. lates \in 0..MaxLateTrades
  BY SettlementAssumption DEF Init
<1> QED BY <1>1, <1>2, <1>4, <1>5, <1>6 DEF Init, TInv, TypeOK, Routed, Money

LEMMA NextTInv == TInv /\ [Next]_vars => TInv'
<1> SUFFICES ASSUME TInv, [Next]_vars PROVE TInv'
  OBVIOUS
<1>0. TypeOK /\ Routed
  BY DEF TInv
<1>1. CASE TradePool
  <2>1. PICK h \in Holders : /\ pool' = [pool EXCEPT ![h[2]] = @ + 1]
                             /\ trade' = [pc |-> "position", holder |-> h]
    BY <1>1 DEF TradePool
  <2>2. h[2] \in Outcomes
    BY DEF Holders
  <2>3. pool' \in [Outcomes -> Nat]
    BY <1>0, <2>1, <2>2 DEF TypeOK
  <2>4. trade' \in [pc: {"idle", "position"}, holder: Holders]
    BY <2>1
  <2>5. lates' \in 0..MaxLateTrades
    BY <1>0, <1>1, SettlementAssumption DEF TradePool, TypeOK
  <2> QED BY <1>0, <1>1, <2>3, <2>4, <2>5
          DEF TradePool, TInv, TypeOK, Routed, Resolving, positions, wallet
<1>2. CASE TradePosition
  <2>1. trade.holder \in Holders
    BY <1>0 DEF TypeOK
  <2>2. stake' \in [Holders -> Nat]
    BY <1>0, <1>2, <2>1 DEF TradePosition, TypeOK
  <2>3. trade' \in [pc: {"idle", "position"}, holder: Holders]
    BY <1>0, <1>2 DEF TradePosition, TypeOK
  <2> QED BY <1>0, <1>2, <2>2, <2>3
          DEF TradePosition, TInv, TypeOK, Routed, Resolving, wallet
<1>3. CASE FindWinners
  <2>1. con' \in Consumer /\ Resolving
    BY <1>0, <1>3, FindWinnersTurns DEF Turns, FindWinners
  <2> QED BY <1>0, <1>3, <2>1
          DEF FindWinners, Stay, TInv, TypeOK, Routed, Resolving, positions, wallet, market
<1>4. CASE ReadPool
  <2>1. con' \in Consumer /\ Resolving
    BY <1>4, ReadPoolTurns DEF Turns, Resolving
  <2> QED BY <1>0, <1>4, <2>1
          DEF ReadPool, Stay, TInv, TypeOK, Routed, Resolving, positions, wallet, market
<1>5. CASE RecordSettlement
  <2>1. PICK h \in con.todo :
           /\ record' = IF record[h] = None THEN [record EXCEPT ![h] = PayoutOf(h)]
                                            ELSE record
           /\ Turns("mark", con.todo \ {h}, con.shares, con.den, h, con.out)
    BY <1>0, <1>5, RecordTurns
  <2>2. con' \in Consumer /\ Resolving /\ PayoutOf(h) \in Nat
    BY <1>0, <1>5, <2>1, ConFacts, PayoutType DEF Turns, Routed, RecordSettlement
  <2>3. record' \in [Holders -> Money]
    BY <1>0, <2>1, <2>2 DEF TypeOK, Money
  <2> QED BY <1>0, <1>5, <2>2, <2>3
          DEF RecordSettlement, Stay, TInv, TypeOK, Routed, Resolving, positions, wallet,
              market
<1>6. CASE MarkWinner
  <2>1. con' \in Consumer /\ Resolving
    BY <1>0, <1>6, MarkTurns DEF Turns, Routed, MarkWinner
  <2>2. con.current \in Holders /\ PayoutOf(con.current) \in Nat
    BY <1>0, ConFacts, PayoutType
  <2>3. settled' \in [Holders -> BOOLEAN] /\ payout' \in [Holders -> Money]
    BY <1>0, <1>6, <2>2 DEF MarkWinner, TypeOK, Money
  <2> QED BY <1>0, <1>6, <2>1, <2>3
          DEF MarkWinner, Stay, TInv, TypeOK, Routed, Resolving, wallet, market
<1>7. CASE FindLosers
  <2>1. con' \in Consumer /\ Resolving
    BY <1>0, <1>7, FindLosersTurns DEF Turns, Routed, FindLosers
  <2> QED BY <1>0, <1>7, <2>1
          DEF FindLosers, Stay, TInv, TypeOK, Routed, Resolving, positions, wallet, market
<1>8. CASE CloseLosers
  <2>1. con' \in Consumer /\ Resolving
    BY <1>0, <1>8, CloseLosersTurns DEF Turns, CloseLosers
  <2>2. settled' \in [Holders -> BOOLEAN] /\ payout' \in [Holders -> Money]
    BY <1>0, <1>8, CloseType DEF CloseLosers
  <2> QED BY <1>0, <1>8, <2>1, <2>2
          DEF CloseLosers, Stay, TInv, TypeOK, Routed, Resolving, wallet, market
<1>9. CASE PublishSettlements
  <2>1. con' \in Consumer /\ Resolving
    BY <1>0, <1>9, Finishes DEF Turns, PublishSettlements
  <2>2. fanout' \subseteq Payouts
    BY <1>0, <1>9, ConFacts DEF PublishSettlements, TypeOK
  <2> QED BY <1>0, <1>9, <2>1, <2>2
          DEF PublishSettlements, Stay, TInv, TypeOK, Routed, Resolving, positions, wallet,
              market
<1>10. CASE FindRefundable
  <2>1. con' \in Consumer /\ con'.pc = "close"
    BY <1>0, <1>10, FindRefundableTurns DEF Turns
  <2> QED BY <1>0, <1>10, <2>1
          DEF FindRefundable, Stay, TInv, TypeOK, Routed, Resolving, positions, wallet, market
<1>11. CASE CloseRefunded
  <2>1. con' \in Consumer /\ con'.pc = "publish"
    BY <1>0, <1>11, CloseRefundedTurns DEF Turns
  <2>2. settled' \in [Holders -> BOOLEAN] /\ payout' \in [Holders -> Money]
    BY <1>0, <1>11, CloseType DEF CloseRefunded
  <2> QED BY <1>0, <1>11, <2>1, <2>2
          DEF CloseRefunded, Stay, TInv, TypeOK, Routed, Resolving, wallet, market
<1>12. CASE PublishRefund
  <2>1. con' \in Consumer /\ con'.pc \in {"publish", "done"}
    BY <1>0, <1>12, PublishRefundTurns DEF Turns
  <2>2. refunds' \in Seq(Refunds)
    <3>1. CASE UNCHANGED refunds
      BY <1>0, <3>1 DEF TypeOK
    <3>2. ASSUME NEW h \in con.todo,
                 refunds' = Append(refunds, [holder |-> h, amount |-> con.shares[h]])
          PROVE  refunds' \in Seq(Refunds)
      <4>1. h \in Holders /\ con.shares[h] \in Nat
        BY <1>0, ConFacts
      <4> QED BY <1>0, <3>2, <4>1, RefundsType
    <3> QED BY <1>0, <1>12, <3>1, <3>2, PublishRefundTurns
  <2> QED BY <1>0, <1>12, <2>1, <2>2
          DEF PublishRefund, Stay, TInv, TypeOK, Routed, Resolving, positions, wallet, market
<1>13. CASE Throw
  <2>1. con' \in Consumer /\ con'.pc = "done"
    BY <1>0, <1>13, Finishes DEF Turns, Throw
  <2> QED BY <1>0, <1>13, <2>1
          DEF Throw, Stay, TInv, TypeOK, Routed, Resolving, positions, wallet, market
<1>14. CASE Crash
  <2>1. con' \in Consumer /\ con'.pc = "find"
    BY <1>0, <1>14, CrashTurns DEF Turns
  <2> QED BY <1>0, <1>14, <2>1
          DEF Crash, Stay, TInv, TypeOK, Routed, Resolving, positions, wallet, market
<1>15. CASE PayWinner
  <2>1. PICK m \in fanout : /\ paid' = IF paid[m.holder] = None
                                       THEN [paid EXCEPT ![m.holder] = m.amount] ELSE paid
                            /\ fanout' = fanout \ {m}
    BY <1>15 DEF PayWinner
  <2>2. m.holder \in Holders /\ m.amount \in Nat
    BY <1>0 DEF TypeOK, Payouts
  <2>3. paid' \in [Holders -> Money] /\ fanout' \subseteq Payouts
    BY <1>0, <2>1, <2>2 DEF TypeOK, Money
  <2> QED BY <1>0, <1>15, <2>3
          DEF PayWinner, Stay, TInv, TypeOK, Routed, Resolving, positions, market
<1>16. CASE CreditRefund
  <2>1. refunds \in Seq(Refunds) /\ refunds # << >>
    BY <1>0, <1>16 DEF CreditRefund, TypeOK
  <2>2. Head(refunds) \in Refunds /\ Tail(refunds) \in Seq(Refunds)
    BY <2>1
  <2> DEFINE m == Head(refunds)
             r == refunded[m.holder]
             x == [times |-> r.times + 1, sum |-> r.sum + m.amount]
  <2>3. m.holder \in Holders /\ m.amount \in Nat /\ r.times \in Nat /\ r.sum \in Nat
    BY <1>0, <2>2 DEF Refunds, TypeOK
  <2>4. x \in [times: Nat, sum: Nat]
    BY <2>3
  <2>5. refunded' = [refunded EXCEPT ![m.holder] = x]
    BY <1>16 DEF CreditRefund
  <2> HIDE DEF x
  <2>6. refunded' \in [Holders -> [times: Nat, sum: Nat]]
    BY <1>0, <2>3, <2>4, <2>5 DEF TypeOK
  <2>7. refunds' \in Seq(Refunds)
    BY <1>16, <2>2 DEF CreditRefund
  <2> QED BY <1>0, <1>16, <2>6, <2>7
          DEF CreditRefund, Stay, TInv, TypeOK, Routed, Resolving, positions, market
<1>17. CASE UNCHANGED vars
  BY <1>0, <1>17
     DEF vars, TInv, TypeOK, Routed, Resolving, positions, market, wallet
<1> QED BY <1>1, <1>2, <1>3, <1>4, <1>5, <1>6, <1>7, <1>8, <1>9, <1>10, <1>11, <1>12,
           <1>13, <1>14, <1>15, <1>16, <1>17 DEF Next, Settle

(* Every state that settlements and refunds reach is well typed. *)
THEOREM TypeCorrect == Spec => []TypeOK
<1>1. TInv => TypeOK
  BY DEF TInv
<1> QED BY <1>1, InitTInv, NextTInv, PTL DEF Spec

-----------------------------------------------------------------------------
(* Payouts.  What a handler pays is a share of the pot at the price of the *)
(* pool it read.  The pool is read after the positions and written before  *)
(* them, so however many trades come in late, the shares that are paid are *)
(* no more than those that the price was made for.  A handler that starts  *)
(* again after a crash reads again; what was paid is then the same only    *)
(* because no trade comes in late.                                         *)

CrashOrLate == \A F \in FaultModels : ~({"crash", "late"} \subseteq F)

Paying == {"record", "mark", "losers", "close", "publish"}

SharesOn(s) == SumFunctionOnSet(s, Of(verdict))

(* A late trade grows the pool before the position. *)
PoolAhead ==
  /\ \A o \in Outcomes :
       SumFunctionOnSet(stake, Of(o))
         + (IF trade.pc = "position" /\ trade.holder[2] = o THEN 1 ELSE 0) <= pool[o]
  /\ "late" \notin faults => trade.pc = "idle"

(* What the handler has read is still good for what it pays. *)
GoodRead ==
  /\ \A h \in Holders : con.shares[h] <= stake[h]
  /\ \A h \in con.todo : stake[h] > 0
  /\ Resolving /\ con.pc \in {"pool", "record", "mark"} => con.todo \subseteq Of(verdict)
  /\ Resolving /\ con.pc \in Paying => SharesOn(con.shares) <= con.den
  /\ "late" \notin faults /\ con.pc \in Paying \cup {"pool"} => con.shares = stake
  /\ "late" \notin faults /\ Resolving /\ con.pc \in Paying => con.den = pool[verdict]
  /\ con.pc = "mark" => record[con.current] # None

(* What is due to a holder, by what the handler read or, when no trade     *)
(* comes late and so nothing it read can have changed, by the tables.      *)
Shares == IF "late" \in faults THEN con.shares ELSE stake
Den    == IF "late" \in faults THEN con.den ELSE pool[verdict]
DueOf(s, d, h) == IF d = 0 THEN 0 ELSE s[h] * (Pot \div d)

(* A settlement row, a position, a message and a payout of one holder. *)
RecordIsDue(r, s, d) ==
  \A h \in Holders : r[h] # None => h[2] = verdict /\ stake[h] > 0 /\ r[h] = DueOf(s, d, h)

RecordsAgree ==
  /\ RecordIsDue(record, Shares, Den)
  /\ "late" \in faults /\ (\E h \in Holders : record[h] # None) =>
       /\ con.pc \notin {"find", "pool"}
       /\ SharesOn(con.shares) <= con.den
  /\ \A h \in Holders : payout[h] # None => settled[h]
  /\ \A h \in Holders : payout[h] \notin {None, 0} => payout[h] = record[h]
  /\ \A m \in con.out \cup fanout : m.amount # 0 => payout[m.holder] = m.amount
  /\ \A h \in Holders : paid[h] \notin {None, 0} => payout[h] = paid[h]

PayInv ==
  /\ TInv
  /\ ~({"crash", "late"} \subseteq faults)
  /\ PoolAhead /\ GoodRead /\ RecordsAgree

LEMMA Facts ==
  ASSUME TypeOK
  PROVE  /\ stake \in [Holders -> Nat] /\ settled \in [Holders -> BOOLEAN]
         /\ payout \in [Holders -> Money] /\ record \in [Holders -> Money]
         /\ paid \in [Holders -> Money] /\ pool \in [Outcomes -> Nat]
         /\ fanout \in SUBSET Payouts
BY DEF TypeOK

LEMMA InitPayInv == Init /\ CrashOrLate => PayInv
<1> SUFFICES ASSUME Init, CrashOrLate PROVE PayInv
  OBVIOUS
<1>1. TInv /\ TypeOK
  BY InitTInv DEF TInv
<1>2. ~({"crash", "late"} \subseteq faults)
  BY DEF Init, CrashOrLate
<1>3. PoolAhead
  <2>1. \A o \in Outcomes : /\ pool[o] = SumFunctionOnSet(stake, Of(o)) /\ pool[o] \in Nat
                            /\ trade.pc = "idle"
    BY <1>1 DEF Init, TypeOK
  <2>2. trade.pc = "idle"
    BY DEF Init
  <2> QED BY <2>1, <2>2 DEF PoolAhead
<1>4. con.pc = "find" /\ con.todo = {} /\ con.out = {} /\ con.shares = [h \in Holders |-> 0]
  BY DEF Init, Waiting
<1>5. GoodRead
  <2>1. \A h \in Holders : con.shares[h] <= stake[h]
    BY <1>1, <1>4, Facts
  <2> QED BY <1>4, <2>1 DEF GoodRead, Paying
<1>6. RecordsAgree
  BY <1>4 DEF Init, RecordsAgree, RecordIsDue, None
<1> QED BY <1>1, <1>2, <1>3, <1>5, <1>6 DEF PayInv

(* The price that the handler pays at is the one that is due. *)
LEMMA PaysDue ==
  ASSUME PayInv, con.pc \in {"record", "mark"}, NEW h \in Holders
  PROVE  /\ Resolving /\ PayoutOf(h) = DueOf(Shares, Den, h)
         /\ PayoutOf(h) \in Nat
<1>1. Resolving
  BY DEF PayInv, TInv, Routed
<1>2. PayoutOf(h) \in Nat
  BY PayoutType DEF PayInv, TInv
<1>3. "late" \notin faults => con.shares = stake /\ con.den = pool[verdict]
  BY <1>1 DEF PayInv, GoodRead, Paying
<1> QED BY <1>1, <1>2, <1>3 DEF PayoutOf, DueOf, Shares, Den

(* Nothing that was read and nothing that is due changes. *)
Settled == UNCHANGED <<faults, verdict, stake, pool, trade, lates>>

LEMMA KeepsAhead == PoolAhead /\ Settled => PoolAhead'
BY DEF PoolAhead, Settled

LEMMA NoRecords ==
  ASSUME PayInv, "late" \in faults, con.pc \in {"find", "pool"}
  PROVE  \A h \in Holders : record[h] = None
BY DEF PayInv, RecordsAgree

LEMMA DueStays ==
  ASSUME PayInv, UNCHANGED <<faults, verdict, stake, pool, record>>,
         \/ "late" \notin faults
         \/ con'.shares = con.shares /\ con'.den = con.den
         \/ \A h \in Holders : record[h] = None
  PROVE  RecordIsDue(record, Shares, Den)'
<1>1. RecordIsDue(record, Shares, Den)
  BY DEF PayInv, RecordsAgree
<1> QED BY <1>1 DEF RecordIsDue, Shares, Den, DueOf

(* Steps that leave the tables, the messages and the wallet alone. *)
Tables == UNCHANGED <<faults, verdict, positions, record, fanout, paid>>

LEMMA AgreeStays ==
  ASSUME PayInv, Tables, RecordIsDue(record, Shares, Den)', con'.out \in SUBSET con.out,
         "late" \in faults => \/ \A h \in Holders : record[h] = None
                              \/ /\ con'.pc \notin {"find", "pool"}
                                 /\ con'.shares = con.shares /\ con'.den = con.den
  PROVE  RecordsAgree'
<1>1. RecordsAgree
  BY DEF PayInv
<1>2. ("late" \in faults /\ (\E h \in Holders : record[h] # None) =>
       /\ con.pc \notin {"find", "pool"}
       /\ SharesOn(con.shares) <= con.den)'
  BY <1>1 DEF RecordsAgree, Tables, SharesOn, Of
<1>3. (\A m \in con.out \cup fanout : m.amount # 0 => payout[m.holder] = m.amount)'
  BY <1>1 DEF RecordsAgree, Tables, positions
<1> QED BY <1>1, <1>2, <1>3 DEF RecordsAgree, Tables, positions

LEMMA LateAhead ==
  ASSUME PayInv, TradePool
  PROVE  PoolAhead'
<1>1. PICK g \in Holders : /\ pool' = [pool EXCEPT ![g[2]] = @ + 1]
                           /\ trade' = [pc |-> "position", holder |-> g]
                           /\ trade.pc = "idle" /\ "late" \in faults
                           /\ UNCHANGED <<faults, stake>>
  BY DEF TradePool, positions
<1>2. pool \in [Outcomes -> Nat] /\ stake \in [Holders -> Nat]
  BY DEF PayInv, TInv, TypeOK
<1>3. ASSUME NEW o \in Outcomes
      PROVE  SumFunctionOnSet(stake, Of(o))
               + (IF trade'.pc = "position" /\ trade'.holder[2] = o THEN 1 ELSE 0) <= pool'[o]
  <2>1. SumFunctionOnSet(stake, Of(o)) \in Nat /\ pool[o] \in Nat
    BY <1>2, StakeSums
  <2>2. SumFunctionOnSet(stake, Of(o)) <= pool[o]
    BY <1>1, <2>1 DEF PayInv, PoolAhead
  <2>3. pool'[o] = IF g[2] = o THEN pool[o] + 1 ELSE pool[o]
    BY <1>1, <1>2
  <2>4. trade'.pc = "position" /\ trade'.holder = g
    BY <1>1
  <2> QED BY <2>1, <2>2, <2>3, <2>4
<1>4. ("late" \notin faults => trade.pc = "idle")'
  BY <1>1
<1> QED BY <1>1, <1>3, <1>4 DEF PoolAhead, Of

LEMMA TradePoolPays ==
  ASSUME PayInv, TradePool, TInv'
  PROVE  PayInv'
<1>1. PoolAhead'
  BY LateAhead
<1>3. "late" \in faults /\ Tables /\ UNCHANGED <<con, stake, faults, verdict>>
  BY DEF TradePool, Tables, positions, wallet
<1>4. GoodRead'
  BY <1>3 DEF PayInv, GoodRead, Tables, SharesOn, Of, Resolving, positions
<1>5. RecordIsDue(record, Shares, Den)'
  BY <1>3 DEF PayInv, RecordsAgree, RecordIsDue, Shares, Den, DueOf, Tables, positions
<1>6. RecordsAgree'
  <2>1. \/ \A h \in Holders : record[h] = None
        \/ con'.pc \notin {"find", "pool"}
    BY <1>3 DEF PayInv, RecordsAgree
  <2> QED BY <1>3, <1>5, <2>1, AgreeStays
<1> QED BY <1>1, <1>3, <1>4, <1>6 DEF PayInv

LEMMA TradePositionPays ==
  ASSUME PayInv, TradePosition, TInv'
  PROVE  PayInv'
<1> DEFINE g == trade.holder
<1>1. /\ stake \in [Holders -> Nat] /\ g \in Holders /\ pool \in [Outcomes -> Nat]
      /\ trade.pc = "position" /\ "late" \in faults
      /\ stake' = [stake EXCEPT ![g] = @ + 1]
      /\ UNCHANGED <<faults, verdict, settled, payout, pool, record, con, fanout, paid>>
  BY DEF PayInv, TInv, TypeOK, TradePosition, PoolAhead, wallet
<1>2. trade'.pc = "idle"
  BY DEF PayInv, TInv, TypeOK, TradePosition
<1>3. /\ \A h \in Holders : stake[h] \in Nat /\ stake'[h] \in Nat /\ stake[h] <= stake'[h]
  BY <1>1
<1>4. PoolAhead'
  <2>1. ASSUME NEW o \in Outcomes
        PROVE  SumFunctionOnSet(stake', Of(o)) <= pool[o]
    <3>1. SumFunctionOnSet(stake', Of(o))
            = SumFunctionOnSet(stake, Of(o)) + (IF g[2] = o THEN 1 ELSE 0)
      BY <1>1, StakeGrows
    <3>2. SumFunctionOnSet(stake, Of(o)) + (IF g[2] = o THEN 1 ELSE 0) <= pool[o]
      BY <1>1 DEF PayInv, PoolAhead
    <3> QED BY <3>1, <3>2
  <2>2. ASSUME NEW o \in Outcomes
        PROVE  SumFunctionOnSet(stake', Of(o)) \in Nat /\ pool[o] \in Nat
    BY <1>1, <1>3, StakeSums
  <2>3. ASSUME NEW o \in Outcomes
        PROVE  SumFunctionOnSet(stake', Of(o))
                 + (IF trade'.pc = "position" /\ trade'.holder[2] = o THEN 1 ELSE 0) <= pool'[o]
    <3>1. (IF trade'.pc = "position" /\ trade'.holder[2] = o THEN 1 ELSE 0) = 0
      BY <1>2
    <3>2. PICK n \in Nat : n = SumFunctionOnSet(stake', Of(o))
      BY <2>2
    <3>3. pool'[o] = pool[o] /\ n <= pool[o]
      BY <1>1, <2>1, <3>2
    <3>4. n + 0 = n
      BY <3>2
    <3> QED BY <3>1, <3>2, <3>3, <3>4
  <2> QED BY <1>1, <1>2, <2>3 DEF PoolAhead, Of
<1>5. GoodRead'
  <2>0. con \in Consumer
    BY ConFacts DEF PayInv, TInv
  <2>1. \A h \in Holders : con.shares[h] <= stake'[h]
    <3>1. \A h \in Holders : con.shares[h] \in Nat
      BY <2>0 DEF Consumer
    <3>2. \A h \in Holders : con.shares[h] <= stake[h]
      BY DEF PayInv, GoodRead
    <3> QED BY <1>3, <3>1, <3>2
  <2>2. \A h \in con.todo : stake'[h] > 0
    <3>1. \A h \in con.todo : h \in Holders /\ stake[h] > 0
      BY <2>0 DEF PayInv, GoodRead, Consumer
    <3> QED BY <1>3, <3>1
  <2> QED BY <1>1, <2>1, <2>2 DEF PayInv, GoodRead, SharesOn, Of, Resolving
<1>6. RecordsAgree'
  <2>1. RecordsAgree
    BY DEF PayInv
  <2>2. RecordIsDue(record, Shares, Den)'
    <3>1. RecordIsDue(record, con.shares, con.den)
      BY <1>1, <2>1 DEF RecordsAgree, Shares, Den
    <3>2. \A h \in Holders : stake[h] > 0 => stake'[h] > 0
      BY <1>3
    <3> QED BY <1>1, <3>1, <3>2 DEF RecordIsDue, DueOf, Shares, Den
  <2> QED BY <1>1, <2>1, <2>2 DEF RecordsAgree, SharesOn, Of
<1> QED BY <1>1, <1>4, <1>5, <1>6 DEF PayInv

(* A step of the handler that only turns over its own state. *)
LEMMA TradesApart ==
  ASSUME PayInv, Settled
  PROVE  PoolAhead'
BY KeepsAhead DEF PayInv

LEMMA FindWinnersPays ==
  ASSUME PayInv, FindWinners, TInv'
  PROVE  PayInv'
<1> DEFINE W == Open(Of(verdict))
<1>1. Settled /\ Tables /\ Resolving /\ con.pc = "find"
  BY DEF FindWinners, Stay, Settled, Tables, positions, market, wallet
<1>2. \/ Turns("done", con.todo, con.shares, con.den, con.current, con.out)
      \/ Turns("pool", W, stake, con.den, con.current, con.out)
  BY FindWinnersTurns DEF PayInv, TInv
<1>3. stake \in [Holders -> Nat] /\ W \subseteq Of(verdict) /\ \A h \in W : stake[h] > 0
  BY Facts DEF PayInv, TInv, Open
<1> HIDE DEF W
<1>4. GoodRead'
  <2>1. CASE Turns("done", con.todo, con.shares, con.den, con.current, con.out)
    BY <1>1, <2>1 DEF PayInv, GoodRead, Turns, Settled, Resolving, Paying
  <2>2. CASE Turns("pool", W, stake, con.den, con.current, con.out)
    BY <1>1, <1>3, <2>2 DEF PayInv, GoodRead, Turns, Settled, Resolving, Paying, Of
  <2> QED BY <1>2, <2>1, <2>2
<1>5. "late" \in faults => \A h \in Holders : record[h] = None
  BY <1>1, NoRecords
<1>6. RecordsAgree'
  <2>1. RecordIsDue(record, Shares, Den)'
    BY <1>1, <1>5, DueStays DEF Settled, Tables
  <2>2. con'.out = con.out
    BY <1>2 DEF Turns
  <2> QED BY <1>1, <1>5, <2>1, <2>2, AgreeStays
<1> QED BY <1>1, <1>4, <1>6, TradesApart DEF PayInv, Settled

LEMMA ReadPoolPays ==
  ASSUME PayInv, ReadPool, TInv'
  PROVE  PayInv'
<1>1. Settled /\ Tables /\ Resolving /\ con.pc = "pool"
  BY DEF ReadPool, Stay, Settled, Tables, positions, market, wallet, PayInv, TInv, Routed
<1>2. /\ verdict \in Outcomes
      /\ Turns("record", con.todo, con.shares, pool[verdict], con.current, con.out)
  BY ReadPoolTurns DEF PayInv
<1>3. SharesOn(con.shares) <= pool[verdict]
  <2>1. /\ \A h \in Holders : con.shares[h] \in Nat /\ stake[h] \in Nat
        /\ \A h \in Holders : con.shares[h] <= stake[h]
        /\ pool[verdict] \in Nat
    BY <1>2, Facts, ConFacts DEF PayInv, TInv, GoodRead
  <2>2. \A h \in Of(verdict) : con.shares[h] <= stake[h]
    BY <2>1, HolderSets
  <2>3. /\ Sums(con.shares, Of(verdict)) /\ SumFunctionOnSet(con.shares, Of(verdict)) \in Nat
        /\ Sums(stake, Of(verdict)) /\ SumFunctionOnSet(stake, Of(verdict)) \in Nat
    BY <2>1, StakeSums
  <2>4. SumFunctionOnSet(con.shares, Of(verdict)) <= SumFunctionOnSet(stake, Of(verdict))
    BY <2>2, <2>3, SumBelow
  <2>5. SumFunctionOnSet(stake, Of(verdict))
         + (IF trade.pc = "position" /\ trade.holder[2] = verdict THEN 1 ELSE 0) <= pool[verdict]
    BY <1>2 DEF PayInv, PoolAhead
  <2>6. SumFunctionOnSet(stake, Of(verdict)) <= pool[verdict]
    BY <2>1, <2>3, <2>5
  <2> QED BY <2>1, <2>3, <2>4, <2>6 DEF SharesOn
<1>4. GoodRead'
  BY <1>1, <1>2, <1>3 DEF PayInv, GoodRead, Turns, Settled, Resolving, Paying, SharesOn, Of
<1>5. "late" \in faults => \A h \in Holders : record[h] = None
  BY <1>1, NoRecords
<1>6. RecordsAgree'
  <2>1. RecordIsDue(record, Shares, Den)'
    BY <1>1, <1>5, DueStays DEF Settled, Tables
  <2>2. con'.out = con.out
    BY <1>2 DEF Turns
  <2> QED BY <1>1, <1>5, <2>1, <2>2, AgreeStays
<1> QED BY <1>1, <1>4, <1>6, TradesApart DEF PayInv, Settled

LEMMA RecordPays ==
  ASSUME PayInv, RecordSettlement, TInv'
  PROVE  PayInv'
<1>1. /\ Settled /\ Resolving /\ con.pc = "record"
      /\ UNCHANGED <<faults, verdict, stake, settled, payout, fanout, paid>>
  BY DEF RecordSettlement, Stay, Settled, positions, market, wallet, PayInv, TInv, Routed
<1>2. PICK g \in con.todo :
         /\ record' = IF record[g] = None THEN [record EXCEPT ![g] = PayoutOf(g)]
                                          ELSE record
         /\ Turns("mark", con.todo \ {g}, con.shares, con.den, g, con.out)
  BY RecordTurns DEF PayInv, TInv
<1>3. /\ g \in Holders /\ g[2] = verdict /\ stake[g] > 0
      /\ record \in [Holders -> Money] /\ con.todo \in SUBSET Holders
  BY <1>1, Facts, ConFacts DEF PayInv, TInv, GoodRead, Of
<1>4. PayoutOf(g) = DueOf(Shares, Den, g) /\ PayoutOf(g) \in Nat
  BY <1>1, <1>3, PaysDue
<1>5. /\ record'[g] # None
      /\ \A h \in Holders : record[h] # None => record'[h] = record[h]
      /\ \A h \in Holders : record[h] = None => record'[h] = (IF h = g THEN PayoutOf(g) ELSE None)
  BY <1>2, <1>3, <1>4 DEF None
<1>6. GoodRead'
  BY <1>1, <1>2, <1>5 DEF PayInv, GoodRead, Turns, Settled, Resolving, Paying, SharesOn, Of
<1>7. RecordsAgree
  BY DEF PayInv
<1>8. RecordIsDue(record', Shares, Den)
  <2>1. RecordIsDue(record, Shares, Den)
    BY <1>7 DEF RecordsAgree
  <2> QED BY <1>3, <1>4, <1>5, <2>1 DEF RecordIsDue
<1>9. RecordIsDue(record, Shares, Den)'
  BY <1>1, <1>2, <1>8 DEF RecordIsDue, DueOf, Shares, Den, Settled, Turns
<1>10. RecordsAgree'
  <2>1. (\A h \in Holders : payout[h] \notin {None, 0} => payout[h] = record[h])'
    BY <1>1, <1>5, <1>7 DEF RecordsAgree
  <2>2. SharesOn(con.shares) <= con.den
    BY <1>1 DEF PayInv, GoodRead, Paying
  <2> QED BY <1>1, <1>2, <1>7, <1>9, <2>1, <2>2 DEF RecordsAgree, Turns, SharesOn, Of
<1> QED BY <1>1, <1>6, <1>10, TradesApart DEF PayInv, Settled

LEMMA MarkPays ==
  ASSUME PayInv, MarkWinner, TInv'
  PROVE  PayInv'
<1> DEFINE g == con.current
           p == PayoutOf(g)
<1>1. /\ Settled /\ Resolving /\ con.pc = "mark"
      /\ settled' = [settled EXCEPT ![g] = TRUE]
      /\ payout' = [payout EXCEPT ![g] = p]
      /\ UNCHANGED <<faults, verdict, stake, record, fanout, paid>>
  BY DEF MarkWinner, Stay, Settled, positions, market, wallet, PayInv, TInv, Routed
<1>2. Turns(IF con.todo = {} THEN "losers" ELSE "record", con.todo, con.shares, con.den, g,
            con.out \cup {[holder |-> g, amount |-> p]})
  BY MarkTurns DEF PayInv, TInv
<1>3. PICK q \in {"losers", "record"} :
        Turns(q, con.todo, con.shares, con.den, g, con.out \cup {[holder |-> g, amount |-> p]})
  BY <1>2
<1>4. /\ g \in Holders /\ payout \in [Holders -> Money] /\ settled \in [Holders -> BOOLEAN]
      /\ con.out \in SUBSET Payouts /\ fanout \in SUBSET Payouts
  BY Facts, ConFacts DEF PayInv, TInv
<1>5. p = DueOf(Shares, Den, g) /\ p \in Nat
  BY <1>1, <1>4, PaysDue
<1>6. RecordsAgree
  BY DEF PayInv
<1>7. record[g] = p
  <2>1. record[g] # None
    BY <1>1 DEF PayInv, GoodRead
  <2> QED BY <1>4, <1>5, <1>6, <2>1 DEF RecordsAgree, RecordIsDue
<1>8. payout[g] \in {None, 0, p}
  BY <1>4, <1>6, <1>7 DEF RecordsAgree
<1> HIDE DEF p
<1>9. GoodRead'
  BY <1>1, <1>3 DEF PayInv, GoodRead, Turns, Settled, Resolving, Paying, SharesOn, Of
<1>10. RecordsAgree'
  <2>1. RecordIsDue(record, Shares, Den)'
    BY <1>1, <1>3, DueStays DEF Turns, Settled
  <2>2. /\ \A h \in Holders : payout'[h] = (IF h = g THEN p ELSE payout[h])
        /\ \A h \in Holders : settled'[h] = (IF h = g THEN TRUE ELSE settled[h])
    BY <1>1, <1>4
  <2>3. (\A h \in Holders : payout[h] # None => settled[h])'
    BY <1>6, <2>2 DEF RecordsAgree
  <2>4. (\A h \in Holders : payout[h] \notin {None, 0} => payout[h] = record[h])'
    BY <1>1, <1>6, <1>7, <2>2 DEF RecordsAgree
  <2>5. \A h \in Holders : \A a \in Nat \ {0} : payout[h] = a => payout'[h] = a
    BY <1>8, <2>2 DEF None
  <2>6. (\A m \in con.out \cup fanout : m.amount # 0 => payout[m.holder] = m.amount)'
    <3>1. \A m \in con.out \cup fanout : m.holder \in Holders /\ m.amount \in Nat
      BY <1>4 DEF Payouts
    <3>2. \A m \in con.out \cup fanout : m.amount # 0 => payout'[m.holder] = m.amount
      BY <1>6, <2>5, <3>1 DEF RecordsAgree
    <3> DEFINE n == [holder |-> g, amount |-> p]
    <3>3. payout'[n.holder] = n.amount
      BY <1>4, <2>2
    <3>4. con'.out = con.out \cup {n} /\ fanout' = fanout
      BY <1>1, <1>3 DEF Turns
    <3> HIDE DEF n
    <3> QED BY <3>2, <3>3, <3>4
  <2>7. (\A h \in Holders : paid[h] \notin {None, 0} => payout[h] = paid[h])'
    <3>1. paid \in [Holders -> Money]
      BY Facts DEF PayInv, TInv
    <3>2. \A h \in Holders : paid[h] \notin {None, 0} => paid[h] \in Nat \ {0}
      BY <3>1 DEF Money
    <3> QED BY <1>1, <1>6, <2>5, <3>2 DEF RecordsAgree
  <2>8. ("late" \in faults /\ (\E h \in Holders : record[h] # None) =>
       /\ con.pc \notin {"find", "pool"}
       /\ SharesOn(con.shares) <= con.den)'
    BY <1>1, <1>3, <1>6 DEF RecordsAgree, Turns, SharesOn, Of
  <2> QED BY <2>1, <2>3, <2>4, <2>6, <2>7, <2>8 DEF RecordsAgree
<1> QED BY <1>1, <1>9, <1>10, TradesApart DEF PayInv, Settled

(* Closing positions touches no position that something was paid on. *)
LEMMA CloseAgrees ==
  ASSUME PayInv, NEW H \in SUBSET Holders, Close(H),
         UNCHANGED <<faults, verdict, stake, pool, record, fanout, paid>>,
         con'.pc \notin {"find", "pool"}, con'.shares = con.shares, con'.den = con.den,
         \A m \in con'.out : m \in con.out \/ m.amount = 0
  PROVE  RecordsAgree'
<1>1. /\ payout \in [Holders -> Money] /\ settled \in [Holders -> BOOLEAN]
      /\ paid \in [Holders -> Money]
      /\ con.out \in SUBSET Payouts /\ fanout \in SUBSET Payouts
  BY Facts, ConFacts DEF PayInv, TInv
<1>2. RecordsAgree
  BY DEF PayInv
<1>3. RecordIsDue(record, Shares, Den)'
  BY DueStays
<1>4. (\A h \in Holders : payout[h] # None => settled[h])'
  <2>1. ASSUME NEW h \in Holders, payout'[h] # None
        PROVE  settled'[h]
    <3>1. CASE h \in Open(H)
      BY <3>1 DEF Close
    <3>2. CASE h \notin Open(H)
      BY <1>2, <2>1, <3>2 DEF Close, RecordsAgree
    <3> QED BY <3>1, <3>2
  <2> QED BY <2>1
<1>5. \A h \in Holders : \A a \in Nat \ {0} : payout[h] = a <=> payout'[h] = a
  <2>1. ASSUME NEW h \in Holders, NEW a \in Nat \ {0}
        PROVE  payout[h] = a <=> payout'[h] = a
    <3>1. CASE h \in Open(H)
      <4>1. payout'[h] = 0 /\ ~settled[h]
        BY <3>1 DEF Close, Open
      <4>2. payout[h] = None
        BY <1>2, <4>1 DEF RecordsAgree
      <4> QED BY <4>1, <4>2 DEF None
    <3>2. CASE h \notin Open(H)
      BY <3>2 DEF Close
    <3> QED BY <3>1, <3>2
  <2> QED BY <2>1
<1>6. payout' \in [Holders -> Money]
  BY <1>1 DEF Close, Money
<1>7. (\A h \in Holders : payout[h] \notin {None, 0} => payout[h] = record[h])'
  <2>1. \A h \in Holders : payout'[h] \notin {None, 0} => payout'[h] \in Nat \ {0}
    BY <1>6 DEF Money
  <2>2. \A h \in Holders : payout'[h] \notin {None, 0} =>
          payout[h] = payout'[h] /\ payout[h] \notin {None, 0}
    BY <1>5, <2>1
  <2> QED BY <1>2, <2>2 DEF RecordsAgree
<1>8. (\A m \in con.out \cup fanout : m.amount # 0 => payout[m.holder] = m.amount)'
  <2>1. \A m \in con.out \cup fanout : m.holder \in Holders /\ m.amount \in Nat
    BY <1>1 DEF Payouts
  <2>2. \A m \in con.out \cup fanout : m.amount # 0 => payout'[m.holder] = m.amount
    BY <1>2, <1>5, <2>1 DEF RecordsAgree
  <2>3. \A m \in con'.out \cup fanout' : m \in con.out \cup fanout \/ m.amount = 0
    OBVIOUS
  <2> QED BY <2>2, <2>3
<1>9. (\A h \in Holders : paid[h] \notin {None, 0} => payout[h] = paid[h])'
  <2>1. \A h \in Holders : paid[h] \notin {None, 0} => paid[h] \in Nat \ {0}
    BY <1>1 DEF Money
  <2> QED BY <1>2, <1>5, <2>1 DEF RecordsAgree
<1>10. ("late" \in faults /\ (\E h \in Holders : record[h] # None) =>
       /\ con.pc \notin {"find", "pool"}
       /\ SharesOn(con.shares) <= con.den)'
  BY <1>2 DEF RecordsAgree, SharesOn, Of
<1> QED BY <1>3, <1>4, <1>7, <1>8, <1>9, <1>10 DEF RecordsAgree

LEMMA FindLosersPays ==
  ASSUME PayInv, FindLosers, TInv'
  PROVE  PayInv'
<1>1. Settled /\ Tables /\ Resolving /\ con.pc = "losers"
  BY DEF FindLosers, Stay, Settled, Tables, positions, market, wallet, PayInv, TInv, Routed
<1>2. Turns("close", Open(Of(Losing)), con.shares, con.den, con.current, con.out)
  BY FindLosersTurns DEF PayInv, TInv
<1>3. \A h \in Open(Of(Losing)) : stake[h] > 0
  BY DEF Open
<1>4. GoodRead'
  BY <1>1, <1>2, <1>3 DEF PayInv, GoodRead, Turns, Settled, Resolving, Paying, SharesOn, Of
<1>5. RecordsAgree'
  <2>1. RecordIsDue(record, Shares, Den)'
    BY <1>1, <1>2, DueStays DEF Settled, Tables, Turns
  <2> QED BY <1>1, <1>2, <2>1, AgreeStays DEF Turns
<1> QED BY <1>1, <1>4, <1>5, TradesApart DEF PayInv, Settled

LEMMA CloseLosersPays ==
  ASSUME PayInv, CloseLosers, TInv'
  PROVE  PayInv'
<1>1. /\ Settled /\ Resolving /\ con.pc = "close" /\ Close(Of(Losing))
      /\ UNCHANGED <<faults, verdict, stake, pool, record, fanout, paid>>
  BY DEF CloseLosers, Stay, Settled, market, wallet
<1>2. Turns("publish", con.todo, con.shares, con.den, con.current,
            con.out \cup {[holder |-> h, amount |-> 0] : h \in con.todo})
  BY CloseLosersTurns DEF PayInv, TInv
<1>3. GoodRead'
  BY <1>1, <1>2 DEF PayInv, GoodRead, Turns, Settled, Resolving, Paying, SharesOn, Of
<1>4. RecordsAgree'
  <2>1. \A m \in con'.out : m \in con.out \/ m.amount = 0
    BY <1>2 DEF Turns
  <2>2. PICK H \in SUBSET Holders : H = Of(Losing)
    BY HolderSets
  <2> QED BY <1>1, <1>2, <2>1, <2>2, CloseAgrees DEF Turns
<1> QED BY <1>1, <1>3, <1>4, TradesApart DEF PayInv, Settled

LEMMA PublishSettlementsPays ==
  ASSUME PayInv, PublishSettlements, TInv'
  PROVE  PayInv'
<1>1. /\ Settled /\ Resolving /\ con.pc = "publish"
      /\ UNCHANGED <<faults, verdict, stake, settled, payout, pool, record, paid>>
      /\ fanout' \in {fanout \cup con.out, fanout}
  BY DEF PublishSettlements, Stay, Settled, market, wallet, positions
<1>2. Turns("done", con.todo, con.shares, con.den, con.current, con.out)
  BY Finishes DEF PublishSettlements, PayInv, TInv
<1>3. GoodRead'
  BY <1>1, <1>2 DEF PayInv, GoodRead, Turns, Settled, Resolving, Paying, SharesOn, Of
<1>4. RecordsAgree'
  <2>1. RecordIsDue(record, Shares, Den)'
    BY <1>1, <1>2, DueStays DEF Turns
  <2>2. RecordsAgree
    BY DEF PayInv
  <2>3. (\A m \in con.out \cup fanout : m.amount # 0 => payout[m.holder] = m.amount)'
    BY <1>1, <1>2, <2>2 DEF RecordsAgree, Turns
  <2> QED BY <1>1, <1>2, <2>1, <2>2, <2>3 DEF RecordsAgree, Turns, SharesOn, Of
<1> QED BY <1>1, <1>3, <1>4, TradesApart DEF PayInv, Settled

(* On a cancelled market there is no row of settlements. *)
LEMMA Unsettled ==
  ASSUME PayInv, ~Resolving
  PROVE  \A h \in Holders : record[h] = None
<1>1. \A h \in Holders : h[2] \in Outcomes
  BY DEF Holders
<1> QED BY <1>1 DEF PayInv, RecordsAgree, RecordIsDue, Resolving

LEMMA FindRefundablePays ==
  ASSUME PayInv, FindRefundable, TInv'
  PROVE  PayInv'
<1>1. Settled /\ Tables /\ ~Resolving
  BY DEF FindRefundable, Stay, Settled, Tables, positions, market, wallet, Resolving, Outcomes
<1>2. Turns("close", Open(Holders), stake, con.den, con.current, con.out)
  BY FindRefundableTurns DEF PayInv, TInv
<1>3. stake \in [Holders -> Nat] /\ \A h \in Open(Holders) : stake[h] > 0
  BY Facts DEF Open, PayInv, TInv
<1>4. GoodRead'
  BY <1>1, <1>2, <1>3 DEF PayInv, GoodRead, Turns, Settled, Resolving, Paying, SharesOn, Of
<1>5. \A h \in Holders : record[h] = None
  BY <1>1, Unsettled
<1>6. RecordsAgree'
  <2>1. RecordIsDue(record, Shares, Den)'
    BY <1>1, <1>5, DueStays DEF Settled, Tables
  <2> QED BY <1>1, <1>2, <1>5, <2>1, AgreeStays DEF Turns
<1> QED BY <1>1, <1>4, <1>6, TradesApart DEF PayInv, Settled

LEMMA CloseRefundedPays ==
  ASSUME PayInv, CloseRefunded, TInv'
  PROVE  PayInv'
<1>1. /\ Settled /\ ~Resolving /\ con.pc = "close" /\ Close(Holders)
      /\ UNCHANGED <<faults, verdict, stake, pool, record, fanout, paid>>
  BY DEF CloseRefunded, Stay, Settled, market, wallet, Resolving, Outcomes
<1>2. Turns("publish", con.todo, con.shares, con.den, con.current, con.out)
  BY CloseRefundedTurns DEF PayInv, TInv
<1>3. GoodRead'
  BY <1>1, <1>2 DEF PayInv, GoodRead, Turns, Settled, Resolving, Paying, SharesOn, Of
<1>4. RecordsAgree'
  BY <1>1, <1>2, CloseAgrees DEF Turns
<1> QED BY <1>1, <1>3, <1>4, TradesApart DEF PayInv, Settled

LEMMA PublishRefundPays ==
  ASSUME PayInv, PublishRefund, TInv'
  PROVE  PayInv'
<1>1. Settled /\ Tables /\ ~Resolving /\ con.pc = "publish"
  BY DEF PublishRefund, Stay, Settled, Tables, positions, market, wallet, Resolving, Outcomes
<1>2. \/ Turns("done", con.todo, con.shares, con.den, con.current, con.out)
      \/ \E h \in con.todo :
           Turns("publish", con.todo \ {h}, con.shares, con.den, con.current, con.out)
  BY PublishRefundTurns DEF PayInv, TInv
<1>3. /\ con'.pc \in {"done", "publish"} /\ con'.shares = con.shares /\ con'.den = con.den
      /\ con'.todo \subseteq con.todo /\ con'.out = con.out
  BY <1>2 DEF Turns
<1>4. GoodRead'
  BY <1>1, <1>3 DEF PayInv, GoodRead, Settled, Resolving, Paying, SharesOn, Of
<1>5. RecordsAgree'
  <2>1. RecordIsDue(record, Shares, Den)'
    BY <1>1, <1>3, DueStays DEF Settled, Tables
  <2> QED BY <1>1, <1>3, <2>1, AgreeStays
<1> QED BY <1>1, <1>4, <1>5, TradesApart DEF PayInv, Settled

LEMMA ThrowPays ==
  ASSUME PayInv, Throw, TInv'
  PROVE  PayInv'
<1>1. Settled /\ Tables /\ con.pc # "done"
  BY DEF Throw, Stay, Settled, Tables, positions, market, wallet
<1>2. Turns("done", con.todo, con.shares, con.den, con.current, con.out)
  BY Finishes DEF Throw, PayInv, TInv
<1>3. GoodRead'
  BY <1>1, <1>2 DEF PayInv, GoodRead, Turns, Settled, Resolving, Paying, SharesOn, Of
<1>4. RecordsAgree'
  <2>1. RecordIsDue(record, Shares, Den)'
    BY <1>1, <1>2, DueStays DEF Settled, Tables, Turns
  <2> QED BY <1>1, <1>2, <2>1, AgreeStays DEF Turns
<1> QED BY <1>1, <1>3, <1>4, TradesApart DEF PayInv, Settled

LEMMA CrashPays ==
  ASSUME PayInv, Crash, TInv'
  PROVE  PayInv'
<1>1. Settled /\ Tables /\ "late" \notin faults
  BY DEF Crash, Stay, Settled, Tables, positions, market, wallet, PayInv
<1>2. Turns("find", {}, [h \in Holders |-> 0], 0, Waiting.current, {})
  BY CrashTurns DEF PayInv, TInv
<1>3. stake \in [Holders -> Nat]
  BY Facts DEF PayInv, TInv
<1>4. GoodRead'
  BY <1>1, <1>2, <1>3 DEF GoodRead, Turns, Settled, Paying
<1>5. RecordsAgree'
  <2>1. RecordIsDue(record, Shares, Den)'
    BY <1>1, DueStays DEF Settled, Tables
  <2> QED BY <1>1, <1>2, <2>1, AgreeStays DEF Turns
<1> QED BY <1>1, <1>4, <1>5, TradesApart DEF PayInv, Settled

LEMMA PayWinnerPays ==
  ASSUME PayInv, PayWinner, TInv'
  PROVE  PayInv'
<1>1. /\ Settled
      /\ UNCHANGED <<faults, verdict, stake, settled, payout, pool, record, con>>
  BY DEF PayWinner, Stay, Settled, market, positions
<1>2. PICK m \in fanout : /\ paid' = IF paid[m.holder] = None
                                     THEN [paid EXCEPT ![m.holder] = m.amount] ELSE paid
                          /\ fanout' = fanout \ {m}
  BY DEF PayWinner
<1>3. m.holder \in Holders /\ paid \in [Holders -> Money]
  BY Facts DEF Payouts, PayInv, TInv
<1>4. GoodRead'
  BY <1>1 DEF PayInv, GoodRead, Resolving, SharesOn, Of
<1>5. RecordsAgree'
  <2>1. RecordIsDue(record, Shares, Den)'
    BY <1>1, DueStays
  <2>2. RecordsAgree
    BY DEF PayInv
  <2>3. (\A h \in Holders : paid[h] \notin {None, 0} => payout[h] = paid[h])'
    <3>1. \A h \in Holders :
            paid'[h] = IF paid[h] = None /\ h = m.holder THEN m.amount ELSE paid[h]
      BY <1>2, <1>3
    <3> QED BY <1>1, <2>2, <3>1 DEF RecordsAgree
  <2> QED BY <1>1, <1>2, <2>1, <2>2, <2>3 DEF RecordsAgree, SharesOn, Of
<1> QED BY <1>1, <1>4, <1>5, TradesApart DEF PayInv, Settled

LEMMA StillPays ==
  ASSUME PayInv, Tables, Settled, UNCHANGED con, TInv'
  PROVE  PayInv'
<1>0. UNCHANGED <<faults, verdict, stake, settled, payout, pool, record, con>>
  BY DEF Tables, Settled, positions
<1>1. GoodRead'
  BY <1>0 DEF PayInv, GoodRead, Resolving, SharesOn, Of
<1>2. RecordsAgree'
  BY DEF PayInv, RecordsAgree, RecordIsDue, Shares, Den, DueOf, SharesOn, Of, Tables, Settled,
         positions
<1> QED BY <1>1, <1>2, TradesApart DEF PayInv, Settled

LEMMA NextPayInv == PayInv /\ [Next]_vars => PayInv'
<1> SUFFICES ASSUME PayInv, [Next]_vars PROVE PayInv'
  OBVIOUS
<1>1. TInv'
  BY NextTInv DEF PayInv
<1>2. CASE CreditRefund
  <2>1. Tables /\ Settled /\ UNCHANGED con
    BY <1>2 DEF CreditRefund, Stay, Tables, Settled, positions, market
  <2> QED BY <1>1, <2>1, StillPays
<1>3. CASE UNCHANGED vars
  <2>1. Tables /\ Settled /\ UNCHANGED con
    BY <1>3 DEF vars, Tables, Settled, positions, market, wallet
  <2> QED BY <1>1, <2>1, StillPays
<1> QED BY <1>1, <1>2, <1>3, TradePoolPays, TradePositionPays, FindWinnersPays, ReadPoolPays,
           RecordPays, MarkPays, FindLosersPays, CloseLosersPays, PublishSettlementsPays,
           FindRefundablePays, CloseRefundedPays, PublishRefundPays, ThrowPays, CrashPays,
           PayWinnerPays DEF Next, Settle

-----------------------------------------------------------------------------
(* What the money adds up to.                                              *)

(* Any amounts of the positions that were paid on are within the pot. *)
LEMMA WithinPot ==
  ASSUME PayInv, NEW g, \A h \in Holders : g[h] \in Nat,
         \A h \in Holders : g[h] # 0 => payout[h] = g[h]
  PROVE  SumFunctionOnSet(g, Holders) <= Pot
<1>1. Pot \in Nat /\ IsFiniteSet(Holders) /\ Of(verdict) \in SUBSET Holders
  BY HolderSets, SettlementAssumption
<1>2. \A h \in Holders : g[h] # 0 =>
        h[2] = verdict /\ record[h] # None /\ g[h] = DueOf(Shares, Den, h)
  <2>1. \A h \in Holders : g[h] # 0 => payout[h] \notin {None, 0}
    BY DEF None
  <2>2. \A h \in Holders : g[h] # 0 => record[h] = g[h] /\ record[h] # None
    BY <2>1 DEF PayInv, RecordsAgree
  <2> QED BY <2>2 DEF PayInv, RecordsAgree, RecordIsDue
<1>3. \A h \in Holders \ Of(verdict) : g[h] = 0
  BY <1>2 DEF Of
<1>4. CASE \A h \in Holders : record[h] = None
  <2> DEFINE z == [h \in Of(verdict) |-> 0]
  <2>1. \A h \in Of(verdict) : z[h] \in Nat /\ z[h] = 0
    OBVIOUS
  <2>2. SumFunctionOnSet(z, Of(verdict)) <= 0
    <3>1. SumFunctionOnSet(z, {}) = 0
      BY SumEmpty
    <3>2. SumFunctionOnSet(z, Of(verdict)) = SumFunctionOnSet(z, {})
      <4>1. Sums(z, Of(verdict)) /\ {} \in SUBSET Of(verdict)
        BY <2>1, HolderSets DEF Sums
      <4> QED BY <2>1, <4>1, SumWithin
    <3> QED BY <3>1, <3>2
  <2>3. \A h \in Of(verdict) : g[h] <= 0
    BY <1>1, <1>2, <1>4
  <2> HIDE DEF z
  <2>4. \A h \in Of(verdict) : g[h] <= IF 0 = 0 THEN 0 ELSE z[h] * (Pot \div 0)
    BY <2>3
  <2> QED BY <1>1, <1>3, <2>1, <2>2, <2>4, SharedOut
<1>5. CASE \E h \in Holders : record[h] # None
  <2>1. PICK k \in Holders : record[k] # None
    BY <1>5
  <2>2. verdict \in Outcomes
    BY <2>1, Unsettled DEF Resolving
  <2>3. PICK D \in Nat : D = Den
    BY <2>2, ConFacts, Facts DEF Den, PayInv, TInv
  <2>4. PICK s \in [Holders -> Nat] : s = Shares
    BY ConFacts, Facts DEF Shares, PayInv, TInv
  <2>5. SumFunctionOnSet(s, Of(verdict)) <= D
    <3>1. CASE "late" \in faults
      BY <2>1, <2>3, <2>4, <3>1 DEF PayInv, RecordsAgree, SharesOn, Shares, Den
    <3>2. CASE "late" \notin faults
      <4>1. SumFunctionOnSet(stake, Of(verdict)) \in Nat
        BY StakeSums, Facts DEF PayInv, TInv
      <4>2. SumFunctionOnSet(stake, Of(verdict))
               + (IF trade.pc = "position" /\ trade.holder[2] = verdict THEN 1 ELSE 0)
              <= pool[verdict]
        BY <2>2 DEF PayInv, PoolAhead
      <4>3. trade.pc = "idle"
        BY <3>2 DEF PayInv, PoolAhead
      <4>4. s = stake /\ D = pool[verdict]
        BY <2>3, <2>4, <3>2 DEF Shares, Den
      <4> QED BY <4>1, <4>2, <4>3, <4>4
    <3> QED BY <3>1, <3>2
  <2>6. \A h \in Of(verdict) : s[h] \in Nat /\ g[h] \in Nat
    BY <1>1
  <2>7. \A h \in Of(verdict) : g[h] <= IF D = 0 THEN 0 ELSE s[h] * (Pot \div D)
    <3>1. SUFFICES ASSUME NEW h \in Of(verdict)
                   PROVE  g[h] <= DueOf(s, D, h)
      BY DEF DueOf
    <3>2. h \in Holders /\ s[h] \in Nat /\ g[h] \in Nat
      BY <1>1
    <3>3. CASE g[h] # 0
      BY <1>2, <2>3, <2>4, <3>2, <3>3
    <3>4. CASE g[h] = 0
      <4>1. D # 0 => Pot \div D \in Nat
        BY <1>1, Quotient
      <4>2. \A a, b \in Nat : 0 <= a * b
        OBVIOUS
      <4> QED BY <3>2, <3>4, <4>1, <4>2 DEF DueOf
    <3> QED BY <3>3, <3>4
  <2> QED BY <1>1, <1>3, <2>5, <2>6, <2>7, SharedOut
<1> QED BY <1>4, <1>5

LEMMA WithinPotPaid == PayInv => PaidWithinPot
<1> SUFFICES ASSUME PayInv PROVE PaidWithinPot
  OBVIOUS
<1> DEFINE g == [h \in Holders |-> Received(h)]
<1>1. paid \in [Holders -> Money]
  BY Facts DEF PayInv, TInv
<1>2. \A h \in Holders : /\ g[h] = (IF paid[h] = None THEN 0 ELSE paid[h])
                         /\ paid[h] \notin {None, 0} => payout[h] = paid[h]
  BY DEF Received, PayInv, RecordsAgree
<1>3. \A h \in Holders : g[h] \in Nat
  BY <1>1, <1>2 DEF Money
<1>4. \A h \in Holders : g[h] # 0 => payout[h] = g[h]
  BY <1>2
<1> HIDE DEF g
<1>5. SumFunctionOnSet(g, Holders) <= Pot
  BY <1>3, <1>4, WithinPot
<1> QED BY <1>5 DEF PaidWithinPot, PaidInAll, g

LEMMA RecordedPaid == PayInv => PaidIsRecorded
<1> SUFFICES ASSUME PayInv, NEW h \in Holders, paid[h] \notin {None, 0}
             PROVE  h[2] = verdict /\ record[h] = paid[h] /\ payout[h] = paid[h]
  BY DEF PaidIsRecorded
<1>1. payout[h] = paid[h] /\ record[h] = payout[h] /\ record[h] # None
  BY DEF PayInv, RecordsAgree
<1> QED BY <1>1 DEF PayInv, RecordsAgree, RecordIsDue

(* The rows of all users are the positions with a stake. *)
LEMMA AllRows == UNION {Rows(u) : u \in Users} = {h \in Holders : stake[h] > 0}
<1>1. \A h \in Holders : h[1] \in Users
  BY DEF Holders
<1> QED BY <1>1 DEF Rows

(* The admins' roster says what is paid out, within the pot. *)
LEMMA RosterPaid ==
  ASSUME PayInv
  PROVE  /\ PaidInAll <= getMarketRoster.totalPaidOutKes
         /\ getMarketRoster.totalPaidOutKes <= Pot
<1> DEFINE R == {h \in Holders : stake[h] > 0}
           t == [h \in R |-> PaidOut(h)]
           g == [h \in Holders |-> IF h \in R THEN PaidOut(h) ELSE 0]
           r == [h \in Holders |-> Received(h)]
<1>1. /\ paid \in [Holders -> Money] /\ payout \in [Holders -> Money] /\ Pot \in Nat
      /\ IsFiniteSet(Holders)
  BY Facts, HolderSets, SettlementAssumption DEF PayInv, TInv
<1>2. getMarketRoster.totalPaidOutKes = SumFunctionOnSet(t, R)
  BY AllRows DEF getMarketRoster
<1>3. \A h \in Holders : PaidOut(h) \in Nat /\ Received(h) \in Nat
  BY <1>1 DEF PaidOut, Received, Money
<1>4. \A h \in Holders : Received(h) # 0 => h \in R /\ PaidOut(h) = Received(h)
  <2>1. \A h \in Holders : paid[h] \notin {None, 0} =>
          payout[h] = paid[h] /\ record[h] = payout[h] /\ record[h] # None
    BY DEF PayInv, RecordsAgree
  <2>2. \A h \in Holders : record[h] # None => stake[h] > 0
    BY DEF PayInv, RecordsAgree, RecordIsDue
  <2> QED BY <2>1, <2>2 DEF Received, PaidOut
<1>5. R \in SUBSET Holders /\ IsFiniteSet(R)
  BY <1>1, FS_Subset
<1>6. /\ \A h \in Holders : r[h] = Received(h) /\ g[h] = (IF h \in R THEN PaidOut(h) ELSE 0)
      /\ \A h \in R : t[h] = PaidOut(h) /\ h \in Holders
  OBVIOUS
<1>7. PaidInAll = SumFunctionOnSet(r, Holders)
  BY DEF PaidInAll
<1> HIDE DEF R, t, g, r
<1>8. Sums(r, Holders) /\ Sums(g, Holders) /\ Sums(g, R) /\ Sums(t, R)
  BY <1>1, <1>3, <1>5, <1>6 DEF Sums
<1>9. SumFunctionOnSet(g, Holders) = SumFunctionOnSet(t, R)
  <2>1. \A h \in Holders \ R : g[h] = 0
    BY <1>6
  <2>2. SumFunctionOnSet(g, Holders) = SumFunctionOnSet(g, R)
    BY <1>5, <1>8, <2>1, SumWithin
  <2>3. \A h \in R : g[h] = t[h]
    BY <1>6
  <2>4. SumFunctionOnSet(g, R) = SumFunctionOnSet(t, R)
    BY <1>8, <2>3, SumSame
  <2> QED BY <2>2, <2>4
<1>10. SumFunctionOnSet(r, Holders) <= SumFunctionOnSet(g, Holders)
  <2>1. \A h \in Holders : r[h] <= g[h]
    BY <1>3, <1>4, <1>6
  <2> QED BY <1>8, <2>1, SumBelow
<1>11. SumFunctionOnSet(g, Holders) <= Pot
  <2>1. \A h \in Holders : g[h] \in Nat
    BY <1>3, <1>6
  <2>2. \A h \in Holders : g[h] # 0 => payout[h] = g[h]
    BY <1>6 DEF PaidOut
  <2> QED BY <2>1, <2>2, WithinPot
<1> QED BY <1>2, <1>7, <1>9, <1>10, <1>11

-----------------------------------------------------------------------------
(* Refunds.  A position that was closed for a refund is in one place at    *)
(* most: still to be published, published, or credited.                    *)

Queued(h) == \E i \in DOMAIN refunds : refunds[i].holder = h

(* Published and credited. *)
SentOnce ==
  /\ Resolving => refunds = << >> /\ \A h \in Holders : refunded[h].times = 0
  /\ \A i, j \in DOMAIN refunds : refunds[i].holder = refunds[j].holder => i = j
  /\ \A i \in DOMAIN refunds :
       /\ settled[refunds[i].holder]
       /\ refunded[refunds[i].holder].times = 0
       /\ "late" \notin faults => refunds[i].amount = stake[refunds[i].holder]
  /\ \A h \in Holders :
       \/ refunded[h].times = 0 /\ refunded[h].sum = 0
       \/ /\ refunded[h].times = 1 /\ settled[h]
          /\ "late" \notin faults => refunded[h].sum = stake[h]

(* Still to be published. *)
ToSend ==
  ~Resolving =>
    /\ con.pc = "close" => \A h \in con.todo : ~settled[h]
    /\ con.pc = "publish" =>
         \A h \in con.todo : settled[h] /\ refunded[h].times = 0 /\ ~Queued(h)
    /\ "late" \notin faults /\ con.pc \in {"close", "publish"} => con.shares = stake

RefundInv == SentOnce /\ ToSend

(* Steps that send and credit nothing. *)
LEMMA SentStays ==
  ASSUME TypeOK, SentOnce, UNCHANGED <<faults, verdict, refunds, refunded>>,
         "late" \notin faults => stake' = stake,
         \A h \in Holders : settled[h] => settled'[h]
  PROVE  SentOnce'
<1>1. \A i \in DOMAIN refunds : refunds[i].holder \in Holders
  <2>1. refunds \in Seq(Refunds)
    BY DEF TypeOK
  <2>2. \A i \in DOMAIN refunds : refunds[i] \in Refunds
    BY <2>1
  <2> QED BY <2>2 DEF Refunds
<1> QED BY <1>1 DEF SentOnce, Resolving

(* The handler is at the refund of a cancelled market, or it is not. *)
LEMMA Elsewhere ==
  ASSUME con'.pc \notin {"close", "publish"} \/ Resolving'
  PROVE  ToSend'
BY DEF ToSend

LEMMA SettleSends ==
  ASSUME TInv, RefundInv, Resolving, Settle
  PROVE  RefundInv'
<1>0. UNCHANGED <<faults, verdict, refunds, refunded, stake>>
  <2>1. verdict # "CANCEL"
    BY DEF Resolving, Outcomes
  <2> QED BY <2>1 DEF Settle, FindWinners, ReadPool, RecordSettlement, MarkWinner, FindLosers,
              CloseLosers, PublishSettlements, FindRefundable, CloseRefunded, PublishRefund,
              Stay, positions, wallet
<1>1. \A h \in Holders : settled[h] => settled'[h]
  <2>1. settled \in [Holders -> BOOLEAN]
    BY DEF TInv, TypeOK
  <2>2. CASE MarkWinner
    BY <2>1, <2>2 DEF MarkWinner
  <2>3. CASE CloseLosers
    BY <2>3 DEF CloseLosers, Close
  <2>4. CASE UNCHANGED settled
    BY <2>4
  <2>5. verdict # "CANCEL"
    BY DEF Resolving, Outcomes
  <2> QED BY <2>2, <2>3, <2>4, <2>5
          DEF Settle, FindWinners, ReadPool, RecordSettlement, FindLosers,
              PublishSettlements, FindRefundable, CloseRefunded, PublishRefund, positions
<1>2. SentOnce'
  BY <1>0, <1>1, SentStays DEF RefundInv, TInv
<1>3. ToSend'
  BY <1>0, Elsewhere DEF Resolving
<1> QED BY <1>2, <1>3 DEF RefundInv

LEMMA FindRefundableSends ==
  ASSUME TInv, RefundInv, FindRefundable
  PROVE  RefundInv'
<1>1. UNCHANGED <<faults, verdict, refunds, refunded, stake, settled>>
  BY DEF FindRefundable, Stay, positions, wallet
<1>2. Turns("close", Open(Holders), stake, con.den, con.current, con.out)
  BY FindRefundableTurns DEF TInv
<1>3. SentOnce'
  BY <1>1, SentStays DEF RefundInv, TInv
<1>4. ToSend'
  BY <1>1, <1>2 DEF ToSend, Turns, Open, Resolving
<1> QED BY <1>3, <1>4 DEF RefundInv

LEMMA CloseRefundedSends ==
  ASSUME PayInv, RefundInv, CloseRefunded
  PROVE  RefundInv'
<1>1. /\ UNCHANGED <<faults, verdict, refunds, refunded, stake>>
      /\ ~Resolving /\ con.pc = "close" /\ Close(Holders)
  BY DEF CloseRefunded, Stay, wallet, Resolving, Outcomes
<1>2. Turns("publish", con.todo, con.shares, con.den, con.current, con.out)
  BY CloseRefundedTurns DEF PayInv, TInv
<1>3. \A h \in Holders : settled[h] => settled'[h]
  BY <1>1 DEF Close
<1>4. SentOnce'
  BY <1>1, <1>3, SentStays DEF RefundInv, PayInv, TInv
<1>5. ASSUME NEW h \in con.todo
      PROVE  settled'[h] /\ refunded[h].times = 0 /\ ~Queued(h)
  <2>1. h \in Holders /\ ~settled[h] /\ stake[h] > 0
    BY <1>1, ConFacts DEF RefundInv, ToSend, PayInv, TInv, GoodRead
  <2>2. settled'[h]
    BY <1>1, <2>1 DEF Close, Open
  <2>3. refunded[h].times = 0 /\ ~Queued(h)
    BY <2>1 DEF RefundInv, SentOnce, Queued
  <2> QED BY <2>2, <2>3
<1>6. ToSend'
  BY <1>1, <1>2, <1>5 DEF RefundInv, ToSend, Turns, Resolving, Queued
<1> QED BY <1>4, <1>6 DEF RefundInv

LEMMA PublishRefundSends ==
  ASSUME TInv, RefundInv, PublishRefund
  PROVE  RefundInv'
<1>1. /\ UNCHANGED <<faults, verdict, refunded, stake, settled>>
      /\ ~Resolving /\ con.pc = "publish"
  BY DEF PublishRefund, Stay, positions, wallet, Resolving, Outcomes
<1>2. CASE /\ UNCHANGED refunds
           /\ Turns("done", con.todo, con.shares, con.den, con.current, con.out)
  <2>1. SentOnce'
    BY <1>1, <1>2, SentStays DEF RefundInv, TInv
  <2>2. ToSend'
    BY <1>2, Elsewhere DEF Turns
  <2> QED BY <2>1, <2>2 DEF RefundInv
<1>3. ASSUME NEW g \in con.todo,
             refunds' = Append(refunds, [holder |-> g, amount |-> con.shares[g]]),
             Turns("publish", con.todo \ {g}, con.shares, con.den, con.current, con.out)
      PROVE  RefundInv'
  <2>1. /\ g \in Holders /\ settled[g] /\ refunded[g].times = 0 /\ ~Queued(g)
        /\ "late" \notin faults => con.shares[g] = stake[g]
    BY <1>1, ConFacts DEF RefundInv, ToSend, TInv
  <2> DEFINE m == [holder |-> g, amount |-> con.shares[g]]
  <2>2. PICK n \in Nat : n = Len(refunds)
    BY DEF TInv, TypeOK
  <2>3. refunds \in Seq(Refunds)
    BY DEF TInv, TypeOK
  <2>4. m.holder = g /\ m.amount = con.shares[g]
    OBVIOUS
  <2> HIDE DEF m
  <2>5. /\ DOMAIN refunds = 1..n /\ DOMAIN refunds' = 1..(n + 1)
        /\ \A i \in 1..n : refunds'[i] = refunds[i]
        /\ refunds'[n + 1] = m
    <3>1. refunds' = Append(refunds, m)
      BY <1>3 DEF m
    <3> QED BY <2>2, <2>3, <3>1
  <2>6. \A i \in 1..(n + 1) : i \in 1..n \/ i = n + 1
    BY <2>2
  <2>7. \A i, j \in 1..(n + 1) : refunds'[i].holder = refunds'[j].holder => i = j
    BY <2>1, <2>4, <2>5, <2>6 DEF RefundInv, SentOnce, Queued
  <2>8. \A i \in 1..(n + 1) :
           /\ settled[refunds'[i].holder]
           /\ refunded[refunds'[i].holder].times = 0
           /\ "late" \notin faults => refunds'[i].amount = stake[refunds'[i].holder]
    BY <2>1, <2>4, <2>5, <2>6 DEF RefundInv, SentOnce
  <2>9. SentOnce'
    <3>1. (Resolving => refunds = << >> /\ \A h \in Holders : refunded[h].times = 0)'
      BY <1>1 DEF Resolving
    <3> QED BY <1>1, <2>5, <2>7, <2>8, <3>1 DEF RefundInv, SentOnce
  <2>10. ASSUME NEW h \in con.todo \ {g}
         PROVE  settled[h] /\ refunded[h].times = 0 /\ ~Queued(h)'
    <3>1. settled[h] /\ refunded[h].times = 0 /\ ~Queued(h)
      BY <1>1 DEF RefundInv, ToSend
    <3> QED BY <2>4, <2>5, <2>6, <3>1 DEF Queued
  <2>11. ToSend'
    BY <1>1, <1>3, <2>10 DEF RefundInv, ToSend, Turns, Resolving
  <2> QED BY <2>9, <2>11 DEF RefundInv
<1> QED BY <1>2, <1>3, PublishRefundTurns DEF TInv

LEMMA CreditRefundSends ==
  ASSUME TInv, RefundInv, CreditRefund
  PROVE  RefundInv'
<1>1. /\ UNCHANGED <<faults, verdict, stake, settled, con>>
      /\ refunds # << >> /\ refunds \in Seq(Refunds)
      /\ refunded \in [Holders -> [times: Nat, sum: Nat]]
      /\ stake \in [Holders -> Nat]
  BY DEF CreditRefund, Stay, positions, TInv, TypeOK
<1>2. ~Resolving
  BY <1>1 DEF RefundInv, SentOnce
<1> DEFINE m == Head(refunds)
           g == m.holder
           r == refunded[g]
           x == [times |-> r.times + 1, sum |-> r.sum + m.amount]
<1>3. PICK n \in Nat : n = Len(refunds) - 1
  <2>1. Len(refunds) \in Nat /\ Len(refunds) # 0
    BY <1>1
  <2> QED BY <2>1
<1>4. /\ DOMAIN refunds = 1..(n + 1) /\ DOMAIN Tail(refunds) = 1..n
      /\ \A i \in 1..n : Tail(refunds)[i] = refunds[i + 1]
      /\ m = refunds[1] /\ m \in Refunds
  BY <1>1, <1>3
<1>5. 1 \in 1..(n + 1) /\ \A i \in 1..n : i + 1 \in 1..(n + 1) /\ i + 1 # 1
  BY <1>3
<1>6. g \in Holders /\ m.amount \in Nat /\ r.times = 0 /\ r.sum = 0 /\ settled[g]
  <2>1. g \in Holders /\ m.amount \in Nat
    BY <1>4 DEF Refunds
  <2>2. r.times = 0 /\ settled[g]
    BY <1>4, <1>5 DEF RefundInv, SentOnce
  <2> QED BY <2>1, <2>2 DEF RefundInv, SentOnce
<1>7. "late" \notin faults => m.amount = stake[g]
  BY <1>4, <1>5 DEF RefundInv, SentOnce
<1>8. x.times = 1 /\ x.sum = m.amount
  BY <1>6
<1>9. \A h \in Holders : refunded'[h] = (IF h = g THEN x ELSE refunded[h])
  <2>1. refunded' = [refunded EXCEPT ![g] = x]
    BY DEF CreditRefund
  <2> HIDE DEF x
  <2> QED BY <1>1, <2>1
<1> HIDE DEF x, r
<1>10. /\ DOMAIN refunds' = 1..n
       /\ \A i \in 1..n : refunds'[i] = refunds[i + 1]
  BY <1>4 DEF CreditRefund
<1>11. \A i \in 1..n : refunds[i + 1].holder # g /\ refunds[i + 1].holder \in Holders
  <2>1. \A i \in 1..n : refunds[i + 1].holder # g
    <3>1. \A i, j \in 1..(n + 1) : refunds[i].holder = refunds[j].holder => i = j
      BY <1>4 DEF RefundInv, SentOnce
    <3>2. g = refunds[1].holder
      BY <1>4
    <3> QED BY <1>5, <3>1, <3>2
  <2>2. \A i \in 1..(n + 1) : refunds[i].holder \in Holders
    <3>1. \A i \in DOMAIN refunds : refunds[i] \in Refunds
      BY <1>1
    <3> QED BY <1>4, <3>1 DEF Refunds
  <2> QED BY <1>5, <2>1, <2>2
<1> HIDE DEF m, g
<1>12. SentOnce'
  <2>1. (Resolving => refunds = << >> /\ \A h \in Holders : refunded[h].times = 0)'
    BY <1>1, <1>2 DEF Resolving
  <2>2. \A i, j \in 1..n : refunds'[i].holder = refunds'[j].holder => i = j
    <3>1. \A i, j \in 1..n : refunds[i + 1].holder = refunds[j + 1].holder => i + 1 = j + 1
      BY <1>4, <1>5 DEF RefundInv, SentOnce
    <3>2. \A i, j \in 1..n : i + 1 = j + 1 => i = j
      BY <1>3
    <3>3. ASSUME NEW i \in 1..n, NEW j \in 1..n, refunds'[i].holder = refunds'[j].holder
          PROVE  i = j
      <4>1. refunds'[i] = refunds[i + 1] /\ refunds'[j] = refunds[j + 1]
        BY <1>10
      <4>2. refunds[i + 1].holder = refunds[j + 1].holder
        BY <3>3, <4>1
      <4>3. i + 1 = j + 1
        BY <3>1, <4>2
      <4> QED BY <3>2, <4>3
    <3> QED BY <3>3
  <2>3. \A i \in 1..n :
           /\ settled[refunds'[i].holder]
           /\ refunded'[refunds'[i].holder].times = 0
           /\ "late" \notin faults => refunds'[i].amount = stake[refunds'[i].holder]
    <3>1. \A i \in 1..n :
           /\ settled[refunds[i + 1].holder]
           /\ refunded[refunds[i + 1].holder].times = 0
           /\ "late" \notin faults => refunds[i + 1].amount = stake[refunds[i + 1].holder]
      BY <1>4, <1>5 DEF RefundInv, SentOnce
    <3> QED BY <1>9, <1>10, <1>11, <3>1
  <2>4. \A h \in Holders :
         \/ refunded'[h].times = 0 /\ refunded'[h].sum = 0
         \/ /\ refunded'[h].times = 1 /\ settled[h]
            /\ "late" \notin faults => refunded'[h].sum = stake[h]
    BY <1>6, <1>7, <1>8, <1>9 DEF RefundInv, SentOnce
  <2> QED BY <1>1, <1>10, <2>1, <2>2, <2>3, <2>4 DEF SentOnce
<1>13. ToSend'
  <2>1. ASSUME NEW h \in con.todo, con.pc = "publish"
        PROVE  settled[h] /\ refunded'[h].times = 0 /\ ~Queued(h)'
    <3>1. settled[h] /\ refunded[h].times = 0 /\ ~Queued(h) /\ h \in Holders
      BY <1>2, <2>1, ConFacts DEF RefundInv, ToSend, TInv
    <3>2. h # g
      BY <1>4, <1>5, <3>1 DEF Queued, g
    <3>3. ~Queued(h)'
      BY <1>4, <1>5, <1>10, <3>1 DEF Queued
    <3> QED BY <1>9, <3>1, <3>2, <3>3
  <2> QED BY <1>1, <2>1 DEF RefundInv, ToSend, Resolving
<1> QED BY <1>12, <1>13 DEF RefundInv

LEMMA InitRefundInv == Init => RefundInv
BY DEF Init, RefundInv, SentOnce, ToSend, Waiting

LEMMA NextRefundInv == PayInv /\ RefundInv /\ [Next]_vars => RefundInv'
<1> SUFFICES ASSUME PayInv, RefundInv, [Next]_vars PROVE RefundInv'
  OBVIOUS
<1>0. TInv /\ TypeOK
  BY DEF PayInv, TInv
<1>1. ASSUME UNCHANGED <<faults, verdict, refunds, refunded, settled>>,
             "late" \notin faults => stake' = stake,
             UNCHANGED con \/ con'.pc \in {"find", "done"}
      PROVE  RefundInv'
  <2>1. SentOnce'
    BY <1>0, <1>1, SentStays DEF RefundInv
  <2>2. ToSend'
    <3>1. CASE UNCHANGED con
      BY <1>1, <3>1 DEF RefundInv, ToSend, Resolving, Queued
    <3>2. CASE con'.pc \in {"find", "done"}
      BY <3>2, Elsewhere
    <3> QED BY <1>1, <3>1, <3>2
  <2> QED BY <2>1, <2>2 DEF RefundInv
<1>2. CASE TradePool
  BY <1>1, <1>2 DEF TradePool, positions, wallet
<1>3. CASE TradePosition
  <2>1. "late" \in faults
    BY <1>3 DEF PayInv, PoolAhead, TradePosition
  <2> QED BY <1>1, <1>3, <2>1 DEF TradePosition, wallet
<1>4. CASE Throw
  <2>1. con'.pc = "done"
    BY <1>0, <1>4, Finishes DEF Throw, Turns
  <2> QED BY <1>1, <1>4, <2>1 DEF Throw, Stay, positions, wallet
<1>5. CASE Crash
  <2>1. con'.pc = "find"
    BY <1>0, <1>5, CrashTurns DEF Turns
  <2> QED BY <1>1, <1>5, <2>1 DEF Crash, Stay, positions, wallet
<1>6. CASE PayWinner
  BY <1>1, <1>6 DEF PayWinner, Stay, positions
<1>7. CASE UNCHANGED vars
  BY <1>1, <1>7 DEF vars, positions, wallet
<1>8. CASE Settle /\ ~Resolving
  <2>1. FindRefundable \/ CloseRefunded \/ PublishRefund
    BY <1>0, <1>8 DEF Settle, FindWinners, ReadPool, RecordSettlement, MarkWinner, FindLosers,
                      CloseLosers, PublishSettlements, TInv, Routed
  <2> QED BY <1>0, <2>1, FindRefundableSends, CloseRefundedSends, PublishRefundSends
<1> QED BY <1>0, <1>2, <1>3, <1>4, <1>5, <1>6, <1>7, <1>8, SettleSends, CreditRefundSends
        DEF Next

-----------------------------------------------------------------------------
(* Unhindered, every position is settled in the end, the winners by the    *)
(* loop over what was read first and the others by the condition.          *)

EndInv ==
  faults = {} =>
    /\ con.pc \in {"find", "pool"} => con.out = {}
    /\ Resolving /\ con.pc \in {"pool", "record"} => Open(Of(verdict)) \subseteq con.todo
    /\ Resolving /\ con.pc = "mark" => Open(Of(verdict)) \subseteq con.todo \cup {con.current}
    /\ Resolving /\ con.pc \in {"losers", "close"} => Open(Of(verdict)) = {}
    /\ Resolving /\ (con.pc = "publish" \/ (con.pc = "done" /\ con.out # {})) =>
         Open(Holders) = {}
    /\ ~Resolving => con.out = {}
    /\ ~Resolving /\ con.pc \in {"publish", "done"} => Open(Holders) = {}

LEMMA InitEndInv == Init => EndInv
BY DEF Init, EndInv, Waiting

LEMMA MarkEnds ==
  ASSUME TInv, EndInv, MarkWinner, faults = {}
  PROVE  EndInv'
<1>1. /\ Resolving /\ con.pc = "mark" /\ UNCHANGED <<faults, verdict, stake>>
      /\ settled' = [settled EXCEPT ![con.current] = TRUE]
  BY DEF MarkWinner, Stay, TInv, Routed
<1>2. settled \in [Holders -> BOOLEAN] /\ con.current \in Holders
  BY ConFacts DEF TInv, TypeOK
<1>3. \A h \in Holders : settled'[h] = (IF h = con.current THEN TRUE ELSE settled[h])
  BY <1>1, <1>2
<1>4. Open(Of(verdict)) \subseteq con.todo \cup {con.current}
  BY <1>1 DEF EndInv
<1>5. Open(Of(verdict))' \subseteq con.todo
  BY <1>1, <1>3, <1>4 DEF Open, Of
<1>6. PICK o : Turns(IF con.todo = {} THEN "losers" ELSE "record", con.todo, con.shares,
                     con.den, con.current, o)
  BY MarkTurns DEF TInv
<1>7. CASE con.todo = {}
  BY <1>1, <1>5, <1>6, <1>7 DEF EndInv, Turns, Resolving
<1>8. CASE con.todo # {}
  BY <1>1, <1>5, <1>6, <1>8 DEF EndInv, Turns, Resolving
<1> QED BY <1>7, <1>8

LEMMA RecordEnds ==
  ASSUME TInv, EndInv, RecordSettlement, faults = {}
  PROVE  EndInv'
<1>1. /\ Resolving /\ con.pc = "record" /\ UNCHANGED <<faults, verdict, stake, settled>>
  BY DEF RecordSettlement, Stay, TInv, Routed, positions
<1>2. PICK h \in con.todo :
        Turns("mark", con.todo \ {h}, con.shares, con.den, h, con.out)
  BY RecordTurns DEF TInv
<1>3. Open(Of(verdict)) \subseteq (con.todo \ {h}) \cup {h}
  BY <1>1 DEF EndInv
<1>4. Open(Of(verdict))' = Open(Of(verdict))
  BY <1>1 DEF Open, Of
<1> QED BY <1>1, <1>2, <1>3, <1>4 DEF EndInv, Turns, Resolving

LEMMA CloseLosersEnds ==
  ASSUME TInv, EndInv, CloseLosers, faults = {}
  PROVE  EndInv'
<1>1. /\ Resolving /\ con.pc = "close" /\ UNCHANGED <<faults, verdict, stake>>
      /\ Close(Of(Losing))
  BY DEF CloseLosers, Stay
<1>2. PICK o : Turns("publish", con.todo, con.shares, con.den, con.current, o)
  BY CloseLosersTurns DEF TInv
<1>3. Open(Of(verdict)) = {}
  BY <1>1 DEF EndInv
<1>4. \A h \in Holders : h \in Of(verdict) \/ h \in Of(Losing)
  BY <1>1 DEF Holders, Of, Losing, Resolving, Outcomes
<1>5. Open(Holders)' = {}
  BY <1>1, <1>3, <1>4 DEF Open, Close
<1> QED BY <1>1, <1>2, <1>5 DEF EndInv, Turns, Resolving

LEMMA FindWinnersEnds ==
  ASSUME TInv, EndInv, FindWinners, faults = {}
  PROVE  EndInv'
<1>1. /\ Resolving /\ con.pc = "find" /\ UNCHANGED <<faults, verdict, stake, settled>>
  BY DEF FindWinners, Stay, positions
<1>2. \/ Turns("done", con.todo, con.shares, con.den, con.current, con.out)
      \/ Turns("pool", Open(Of(verdict)), stake, con.den, con.current, con.out)
  BY FindWinnersTurns DEF TInv
<1>3. Open(Of(verdict))' = Open(Of(verdict)) /\ con.out = {}
  BY <1>1 DEF Open, Of, EndInv
<1> QED BY <1>1, <1>2, <1>3 DEF EndInv, Turns, Resolving

(* The other steps close no position, or all. *)
LEMMA OthersEnd ==
  ASSUME TInv, EndInv, faults = {},
         \/ ReadPool \/ FindLosers \/ PublishSettlements \/ FindRefundable \/ CloseRefunded
         \/ PublishRefund
  PROVE  EndInv'
<1>0. TypeOK
  BY DEF TInv
<1>1. CASE ReadPool
  <2>1. UNCHANGED <<faults, verdict, stake, settled>> /\ con.pc = "pool" /\ Resolving
    BY <1>1 DEF ReadPool, Stay, positions, TInv, Routed
  <2>2. PICK d : Turns("record", con.todo, con.shares, d, con.current, con.out)
    BY <1>1, ReadPoolTurns
  <2> QED BY <2>1, <2>2 DEF EndInv, Turns, Resolving, Open, Of
<1>2. CASE FindLosers
  <2>1. UNCHANGED <<faults, verdict, stake, settled>> /\ con.pc = "losers" /\ Resolving
    BY <1>2 DEF FindLosers, Stay, positions, TInv, Routed
  <2>2. Turns("close", Open(Of(Losing)), con.shares, con.den, con.current, con.out)
    BY <1>0, <1>2, FindLosersTurns
  <2> QED BY <2>1, <2>2 DEF EndInv, Turns, Resolving, Open, Of
<1>3. CASE PublishSettlements
  <2>1. UNCHANGED <<faults, verdict, stake, settled>> /\ con.pc = "publish" /\ Resolving
    BY <1>3 DEF PublishSettlements, Stay, positions
  <2>2. Turns("done", con.todo, con.shares, con.den, con.current, con.out)
    BY <1>0, <1>3, Finishes DEF PublishSettlements
  <2> QED BY <2>1, <2>2 DEF EndInv, Turns, Resolving, Open
<1>4. CASE FindRefundable
  <2>1. UNCHANGED <<faults, verdict, stake, settled>> /\ con.pc = "find" /\ ~Resolving
    BY <1>4 DEF FindRefundable, Stay, positions, Resolving, Outcomes
  <2>2. Turns("close", Open(Holders), stake, con.den, con.current, con.out)
    BY <1>0, <1>4, FindRefundableTurns
  <2> QED BY <2>1, <2>2 DEF EndInv, Turns, Resolving
<1>5. CASE CloseRefunded
  <2>1. UNCHANGED <<faults, verdict, stake>> /\ con.pc = "close" /\ ~Resolving /\ Close(Holders)
    BY <1>5 DEF CloseRefunded, Stay, positions, Resolving, Outcomes
  <2>2. Turns("publish", con.todo, con.shares, con.den, con.current, con.out)
    BY <1>0, <1>5, CloseRefundedTurns
  <2>3. Open(Holders)' = {}
    BY <2>1 DEF Open, Close
  <2> QED BY <2>1, <2>2, <2>3 DEF EndInv, Turns, Resolving
<1>6. CASE PublishRefund
  <2>1. UNCHANGED <<faults, verdict, stake, settled>> /\ con.pc = "publish" /\ ~Resolving
    BY <1>6 DEF PublishRefund, Stay, positions, Resolving, Outcomes
  <2>2. con'.pc \in {"done", "publish"} /\ con'.out = con.out
    BY <1>0, <1>6, PublishRefundTurns DEF Turns
  <2> QED BY <2>1, <2>2 DEF EndInv, Resolving, Open
<1> QED BY <1>1, <1>2, <1>3, <1>4, <1>5, <1>6

LEMMA NextEndInv == PayInv /\ EndInv /\ [Next]_vars => EndInv'
<1> SUFFICES ASSUME PayInv, EndInv, [Next]_vars, faults' = {} PROVE EndInv'
  BY DEF EndInv
<1>0. TInv /\ faults = {}
  <2>1. UNCHANGED faults
    BY DEF Next, Settle, vars, TradePool, TradePosition, FindWinners, ReadPool,
           RecordSettlement, MarkWinner, FindLosers, CloseLosers, PublishSettlements,
           FindRefundable, CloseRefunded, PublishRefund, Throw, Crash, PayWinner, CreditRefund,
           Stay
  <2> QED BY <2>1 DEF PayInv
<1>1. ASSUME UNCHANGED <<faults, verdict, stake, settled, con>>
      PROVE  EndInv'
  BY <1>1 DEF EndInv, Resolving, Open, Of
<1>2. CASE TradePool \/ TradePosition
  BY <1>0, <1>2 DEF TradePool, TradePosition, PayInv, PoolAhead
<1>3. CASE Throw \/ Crash
  BY <1>0, <1>3 DEF Throw, Crash
<1>4. CASE PayWinner
  BY <1>1, <1>4 DEF PayWinner, Stay, positions
<1>5. CASE CreditRefund
  BY <1>1, <1>5 DEF CreditRefund, Stay, positions
<1>6. CASE UNCHANGED vars
  BY <1>1, <1>6 DEF vars, positions
<1> QED BY <1>0, <1>2, <1>3, <1>4, <1>5, <1>6, MarkEnds, RecordEnds, CloseLosersEnds,
           FindWinnersEnds, OthersEnd DEF Next, Settle

-----------------------------------------------------------------------------
(* All of it.                                                              *)

SettlementInv == PayInv /\ RefundInv /\ EndInv

LEMMA OnceRefunded == SettlementInv => RefundedOnce
<1> SUFFICES ASSUME SettlementInv, NEW h \in Holders
             PROVE  /\ refunded[h].times <= 1
                    /\ refunded[h].times = 1 => verdict = "CANCEL"
                    /\ refunded[h].times = 1 /\ "late" \notin faults =>
                         refunded[h].sum = stake[h]
  BY DEF RefundedOnce
<1>1. \/ refunded[h].times = 0 /\ refunded[h].sum = 0
      \/ /\ refunded[h].times = 1 /\ settled[h]
         /\ "late" \notin faults => refunded[h].sum = stake[h]
  BY DEF SettlementInv, RefundInv, SentOnce
<1>2. refunded[h].times = 1 => verdict = "CANCEL"
  <2>1. verdict \in Messages
    BY SettlementAssumption DEF SettlementInv, PayInv, TInv, TypeOK
  <2> QED BY <2>1 DEF SettlementInv, RefundInv, SentOnce, Resolving, Messages
<1> QED BY <1>1, <1>2

LEMMA Shown == SettlementInv => ShownIsPaid
<1> SUFFICES ASSUME SettlementInv PROVE ShownIsPaid
  OBVIOUS
<1>1. PayInv /\ TInv /\ TypeOK
  BY DEF SettlementInv, PayInv, TInv
<1>2. ASSUME NEW h \in Holders, paid[h] \notin {None, 0}
      PROVE  h \in getMarketRoster.winners /\ getMyResults(h[1])[h] = paid[h]
  <2>1. payout[h] = paid[h] /\ record[h] = payout[h] /\ record[h] # None
    BY <1>1, <1>2 DEF PayInv, RecordsAgree
  <2>2. stake[h] > 0 /\ settled[h]
    BY <1>1, <1>2, <2>1 DEF PayInv, RecordsAgree, RecordIsDue
  <2>3. paid[h] \in Nat \ {0} /\ h[1] \in Users
    BY <1>1, <1>2 DEF TypeOK, Money, Holders
  <2>4. PaidOut(h) = paid[h] /\ PaidOut(h) > 0
    BY <1>2, <2>1, <2>3 DEF PaidOut
  <2>5. h \in {x \in UNION {Rows(u) : u \in Users} : settled[x] /\ PaidOut(x) > 0}
    BY <2>2, <2>4, AllRows
  <2>6. h \in {x \in Rows(h[1]) : settled[x]}
    BY <2>2 DEF Rows
  <2> QED BY <2>4, <2>5, <2>6 DEF getMarketRoster, getMyResults
<1>3. ASSUME faults = {}, con.pc = "done", con.out \cup Range(refunds) # {}, NEW u \in Users
      PROVE  getMyPositions(u) = {}
  <2>1. Resolving => Range(refunds) = {}
    <3>1. Resolving => refunds = << >>
      BY DEF SettlementInv, RefundInv, SentOnce
    <3> QED BY <3>1 DEF Range
  <2>2. Open(Holders) = {}
    BY <1>3, <2>1 DEF SettlementInv, EndInv
  <2> QED BY <2>2 DEF getMyPositions, Rows, Open
<1>4. /\ PaidInAll <= getMarketRoster.totalPaidOutKes
      /\ getMarketRoster.totalPaidOutKes <= Pot
  BY <1>1, RosterPaid
<1> QED BY <1>2, <1>3, <1>4 DEF ShownIsPaid

LEMMA InitSettlementInv == Init /\ CrashOrLate => SettlementInv
BY InitPayInv, InitRefundInv, InitEndInv DEF SettlementInv

LEMMA NextSettlementInv == SettlementInv /\ [Next]_vars => SettlementInv'
BY NextPayInv, NextRefundInv, NextEndInv DEF SettlementInv

(* Payouts and refunds are within the pot, recorded, shown, and made once, *)
(* where no behaviour has both late trades and crashes: a message that is  *)
(* delivered again after a late trade pays the position of that trade at   *)
(* the price of the larger pool, on top of what was paid before.           *)
THEOREM PaidAsRecordedHolds ==
  ASSUME CrashOrLate
  PROVE  Spec => []PaidAsRecorded
<1>1. Init => SettlementInv
  BY InitSettlementInv
<1>2. SettlementInv => PaidAsRecorded
  <2>1. SettlementInv => PaidWithinPot /\ PaidIsRecorded
    BY WithinPotPaid, RecordedPaid DEF SettlementInv
  <2> QED BY <2>1, OnceRefunded, Shown DEF PaidAsRecorded
<1> QED BY <1>1, <1>2, NextSettlementInv, PTL DEF Spec

=============================================================================
