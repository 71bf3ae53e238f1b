-------------------------- MODULE OptionMarketProofs --------------------------
(***************************************************************************)
(* What holds of a MULTI market for any number of users, options, requests *)
(* and keys, any amounts and seed, and any faults: the types, the books,   *)
(* the prices of the trades, the sum of the payouts, and who is paid.      *)
(***************************************************************************)
EXTENDS OptionMarket, SumProofs, TLAPS

-----------------------------------------------------------------------------
(* Types of the requests.                                                  *)

Pcs == Stages \cup Ended

(* Request r goes on, and no other. *)
Moves(r, p, s, t, a) ==
  /\ req' \in [Requests -> Request]
  /\ \A x \in Requests \ {r} : req'[x] = req[x]
  /\ req'[r].pc = p /\ req'[r].seen = s /\ req'[r].pot = t /\ req'[r].attempt = a
  /\ req'[r].user = req[r].user /\ req'[r].key = req[r].key
  /\ req'[r].option = req[r].option /\ req'[r].amount = req[r].amount

Goes(r, p) == Moves(r, p, req[r].seen, req[r].pot, req[r].attempt)

LEMMA SetMoves ==
  ASSUME req \in [Requests -> Request], NEW r \in Requests, NEW q \in Request, SetReq(r, q),
         q.user = req[r].user, q.key = req[r].key, q.option = req[r].option,
         q.amount = req[r].amount
  PROVE  Moves(r, q.pc, q.seen, q.pot, q.attempt)
BY DEF SetReq, Moves

LEMMA GotoMoves ==
  ASSUME req \in [Requests -> Request], NEW r \in Requests, NEW p \in Pcs, Goto(r, p)
  PROVE  Goes(r, p)
<1> DEFINE q == [req[r] EXCEPT !.pc = p]
<1>1. /\ q.pc = p /\ q.seen = req[r].seen /\ q.pot = req[r].pot
      /\ q.attempt = req[r].attempt
  BY DEF Request
<1>2. /\ q.user = req[r].user /\ q.key = req[r].key /\ q.option = req[r].option
      /\ q.amount = req[r].amount
  BY DEF Request
<1>3. q \in Request
  BY DEF Request, Pcs
<1>4. SetReq(r, q)
  BY DEF Goto
<1> HIDE DEF q
<1>5. Moves(r, q.pc, q.seen, q.pot, q.attempt)
  BY <1>2, <1>3, <1>4, SetMoves
<1> QED BY <1>1, <1>5 DEF Goes

LEMMA SeenMoves ==
  ASSUME req \in [Requests -> Request], NEW r \in Requests, NEW s \in Row,
         SetReq(r, [req[r] EXCEPT !.pc = "pot", !.seen = s])
  PROVE  Moves(r, "pot", s, req[r].pot, req[r].attempt)
<1> DEFINE q == [req[r] EXCEPT !.pc = "pot", !.seen = s]
<1>1. q.pc = "pot" /\ q.seen = s /\ q.pot = req[r].pot /\ q.attempt = req[r].attempt
  BY DEF Request
<1>2. /\ q.user = req[r].user /\ q.key = req[r].key /\ q.option = req[r].option
      /\ q.amount = req[r].amount
  BY DEF Request
<1>3. q \in Request
  BY DEF Request, Stages
<1> HIDE DEF q
<1>4. SetReq(r, q)
  BY DEF q
<1>5. Moves(r, q.pc, q.seen, q.pot, q.attempt)
  BY <1>2, <1>3, <1>4, SetMoves
<1> QED BY <1>1, <1>5

LEMMA PotMoves ==
  ASSUME req \in [Requests -> Request], NEW r \in Requests, NEW t \in Nat,
         SetReq(r, [req[r] EXCEPT !.pc = "commit", !.pot = t])
  PROVE  Moves(r, "commit", req[r].seen, t, req[r].attempt)
<1> DEFINE q == [req[r] EXCEPT !.pc = "commit", !.pot = t]
<1>1. q.pc = "commit" /\ q.seen = req[r].seen /\ q.pot = t /\ q.attempt = req[r].attempt
  BY DEF Request
<1>2. /\ q.user = req[r].user /\ q.key = req[r].key /\ q.option = req[r].option
      /\ q.amount = req[r].amount
  BY DEF Request
<1>3. q \in Request
  BY DEF Request, Stages
<1> HIDE DEF q
<1>4. SetReq(r, q)
  BY DEF q
<1>5. Moves(r, q.pc, q.seen, q.pot, q.attempt)
  BY <1>2, <1>3, <1>4, SetMoves
<1> QED BY <1>1, <1>5

LEMMA RetryMoves ==
  ASSUME req \in [Requests -> Request], NEW r \in Requests, NEW a \in Nat,
         SetReq(r, [req[r] EXCEPT !.pc = "read", !.attempt = a])
  PROVE  Moves(r, "read", req[r].seen, req[r].pot, a)
<1> DEFINE q == [req[r] EXCEPT !.pc = "read", !.attempt = a]
<1>1. q.pc = "read" /\ q.seen = req[r].seen /\ q.pot = req[r].pot /\ q.attempt = a
  BY DEF Request
<1>2. /\ q.user = req[r].user /\ q.key = req[r].key /\ q.option = req[r].option
      /\ q.amount = req[r].amount
  BY DEF Request
<1>3. q \in Request
  BY DEF Request, Stages
<1> HIDE DEF q
<1>4. SetReq(r, q)
  BY DEF q
<1>5. Moves(r, q.pc, q.seen, q.pot, q.attempt)
  BY <1>2, <1>3, <1>4, SetMoves
<1> QED BY <1>1, <1>5

LEMMA ReqFacts ==
  ASSUME TypeOK, NEW r \in Requests
  PROVE  /\ req \in [Requests -> Request] /\ req[r] \in Request
         /\ req[r].pc \in Pcs /\ req[r].user \in Users /\ req[r].key \in Keys
         /\ req[r].option \in Options \cup {Elsewhere} /\ req[r].amount \in Amounts
         /\ req[r].seen \in Row /\ req[r].pot \in Nat /\ req[r].attempt \in Nat
         /\ req[r].amount \in Nat /\ req[r].amount # 0
BY OptionMarketAssumption DEF TypeOK, Request, Pcs

-----------------------------------------------------------------------------
(* Types of the consumer.                                                  *)

Turns(p, t, d, s, o, c, b) ==
  /\ con' \in Consumer
  /\ con'.pc = p /\ con'.pot = t /\ con'.todo = d /\ con'.shares = s /\ con'.out = o
  /\ con'.crashes = c /\ con'.before = b

ConPcs == {"pools", "winners", "mark", "losers", "close", "publish", "done"}

LEMMA ConFacts ==
  ASSUME TypeOK
  PROVE  /\ con \in Consumer /\ con.pc \in ConPcs /\ con.pot \in Nat
         /\ con.todo \in SUBSET Holders /\ con.shares \in [Holders -> Nat]
         /\ con.out \in SUBSET Payouts /\ con.crashes \in 0..MaxCrashes /\ con.before \in Nat
BY DEF TypeOK, Consumer, ConPcs

LEMMA PcTurns ==
  ASSUME TypeOK, NEW p \in ConPcs, con' = [con EXCEPT !.pc = p]
  PROVE  Turns(p, con.pot, con.todo, con.shares, con.out, con.crashes, con.before)
<1> DEFINE x == [con EXCEPT !.pc = p]
<1>0. con \in Consumer
  BY ConFacts
<1>1. x.pc = p /\ x.pot = con.pot /\ x.todo = con.todo /\ x.shares = con.shares
  BY <1>0 DEF Consumer
<1>2. x.out = con.out /\ x.crashes = con.crashes /\ x.before = con.before
  BY <1>0 DEF Consumer
<1>3. x \in Consumer
  BY <1>0 DEF Consumer, ConPcs
<1> HIDE DEF x
<1>4. con' = x
  BY DEF x
<1> QED BY <1>1, <1>2, <1>3, <1>4 DEF Turns

LEMMA BeforeTurns ==
  ASSUME TypeOK, NEW b \in Nat, con' = [con EXCEPT !.before = b]
  PROVE  Turns(con.pc, con.pot, con.todo, con.shares, con.out, con.crashes, b)
<1> DEFINE x == [con EXCEPT !.before = b]
<1>0. con \in Consumer
  BY ConFacts
<1>1. x.pc = con.pc /\ x.pot = con.pot /\ x.todo = con.todo /\ x.shares = con.shares
  BY <1>0 DEF Consumer
<1>2. x.out = con.out /\ x.crashes = con.crashes /\ x.before = b
  BY <1>0 DEF Consumer
<1>3. x \in Consumer
  BY <1>0 DEF Consumer
<1> HIDE DEF x
<1>4. con' = x
  BY DEF x
<1> QED BY <1>1, <1>2, <1>3, <1>4 DEF Turns

LEMMA PotTurns ==
  ASSUME TypeOK, NEW p \in ConPcs, NEW t \in Nat, con' = [con EXCEPT !.pc = p, !.pot = t]
  PROVE  Turns(p, t, con.todo, con.shares, con.out, con.crashes, con.before)
<1> DEFINE x == [con EXCEPT !.pc = p, !.pot = t]
<1>0. con \in Consumer
  BY ConFacts
<1>1. x.pc = p /\ x.pot = t /\ x.todo = con.todo /\ x.shares = con.shares
  BY <1>0 DEF Consumer
<1>2. x.out = con.out /\ x.crashes = con.crashes /\ x.before = con.before
  BY <1>0 DEF Consumer
<1>3. x \in Consumer
  BY <1>0 DEF Consumer, ConPcs
<1> HIDE DEF x
<1>4. con' = x
  BY DEF x
<1> QED BY <1>1, <1>2, <1>3, <1>4 DEF Turns

LEMMA SharesTurns ==
  ASSUME TypeOK, NEW d \in SUBSET Holders, NEW s \in [Holders -> Nat],
         con' = [con EXCEPT !.pc = "mark", !.todo = d, !.shares = s]
  PROVE  Turns("mark", con.pot, d, s, con.out, con.crashes, con.before)
<1> DEFINE x == [con EXCEPT !.pc = "mark", !.todo = d, !.shares = s]
<1>0. con \in Consumer
  BY ConFacts
<1>1. x.pc = "mark" /\ x.pot = con.pot /\ x.todo = d /\ x.shares = s
  BY <1>0 DEF Consumer
<1>2. x.out = con.out /\ x.crashes = con.crashes /\ x.before = con.before
  BY <1>0 DEF Consumer
<1>3. x \in Consumer
  BY <1>0 DEF Consumer
<1> HIDE DEF x
<1>4. con' = x
  BY DEF x
<1> QED BY <1>1, <1>2, <1>3, <1>4 DEF Turns

LEMMA OutTurns ==
  ASSUME TypeOK, NEW p \in ConPcs, NEW d \in SUBSET Holders, NEW o \in SUBSET Payouts,
         con' = [con EXCEPT !.pc = p, !.todo = d, !.out = o]
  PROVE  Turns(p, con.pot, d, con.shares, o, con.crashes, con.before)
<1> DEFINE x == [con EXCEPT !.pc = p, !.todo = d, !.out = o]
<1>0. con \in Consumer
  BY ConFacts
<1>1. x.pc = p /\ x.pot = con.pot /\ x.todo = d /\ x.shares = con.shares
  BY <1>0 DEF Consumer
<1>2. x.out = o /\ x.crashes = con.crashes /\ x.before = con.before
  BY <1>0 DEF Consumer
<1>3. x \in Consumer
  BY <1>0 DEF Consumer, ConPcs
<1> HIDE DEF x
<1>4. con' = x
  BY DEF x
<1> QED BY <1>1, <1>2, <1>3, <1>4 DEF Turns

LEMMA LosersOutTurns ==
  ASSUME TypeOK, NEW o \in SUBSET Payouts, con' = [con EXCEPT !.pc = "close", !.out = o]
  PROVE  Turns("close", con.pot, con.todo, con.shares, o, con.crashes, con.before)
<1> DEFINE x == [con EXCEPT !.pc = "close", !.out = o]
<1>0. con \in Consumer
  BY ConFacts
<1>1. x.pc = "close" /\ x.pot = con.pot /\ x.todo = con.todo /\ x.shares = con.shares
  BY <1>0 DEF Consumer
<1>2. x.out = o /\ x.crashes = con.crashes /\ x.before = con.before
  BY <1>0 DEF Consumer
<1>3. x \in Consumer
  BY <1>0 DEF Consumer
<1> HIDE DEF x
<1>4. con' = x
  BY DEF x
<1> QED BY <1>1, <1>2, <1>3, <1>4 DEF Turns

LEMMA CrashTurns ==
  ASSUME TypeOK, Crash
  PROVE  Turns("pools", 0, {}, [h \in Holders |-> 0], {}, con.crashes + 1, con.before)
<1>1. PICK n \in 0..MaxCrashes : n = con.crashes + 1
  <2>1. con.crashes \in 0..MaxCrashes /\ con.crashes < MaxCrashes /\ MaxCrashes \in Nat
    BY ConFacts, OptionMarketAssumption DEF Crash
  <2> QED BY <2>1
<1>2. PICK b \in Nat : b = con.before
  BY ConFacts
<1>3. con' = [Waiting EXCEPT !.crashes = n, !.before = b]
  BY <1>1, <1>2 DEF Crash
<1>4. con' = [pc |-> "pools", pot |-> 0, todo |-> {}, shares |-> [h \in Holders |-> 0],
              out |-> {}, crashes |-> n, before |-> b]
  BY <1>3 DEF Waiting
<1>5. con' \in Consumer
  BY <1>4 DEF Consumer
<1> QED BY <1>1, <1>2, <1>4, <1>5 DEF Turns

-----------------------------------------------------------------------------
(* Finite sets and the sums over them.                                     *)

LEMMA HolderSets ==
  /\ IsFiniteSet(Holders) /\ IsFiniteSet(Options) /\ IsFiniteSet(Users)
  /\ \A o \in Options : Of(o) \in SUBSET Holders
  /\ Pools \in SUBSET Options /\ IsFiniteSet(Pools)
<1>1. IsFiniteSet(Users) /\ IsFiniteSet(Options)
  BY OptionMarketAssumption
<1>2. IsFiniteSet(Holders)
  BY <1>1, FS_Product DEF Holders
<1>3. \A o \in Options : Of(o) \in SUBSET Holders
  BY DEF Of, Holders
<1>4. Pools \in SUBSET Options
  BY DEF Pools
<1> QED BY <1>1, <1>2, <1>3, <1>4, FS_Subset

LEMMA Facts ==
  ASSUME TypeOK
  PROVE  /\ pool \in [Options -> Row] /\ position \in [Holders -> Held]
         /\ trades \in Seq(Trade) /\ charged \in [Keys -> Nat] /\ held \in [Requests -> -1..1]
         /\ winner \in Options /\ fanout \in SUBSET Payouts
         /\ paid \in [Holders -> Nat \cup {None}]
         /\ status \in {"DRAFT", "ACTIVE", "RESOLVED", "CANCELLED"}
BY DEF TypeOK

LEMMA PotType ==
  ASSUME TypeOK
  PROVE  /\ Pot \in Nat
         /\ \A S \in SUBSET Options : Sums([o \in Options |-> pool[o].kes], S)
<1>1. \A o \in Options : pool[o].kes \in Nat
  BY Facts DEF Row
<1> DEFINE f == [o \in Options |-> pool[o].kes]
<1>2. \A o \in Options : f[o] \in Nat
  BY <1>1
<1>3. SumFunctionOnSet(f, Pools) \in Nat
  <2>1. \A o \in Pools : f[o] \in Nat
    BY <1>2, HolderSets
  <2> HIDE DEF f
  <2> QED BY <2>1, HolderSets, SumNat
<1>4. \A S \in SUBSET Options : Sums(f, S)
  BY <1>2, HolderSets, FS_Subset DEF Sums
<1> QED BY <1>3, <1>4 DEF Pot

SharesSum == SumFunctionOnSet(con.shares, Holders)

LEMMA SharesType ==
  ASSUME TypeOK
  PROVE  SharesSum \in Nat /\ Sums(con.shares, Holders)
<1>1. \A h \in Holders : con.shares[h] \in Nat
  BY ConFacts
<1>2. SumFunctionOnSet(con.shares, Holders) \in Nat
  BY <1>1, HolderSets, SumNat
<1>3. Sums(con.shares, Holders)
  BY <1>1, HolderSets DEF Sums
<1> QED BY <1>2, <1>3 DEF SharesSum

LEMMA NatDivided ==
  ASSUME NEW a \in Nat, NEW b \in Nat, NEW d \in Nat, d # 0
  PROVE  /\ (a * b) \div d \in Nat
         /\ d * ((a * b) \div d) <= a * b
<1>1. PICK c \in Nat : c = a * b
  OBVIOUS
<1>2. c \div d \in Nat /\ d * (c \div d) <= c
  BY Quotient
<1> QED BY <1>1, <1>2

LEMMA PayoutType ==
  ASSUME TypeOK, SharesSum > 0, NEW h \in Holders
  PROVE  /\ payoutKes(h) \in Nat
         /\ SharesSum * payoutKes(h) <= con.shares[h] * con.pot
<1>1. con.shares[h] \in Nat /\ con.pot \in Nat /\ SharesSum \in Nat /\ SharesSum # 0
  BY ConFacts, SharesType
<1>2. payoutKes(h) = (con.shares[h] * con.pot) \div SharesSum
  BY DEF payoutKes, SharesSum
<1> HIDE DEF SharesSum
<1> QED BY <1>1, <1>2, NatDivided

-----------------------------------------------------------------------------
(* What each step of the consumer makes of it.                             *)

LEMMA OpenType == \A H \in SUBSET Holders : Open(H) \in SUBSET Holders
BY DEF Open

LEMMA ReadPoolsTurns ==
  ASSUME TypeOK, ReadPools
  PROVE  \E p \in {"done", "winners"} :
           Turns(p, Pot, con.todo, con.shares, con.out, con.crashes, con.before)
<1>1. PICK p \in ConPcs : p = (IF Pools = {} THEN "done" ELSE "winners")
  BY DEF ConPcs
<1>2. PICK t \in Nat : t = Pot
  BY PotType
<1>3. con' = [con EXCEPT !.pc = p, !.pot = t]
  BY <1>1, <1>2 DEF ReadPools
<1>4. Turns(p, t, con.todo, con.shares, con.out, con.crashes, con.before)
  BY <1>3, PotTurns
<1>5. p \in {"done", "winners"}
  BY <1>1
<1> QED BY <1>2, <1>4, <1>5

(* The shares that are read, and that there is one. *)
ReadShares(W) == [h \in Holders |-> IF h \in W THEN position[h].cost ELSE 0]

LEMMA FindWinnersTurns ==
  ASSUME TypeOK, FindWinners
  PROVE  \/ /\ Open(Of(winner)) = {}
            /\ Turns("done", con.pot, con.todo, con.shares, con.out, con.crashes, con.before)
         \/ /\ Open(Of(winner)) # {} /\ SharesSum' > 0
            /\ Turns("mark", con.pot, Open(Of(winner)), ReadShares(Open(Of(winner))), con.out,
                     con.crashes, con.before)
<1>1. PICK W \in SUBSET Holders : W = Open(Of(winner))
  BY OpenType, HolderSets, Facts
<1>2. PICK s \in [Holders -> Nat] : s = ReadShares(W)
  <2>1. \A h \in Holders : position[h].cost \in Nat
    BY Facts DEF Held
  <2> QED BY <2>1 DEF ReadShares
<1>3. con' = IF W = {} THEN [con EXCEPT !.pc = "done"]
             ELSE [con EXCEPT !.pc = "mark", !.todo = W, !.shares = s]
  BY <1>1, <1>2 DEF FindWinners, ReadShares
<1>4. CASE W = {}
  BY <1>1, <1>3, <1>4, PcTurns DEF ConPcs
<1>5. CASE W # {}
  <2>1. Turns("mark", con.pot, W, s, con.out, con.crashes, con.before)
    BY <1>3, <1>5, SharesTurns
  <2>2. PICK h \in W : TRUE
    BY <1>5
  <2>3. s[h] \in Nat /\ s[h] > 0
    BY <1>1, <1>2, <2>2 DEF Open, ReadShares
  <2>4. s[h] <= SumFunctionOnSet(s, Holders) /\ SumFunctionOnSet(s, Holders) \in Nat
    <3>1. \A y \in Holders : s[y] \in Nat
      OBVIOUS
    <3>2. h \in Holders
      BY <2>2
    <3> QED BY <3>1, <3>2, SumAtLeast, SumNat, HolderSets
  <2>5. SharesSum' > 0
    BY <2>1, <2>3, <2>4 DEF SharesSum, Turns, Holders
  <2> QED BY <1>1, <1>2, <1>5, <2>1, <2>5
<1> QED BY <1>4, <1>5

LEMMA MarkTurns ==
  ASSUME TypeOK, SharesSum > 0, MarkWinner
  PROVE  \E h \in con.todo :
           /\ position' = [position EXCEPT ![h] = Settled(h, payoutKes(h))]
           /\ \E p \in {"losers", "mark"} :
                /\ p = "losers" <=> con.todo = {h}
                /\ Turns(p, con.pot, con.todo \ {h}, con.shares,
                         con.out \cup {[holder |-> h, amount |-> payoutKes(h)]},
                         con.crashes, con.before)
<1>1. PICK h \in con.todo :
           /\ position' = [position EXCEPT ![h] = Settled(h, payoutKes(h))]
           /\ con' = [con EXCEPT !.pc = IF con.todo = {h} THEN "losers" ELSE "mark",
                                 !.todo = con.todo \ {h},
                                 !.out = con.out \cup {[holder |-> h, amount |-> payoutKes(h)]}]
  BY DEF MarkWinner
<1>2. PICK p \in ConPcs : p = (IF con.todo = {h} THEN "losers" ELSE "mark")
  BY DEF ConPcs
<1>3. PICK d \in SUBSET Holders : d = con.todo \ {h}
  BY ConFacts
<1>4. PICK o \in SUBSET Payouts : o = con.out \cup {[holder |-> h, amount |-> payoutKes(h)]}
  <2>1. h \in Holders /\ con.out \in SUBSET Payouts
    BY ConFacts
  <2>2. payoutKes(h) \in Nat
    BY <2>1, PayoutType
  <2>3. [holder |-> h, amount |-> payoutKes(h)] \in Payouts
    BY <2>1, <2>2 DEF Payouts
  <2> QED BY <2>1, <2>3
<1>5. con' = [con EXCEPT !.pc = p, !.todo = d, !.out = o]
  BY <1>1, <1>2, <1>3, <1>4
<1>6. Turns(p, con.pot, d, con.shares, o, con.crashes, con.before)
  BY <1>5, OutTurns
<1>7. p \in {"losers", "mark"} /\ (p = "losers" <=> con.todo = {h})
  BY <1>2
<1> QED BY <1>1, <1>3, <1>4, <1>6, <1>7

LEMMA FindLosersTurns ==
  ASSUME TypeOK, FindLosers
  PROVE  Turns("close", con.pot, con.todo, con.shares,
               con.out \cup [holder: Open(Losing), amount: {0}], con.crashes, con.before)
<1>1. PICK o \in SUBSET Payouts : o = con.out \cup [holder: Open(Losing), amount: {0}]
  <2>1. con.out \in SUBSET Payouts /\ Open(Losing) \in SUBSET Holders
    BY ConFacts, OpenType DEF Losing
  <2>2. [holder: Open(Losing), amount: {0}] \in SUBSET Payouts
    BY <2>1 DEF Payouts
  <2> QED BY <2>1, <2>2
<1>2. con' = [con EXCEPT !.pc = "close", !.out = o]
  BY <1>1 DEF FindLosers
<1>3. Turns("close", con.pot, con.todo, con.shares, o, con.crashes, con.before)
  BY <1>2, LosersOutTurns
<1> QED BY <1>1, <1>3

LEMMA Finishes ==
  ASSUME TypeOK, PublishSettlements \/ RefundMarket
  PROVE  Turns("done", con.pot, con.todo, con.shares, con.out, con.crashes, con.before)
BY PcTurns DEF PublishSettlements, RefundMarket, ConPcs

LEMMA CloseTurns ==
  ASSUME TypeOK, CloseLosers
  PROVE  Turns("publish", con.pot, con.todo, con.shares, con.out, con.crashes, con.before)
BY PcTurns DEF CloseLosers, ConPcs

LEMMA VerdictTurns ==
  ASSUME TypeOK, Verdict
  PROVE  Turns(con.pc, con.pot, con.todo, con.shares, con.out, con.crashes, Len(trades))
<1>1. PICK n \in Nat : n = Len(trades)
  BY Facts
<1>2. con' = [con EXCEPT !.before = n]
  BY <1>1 DEF Verdict
<1>3. Turns(con.pc, con.pot, con.todo, con.shares, con.out, con.crashes, n)
  BY <1>2, BeforeTurns
<1> QED BY <1>1, <1>3

-----------------------------------------------------------------------------
(* What each step of a request does, but for the transaction.              *)

Offered(o) == o \in Options /\ pool[o].exists

(* The steps that change nothing but the place in the handler. *)
Onward == {<<"lookup", "pool">>, <<"lookup", "returned">>, <<"lookup", "rejected">>,
           <<"pool", "rejected">>, <<"check", "reserve">>, <<"check", "rejected">>,
           <<"reserve", "rejected">>, <<"commit", "release">>, <<"debit", "release">>,
           <<"notify", "confirmed">>, <<"notify", "release">>}

Passes(r) ==
  /\ UNCHANGED wallet
  /\ \/ \E p \in Pcs : <<req[r].pc, p>> \in Onward /\ Goes(r, p)
     \/ req[r].pc = "pool" /\ Offered(req[r].option) /\ Goes(r, "check")
     \/ req[r].pc = "commit" /\ \E a \in Nat : Moves(r, "read", req[r].seen, req[r].pot, a)

Reads(r) ==
  /\ UNCHANGED wallet
  /\ \/ /\ req[r].pc = "read" /\ req[r].option \in Options
        /\ Moves(r, "pot", pool[req[r].option], req[r].pot, req[r].attempt)
     \/ req[r].pc = "pot" /\ Moves(r, "commit", req[r].seen, Pot, req[r].attempt)

Reserves(r) ==
  /\ req[r].pc = "reserve" /\ Goes(r, "read")
  /\ held' = [held EXCEPT ![r] = held[r] + 1] /\ UNCHANGED charged

Charges(r) ==
  /\ req[r].pc = "debit" /\ Goes(r, "settle")
  /\ charged' = [charged EXCEPT ![req[r].key] = charged[req[r].key] + 1] /\ UNCHANGED held

Releases(r) ==
  /\ \/ req[r].pc = "settle" /\ Goes(r, "notify")
     \/ req[r].pc = "release" /\ Goes(r, "failed")
  /\ held' = [held EXCEPT ![r] = held[r] - 1] \/ UNCHANGED held
  /\ UNCHANGED charged

OfferedInv ==
  \A r \in Requests : req[r].pc \in Stages \ {"lookup", "pool"} => Offered(req[r].option)

LEMMA PassSteps ==
  ASSUME TypeOK, NEW r \in Requests,
         \/ Lookup(r) \/ FindPool(r) \/ assertMarketActive(r) \/ CommitFails(r) \/ Announce(r)
  PROVE  Passes(r) /\ UNCHANGED <<faults, market, books, end>>
<1>0. req \in [Requests -> Request] /\ req[r].attempt \in Nat
  BY ReqFacts
<1>1. UNCHANGED wallet /\ UNCHANGED <<faults, market, books, end>>
  BY DEF Lookup, FindPool, assertMarketActive, CommitFails, Announce, Aside
<1>2. CASE Lookup(r)
  <2>1. PICK p \in {"pool", "returned", "rejected"} : Goto(r, p)
    BY <1>2 DEF Lookup
  <2>2. p \in Pcs /\ <<req[r].pc, p>> \in Onward
    BY <1>2 DEF Lookup, At, Onward, Pcs, Stages, Ended
  <2> QED BY <1>0, <1>1, <2>1, <2>2, GotoMoves DEF Passes
<1>3. CASE FindPool(r)
  <2>1. CASE req[r].option \in Pools
    <3>1. Goto(r, "check") /\ "check" \in Pcs
      BY <1>3, <2>1 DEF FindPool, Pcs, Stages
    <3>2. Goes(r, "check")
      BY <1>0, <3>1, GotoMoves
    <3> QED BY <1>1, <1>3, <2>1, <3>2 DEF Passes, FindPool, At, Pools, Offered
  <2>2. CASE req[r].option \notin Pools
    <3>1. Goto(r, "rejected") /\ "rejected" \in Pcs
      BY <1>3, <2>2 DEF FindPool, Pcs, Ended
    <3>2. <<req[r].pc, "rejected">> \in Onward
      BY <1>3 DEF FindPool, At, Onward
    <3> QED BY <1>0, <1>1, <3>1, <3>2, GotoMoves DEF Passes
  <2> QED BY <2>1, <2>2
<1>4. CASE assertMarketActive(r)
  <2>1. PICK p \in {"reserve", "rejected"} : Goto(r, p)
    BY <1>4 DEF assertMarketActive
  <2>2. p \in Pcs /\ <<req[r].pc, p>> \in Onward
    BY <1>4 DEF assertMarketActive, At, Onward, Pcs, Stages, Ended
  <2> QED BY <1>0, <1>1, <2>1, <2>2, GotoMoves DEF Passes
<1>5. CASE CommitFails(r)
  <2>1. CASE MayRetry(r)
    <3>1. PICK a \in Nat : a = req[r].attempt + 1
      BY <1>0
    <3>2. SetReq(r, [req[r] EXCEPT !.pc = "read", !.attempt = a])
      BY <1>5, <2>1, <3>1 DEF CommitFails
    <3>3. Moves(r, "read", req[r].seen, req[r].pot, a)
      BY <1>0, <3>2, RetryMoves
    <3> QED BY <1>1, <1>5, <3>3 DEF Passes, CommitFails, At
  <2>2. CASE ~MayRetry(r)
    <3>1. Goto(r, "release") /\ "release" \in Pcs
      BY <1>5, <2>2 DEF CommitFails, Pcs, Stages
    <3>2. <<req[r].pc, "release">> \in Onward
      BY <1>5 DEF CommitFails, At, Onward
    <3> QED BY <1>0, <1>1, <3>1, <3>2, GotoMoves DEF Passes
  <2> QED BY <2>1, <2>2
<1>6. CASE Announce(r)
  <2>1. PICK p \in {"confirmed", "release"} : Goto(r, p)
    BY <1>6 DEF Announce
  <2>2. p \in Pcs /\ <<req[r].pc, p>> \in Onward
    BY <1>6 DEF Announce, At, Onward, Pcs, Stages, Ended
  <2> QED BY <1>0, <1>1, <2>1, <2>2, GotoMoves DEF Passes
<1> QED BY <1>2, <1>3, <1>4, <1>5, <1>6

LEMMA WalletSteps ==
  ASSUME TypeOK, NEW r \in Requests,
         ReserveWalletFunds(r) \/ ConfirmWalletDebit(r) \/ ReleaseWalletReserve(r)
  PROVE  /\ Passes(r) \/ Reserves(r) \/ Charges(r) \/ Releases(r)
         /\ UNCHANGED <<faults, market, books, end>>
<1>0. req \in [Requests -> Request]
  BY ReqFacts
<1>1. UNCHANGED <<faults, market, books, end>>
  BY DEF ReserveWalletFunds, ConfirmWalletDebit, ReleaseWalletReserve, Aside
<1>2. {"read", "rejected", "settle", "release", "notify", "failed"} \subseteq Pcs
  BY DEF Pcs, Stages, Ended
<1>3. /\ Goto(r, "read") => Goes(r, "read")
      /\ Goto(r, "rejected") => Goes(r, "rejected")
      /\ Goto(r, "settle") => Goes(r, "settle")
      /\ Goto(r, "release") => Goes(r, "release")
      /\ Goto(r, "notify") => Goes(r, "notify")
      /\ Goto(r, "failed") => Goes(r, "failed")
  BY <1>0, <1>2, GotoMoves
<1>4. CASE ReserveWalletFunds(r)
  <2>1. <<req[r].pc, "rejected">> \in Onward /\ req[r].pc = "reserve"
    BY <1>4 DEF ReserveWalletFunds, At, Onward
  <2>2. CASE held' = [held EXCEPT ![r] = held[r] + 1] /\ Goto(r, "read")
    <3>1. Reserves(r)
      BY <1>3, <1>4, <2>1, <2>2 DEF Reserves, ReserveWalletFunds
    <3> QED BY <1>1, <3>1
  <2>3. CASE Goto(r, "rejected") /\ UNCHANGED held
    <3>1. UNCHANGED wallet
      BY <1>4, <2>3 DEF ReserveWalletFunds, wallet
    <3>2. Goes(r, "rejected") /\ "rejected" \in Pcs
      BY <1>2, <1>3, <2>3
    <3> QED BY <1>1, <2>1, <3>1, <3>2 DEF Passes
  <2> QED BY <1>4, <2>2, <2>3 DEF ReserveWalletFunds
<1>5. CASE ConfirmWalletDebit(r)
  <2>1. <<req[r].pc, "release">> \in Onward /\ req[r].pc = "debit"
    BY <1>5 DEF ConfirmWalletDebit, At, Onward
  <2>2. CASE /\ charged' = [charged EXCEPT ![req[r].key] = charged[req[r].key] + 1]
             /\ Goto(r, "settle")
    <3>1. Charges(r)
      BY <1>3, <1>5, <2>1, <2>2 DEF Charges, ConfirmWalletDebit
    <3> QED BY <1>1, <3>1
  <2>3. CASE Goto(r, "release") /\ UNCHANGED charged
    <3>1. UNCHANGED wallet
      BY <1>5, <2>3 DEF ConfirmWalletDebit, wallet
    <3>2. Goes(r, "release") /\ "release" \in Pcs
      BY <1>2, <1>3, <2>3
    <3> QED BY <1>1, <2>1, <3>1, <3>2 DEF Passes
  <2> QED BY <1>5, <2>2, <2>3 DEF ConfirmWalletDebit
<1>6. CASE ReleaseWalletReserve(r)
  <2>1. CASE At(r, "settle")
    <3>1. Goes(r, "notify") /\ req[r].pc = "settle"
      BY <1>3, <1>6, <2>1 DEF ReleaseWalletReserve, At
    <3> QED BY <1>1, <1>6, <3>1 DEF Releases, ReleaseWalletReserve
  <2>2. CASE ~At(r, "settle")
    <3>1. Goes(r, "failed") /\ req[r].pc = "release"
      BY <1>3, <1>6, <2>2 DEF ReleaseWalletReserve, At
    <3> QED BY <1>1, <1>6, <3>1 DEF Releases, ReleaseWalletReserve
  <2> QED BY <2>1, <2>2
<1> QED BY <1>4, <1>5, <1>6

LEMMA ReadSteps ==
  ASSUME TypeOK, OfferedInv, NEW r \in Requests, ReadPool(r) \/ ReadPot(r)
  PROVE  Reads(r) /\ UNCHANGED <<faults, market, books, end>>
<1>0. req \in [Requests -> Request] /\ pool \in [Options -> Row]
  BY ReqFacts, Facts
<1>1. UNCHANGED wallet /\ UNCHANGED <<faults, market, books, end>>
  BY DEF ReadPool, ReadPot, Aside
<1>2. CASE ReadPool(r)
  <2>1. req[r].pc = "read" /\ req[r].option \in Options
    BY <1>2 DEF ReadPool, At, OfferedInv, Offered, Stages
  <2>2. PICK s \in Row : s = pool[req[r].option]
    BY <1>0, <2>1
  <2>3. SetReq(r, [req[r] EXCEPT !.pc = "pot", !.seen = s])
    BY <1>2, <2>2 DEF ReadPool
  <2>4. Moves(r, "pot", s, req[r].pot, req[r].attempt)
    BY <1>0, <2>3, SeenMoves
  <2> QED BY <1>1, <2>1, <2>2, <2>4 DEF Reads
<1>3. CASE ReadPot(r)
  <2>1. PICK t \in Nat : t = Pot
    BY PotType
  <2>2. SetReq(r, [req[r] EXCEPT !.pc = "commit", !.pot = t])
    BY <1>3, <2>1 DEF ReadPot
  <2>3. Moves(r, "commit", req[r].seen, t, req[r].attempt)
    BY <1>0, <2>2, PotMoves
  <2> QED BY <1>1, <1>3, <2>1, <2>3 DEF Reads, ReadPot, At
<1> QED BY <1>2, <1>3

(* Every step of a request but the transaction is one of these. *)
LEMMA HandlerSteps ==
  ASSUME TypeOK, OfferedInv, NEW r \in Requests, Handle(r), ~CommitTrade(r)
  PROVE  /\ Passes(r) \/ Reads(r) \/ Reserves(r) \/ Charges(r) \/ Releases(r)
         /\ UNCHANGED <<faults, market, books, end>>
BY PassSteps, WalletSteps, ReadSteps DEF Handle

(* The transaction. *)
Commits(r, o, h) ==
  /\ o = req[r].option /\ o \in Options /\ h = <<req[r].user, o>> /\ h \in Holders
  /\ req[r].pc = "commit" /\ Goes(r, "debit")
  /\ pool[o].version = req[r].seen.version
  /\ TradesOf(req[r].key) = {}
  /\ pool' \in [Options -> Row] /\ pool'[o].exists
  /\ pool'[o].kes = pool[o].kes + req[r].amount /\ pool'[o].version = pool[o].version + 1
  /\ \A x \in Options \ {o} : pool'[x] = pool[x]
  /\ position' \in [Holders -> Held]
  /\ position'[h].cost = position[h].cost + req[r].amount
  /\ position'[h].settled = position[h].settled /\ position'[h].payout = position[h].payout
  /\ \A x \in Holders \ {h} : position'[x] = position[x]
  /\ UNCHANGED <<faults, market, wallet, end>>

(* The trade that it appends. *)
TradeOf(r) ==
  [key |-> req[r].key, user |-> req[r].user, option |-> req[r].option,
   amount |-> req[r].amount, own |-> req[r].seen.kes, pot |-> req[r].pot]

Appends(n, t) ==
  /\ t \in Trade /\ n \in Nat /\ Len(trades) = n /\ Len(trades') = n + 1
  /\ trades \in Seq(Trade) /\ trades' \in Seq(Trade)
  /\ trades'[n + 1] = t /\ \A i \in 1..n : trades'[i] = trades[i] /\ trades[i] \in Trade

LEMMA CommitSteps ==
  ASSUME TypeOK, OfferedInv, NEW r \in Requests, CommitTrade(r)
  PROVE  /\ Commits(r, req[r].option, <<req[r].user, req[r].option>>)
         /\ Appends(Len(trades), TradeOf(r))
<1> DEFINE o == req[r].option
           h == <<req[r].user, o>>
           a == req[r].amount
           x == [exists |-> TRUE, kes |-> pool[o].kes + a, version |-> pool[o].version + 1]
           y == [position[h] EXCEPT !.cost = position[h].cost + a]
<1>0. /\ req \in [Requests -> Request] /\ pool \in [Options -> Row]
      /\ position \in [Holders -> Held] /\ trades \in Seq(Trade)
  BY ReqFacts, Facts
<1>1. /\ req[r].pc = "commit" /\ o \in Options /\ req[r].user \in Users /\ a \in Nat
      /\ req[r].amount \in Amounts /\ req[r].key \in Keys /\ req[r].seen \in Row
      /\ req[r].pot \in Nat
  BY ReqFacts DEF CommitTrade, At, OfferedInv, Offered, Stages
<1>2. h \in Holders
  BY <1>1 DEF Holders
<1>3. Goes(r, "debit")
  BY <1>0, GotoMoves DEF CommitTrade, Pcs, Stages
<1>4. pool[o].version = req[r].seen.version /\ TradesOf(req[r].key) = {}
  BY DEF CommitTrade, VersionMatches
<1>5. UNCHANGED <<faults, market, wallet, end>>
  BY DEF CommitTrade, Aside
<1>6. /\ pool' = [pool EXCEPT ![o] = x] /\ x \in Row
      /\ x.exists /\ x.kes = pool[o].kes + a /\ x.version = pool[o].version + 1
  <2>1. pool[o].kes \in Nat /\ pool[o].version \in Nat
    BY <1>0, <1>1 DEF Row
  <2>2. x \in Row
    BY <1>1, <2>1 DEF Row
  <2> QED BY <2>2 DEF CommitTrade
<1>7. /\ position' = [position EXCEPT ![h] = y] /\ y \in Held
      /\ y.cost = position[h].cost + a
      /\ y.settled = position[h].settled /\ y.payout = position[h].payout
  <2>1. position[h] \in Held
    BY <1>0, <1>2
  <2>2. y \in Held
    BY <1>1, <2>1 DEF Held
  <2>3. /\ y.cost = position[h].cost + a
        /\ y.settled = position[h].settled /\ y.payout = position[h].payout
    BY <2>1 DEF Held
  <2> QED BY <2>2, <2>3 DEF CommitTrade, PositionAfter
<1> HIDE DEF x, y
<1>8. /\ pool' \in [Options -> Row] /\ pool'[o] = x
      /\ \A z \in Options \ {o} : pool'[z] = pool[z]
  BY <1>0, <1>1, <1>6
<1>9. /\ position' \in [Holders -> Held] /\ position'[h] = y
      /\ \A z \in Holders \ {h} : position'[z] = position[z]
  BY <1>0, <1>2, <1>7
<1>10. Commits(r, o, h)
  BY <1>1, <1>2, <1>3, <1>4, <1>5, <1>6, <1>7, <1>8, <1>9 DEF Commits
<1>11. Appends(Len(trades), TradeOf(r))
  <2>1. TradeOf(r) \in Trade
    BY <1>1 DEF TradeOf, Trade, Row
  <2>2. trades' = Append(trades, TradeOf(r))
    BY DEF CommitTrade, TradeOf
  <2>3. PICK n \in Nat : n = Len(trades)
    BY <1>0
  <2> HIDE DEF TradeOf
  <2>4. /\ Len(trades') = n + 1 /\ trades' \in Seq(Trade)
        /\ trades'[n + 1] = TradeOf(r)
        /\ \A i \in 1..n : trades'[i] = trades[i] /\ trades[i] \in Trade
    BY <1>0, <2>1, <2>2, <2>3
  <2> QED BY <1>0, <2>1, <2>3, <2>4 DEF Appends
<1> QED BY <1>10, <1>11

-----------------------------------------------------------------------------
(* Type correctness, with what it rests on: how much a request holds where *)
(* it is, that it is at an option of this market, and that a settlement    *)
(* divides by a sum of shares that is not zero.                            *)

HeldInv ==
  \A r \in Requests :
    /\ req[r].pc \in {"lookup", "pool", "check", "reserve", "rejected", "returned"} => held[r] = 0
    /\ req[r].pc \in {"read", "pot", "commit", "debit", "settle"} => held[r] = 1
    /\ req[r].pc \in {"notify", "confirmed", "release"} => held[r] \in 0..1

Divides == con.pc \in {"mark", "losers", "close", "publish"} => SharesSum > 0

TInv == TypeOK /\ HeldInv /\ OfferedInv /\ Divides

LEMMA InitTInv == Init => TInv
<1> SUFFICES ASSUME Init PROVE TInv
  OBVIOUS
<1>1. TypeOK
  <2>1. req \in [Requests -> Request]
    <3>1. Submissions \subseteq Request
      <4>1. NoRow \in Row
        BY DEF NoRow, Row
      <4> QED BY <4>1 DEF Submissions, Request, Stages
    <3> QED BY <3>1 DEF Init
  <2>2. con \in Consumer
    BY OptionMarketAssumption DEF Init, Waiting, Consumer
  <2>3. pool \in [Options -> Row] /\ position \in [Holders -> Held]
    BY DEF Init, NoRow, Row, Held
  <2>4. winner \in Options
    BY OptionMarketAssumption DEF Init
  <2> QED BY <2>1, <2>2, <2>3, <2>4 DEF Init, TypeOK
<1>2. \A r \in Requests : req[r].pc = "lookup" /\ held[r] = 0
  BY DEF Init, Submissions
<1>3. HeldInv
  BY <1>2 DEF HeldInv
<1>4. OfferedInv
  BY <1>2 DEF OfferedInv
<1>5. Divides
  BY DEF Init, Waiting, Divides
<1> QED BY <1>1, <1>3, <1>4, <1>5 DEF TInv

(* What a step of one request leaves to show. *)
LEMMA HeldMoves ==
  ASSUME TInv, NEW r \in Requests,
         \A x \in Requests \ {r} : req'[x] = req[x] /\ held'[x] = held[x],
         /\ req'[r].pc \in {"lookup", "pool", "check", "reserve", "rejected", "returned"}
              => held'[r] = 0
         /\ req'[r].pc \in {"read", "pot", "commit", "debit", "settle"} => held'[r] = 1
         /\ req'[r].pc \in {"notify", "confirmed", "release"} => held'[r] \in 0..1
  PROVE  HeldInv'
BY DEF TInv, HeldInv

LEMMA OfferedMoves ==
  ASSUME TInv, NEW r \in Requests,
         \A x \in Requests \ {r} : req'[x] = req[x],
         \A o \in Options : pool[o].exists => pool'[o].exists,
         req'[r].option = req[r].option,
         req'[r].pc \in Stages \ {"lookup", "pool"} =>
           \/ req[r].pc \in Stages \ {"lookup", "pool"}
           \/ Offered(req[r].option)
  PROVE  OfferedInv'
BY DEF TInv, OfferedInv, Offered

LEMMA HandleTypes ==
  ASSUME TInv, NEW r \in Requests, Handle(r), ~CommitTrade(r)
  PROVE  TInv'
<1>0. TypeOK /\ HeldInv /\ OfferedInv /\ Divides
  BY DEF TInv
<1>1. /\ Passes(r) \/ Reads(r) \/ Reserves(r) \/ Charges(r) \/ Releases(r)
      /\ UNCHANGED <<faults, market, books, end>>
  BY <1>0, HandlerSteps
<1>2. /\ held \in [Requests -> -1..1] /\ charged \in [Keys -> Nat]
      /\ req[r].key \in Keys /\ req[r].pc \in Pcs
  BY <1>0, Facts, ReqFacts
<1>3. ASSUME req' \in [Requests -> Request], HeldInv', OfferedInv',
             held' \in [Requests -> -1..1], charged' \in [Keys -> Nat]
      PROVE  TInv'
  BY <1>0, <1>1, <1>3 DEF TInv, TypeOK, Divides, SharesSum, Holders, market, books, end
<1>4. CASE Passes(r)
  <2>1. PICK p, s, t, a : Moves(r, p, s, t, a)
    BY <1>4 DEF Passes, Goes
  <2>2. \/ <<req[r].pc, req'[r].pc>> \in Onward
        \/ req[r].pc = "pool" /\ Offered(req[r].option) /\ req'[r].pc = "check"
        \/ req[r].pc = "commit" /\ req'[r].pc = "read"
    BY <1>4 DEF Passes, Goes, Moves
  <2>3. HeldInv'
    BY <1>0, <1>4, <2>1, <2>2, HeldMoves DEF Onward, Passes, Moves, HeldInv, TInv, wallet
  <2>4. OfferedInv'
    BY <1>0, <1>1, <2>1, <2>2, OfferedMoves DEF Onward, Moves, TInv, Stages, books
  <2> QED BY <1>2, <1>3, <1>4, <2>1, <2>3, <2>4 DEF Passes, Moves, wallet
<1>5. CASE Reads(r)
  <2>1. PICK p, s, t, a : Moves(r, p, s, t, a)
    BY <1>5 DEF Reads, Goes
  <2>2. \/ req[r].pc = "read" /\ req'[r].pc = "pot"
        \/ req[r].pc = "pot" /\ req'[r].pc = "commit"
    BY <1>5 DEF Reads, Goes, Moves
  <2>3. HeldInv'
    BY <1>0, <1>5, <2>1, <2>2, HeldMoves DEF Reads, Moves, HeldInv, TInv, wallet
  <2>4. OfferedInv'
    BY <1>0, <1>1, <2>1, <2>2, OfferedMoves DEF Moves, TInv, Stages, books
  <2> QED BY <1>2, <1>3, <1>5, <2>1, <2>3, <2>4 DEF Reads, Moves, wallet
<1>6. CASE Reserves(r)
  <2>1. req[r].pc = "reserve" /\ Goes(r, "read") /\ held[r] = 0
    BY <1>0, <1>6 DEF Reserves, HeldInv
  <2>2. held' \in [Requests -> -1..1] /\ held'[r] = 1
        /\ \A x \in Requests \ {r} : held'[x] = held[x]
    BY <1>2, <1>6, <2>1 DEF Reserves
  <2>3. HeldInv'
    BY <1>0, <2>1, <2>2, HeldMoves DEF Goes, Moves, TInv
  <2>4. OfferedInv'
    BY <1>0, <1>1, <2>1, OfferedMoves DEF Goes, Moves, TInv, Stages, books
  <2> QED BY <1>2, <1>3, <1>6, <2>1, <2>2, <2>3, <2>4 DEF Reserves, Goes, Moves
<1>7. CASE Charges(r)
  <2>1. req[r].pc = "debit" /\ Goes(r, "settle") /\ held[r] = 1 /\ held' = held
    BY <1>0, <1>7 DEF Charges, HeldInv
  <2>2. charged' \in [Keys -> Nat]
    BY <1>2, <1>7 DEF Charges
  <2>3. HeldInv'
    BY <1>0, <2>1, HeldMoves DEF Goes, Moves, TInv
  <2>4. OfferedInv'
    BY <1>0, <1>1, <2>1, OfferedMoves DEF Goes, Moves, TInv, Stages, books
  <2> QED BY <1>2, <1>3, <2>1, <2>2, <2>3, <2>4 DEF Goes, Moves
<1>8. CASE Releases(r)
  <2>1. /\ \/ req[r].pc = "settle" /\ Goes(r, "notify") /\ held[r] = 1
           \/ req[r].pc = "release" /\ Goes(r, "failed") /\ held[r] \in 0..1
        /\ held' = [held EXCEPT ![r] = held[r] - 1] \/ held' = held
        /\ charged' = charged
    BY <1>0, <1>8 DEF Releases, HeldInv
  <2>2. /\ held' \in [Requests -> -1..1] /\ held'[r] \in {held[r], held[r] - 1}
        /\ \A x \in Requests \ {r} : held'[x] = held[x]
    BY <1>2, <2>1
  <2>3. HeldInv'
    <3>1. CASE req[r].pc = "settle" /\ Goes(r, "notify") /\ held[r] = 1
      BY <1>0, <2>2, <3>1, HeldMoves DEF Goes, Moves, TInv
    <3>2. CASE req[r].pc = "release" /\ Goes(r, "failed") /\ held[r] \in 0..1
      BY <1>0, <2>2, <3>2, HeldMoves DEF Goes, Moves, TInv
    <3> QED BY <2>1, <3>1, <3>2
  <2>4. OfferedInv'
    BY <1>0, <1>1, <2>1, OfferedMoves DEF Goes, Moves, TInv, Stages, books
  <2> QED BY <1>2, <1>3, <2>1, <2>2, <2>3, <2>4 DEF Goes, Moves
<1> QED BY <1>1, <1>4, <1>5, <1>6, <1>7, <1>8

LEMMA CommitTypes ==
  ASSUME TInv, NEW r \in Requests, CommitTrade(r)
  PROVE  TInv'
<1>0. TypeOK /\ HeldInv /\ OfferedInv /\ Divides
  BY DEF TInv
<1> DEFINE o == req[r].option
           h == <<req[r].user, o>>
<1>1. Commits(r, o, h) /\ Appends(Len(trades), TradeOf(r))
  BY <1>0, CommitSteps
<1> HIDE DEF o, h
<1>2. /\ req[r].pc = "commit" /\ Goes(r, "debit") /\ UNCHANGED <<faults, market, wallet, end>>
      /\ held[r] = 1
  BY <1>0, <1>1 DEF Commits, HeldInv
<1>3. HeldInv'
  BY <1>0, <1>2, HeldMoves DEF Goes, Moves, TInv, wallet
<1>4. OfferedInv'
  <2>1. \A x \in Options : pool[x].exists => pool'[x].exists
    BY <1>1 DEF Commits
  <2> QED BY <1>0, <1>2, <2>1, OfferedMoves DEF Goes, Moves, TInv, Stages
<1>5. TypeOK'
  <2>1. /\ req' \in [Requests -> Request] /\ pool' \in [Options -> Row]
        /\ position' \in [Holders -> Held] /\ trades' \in Seq(Trade)
    BY <1>1, <1>2 DEF Goes, Moves, Commits, Appends
  <2> QED BY <1>0, <1>2, <2>1 DEF TypeOK, market, wallet, end
<1>6. Divides'
  BY <1>0, <1>2 DEF Divides, SharesSum, Holders, end
<1> QED BY <1>3, <1>4, <1>5, <1>6 DEF TInv

LEMMA MarketTypes ==
  ASSUME TInv, Activate \/ Verdict \/ initOptionPools
  PROVE  TInv'
<1>0. TypeOK /\ HeldInv /\ OfferedInv /\ Divides
  BY DEF TInv
<1>1. CASE Activate
  BY <1>0, <1>1 DEF Activate, TInv, TypeOK, HeldInv, OfferedInv, Offered, Divides, SharesSum,
     Holders, books, wallet, end
<1>2. CASE Verdict
  <2>1. con' \in Consumer /\ con'.pc = con.pc /\ con'.shares = con.shares
    BY <1>0, <1>2, VerdictTurns DEF Turns
  <2> QED BY <1>0, <1>2, <2>1 DEF Verdict, TInv, TypeOK, HeldInv, OfferedInv, Offered, Divides,
          SharesSum, Holders, books, wallet
<1>3. CASE initOptionPools
  <2>1. PICK o \in Options \ Pools :
          pool' = [pool EXCEPT ![o] = [NoRow EXCEPT !.exists = TRUE, !.kes = SeedKes]]
    BY <1>3 DEF initOptionPools
  <2> DEFINE x == [NoRow EXCEPT !.exists = TRUE, !.kes = SeedKes]
  <2>2. x \in Row /\ x.exists
    BY OptionMarketAssumption DEF NoRow, Row
  <2> HIDE DEF x
  <2>3. pool' = [pool EXCEPT ![o] = x] /\ pool \in [Options -> Row]
    BY <1>0, <2>1, Facts DEF x
  <2>4. pool' \in [Options -> Row] /\ \A z \in Options : pool[z].exists => pool'[z].exists
    BY <2>2, <2>3
  <2> QED BY <1>0, <1>3, <2>4 DEF initOptionPools, TInv, TypeOK, HeldInv, OfferedInv, Offered,
          Divides, SharesSum, Holders, market, wallet, end
<1> QED BY <1>1, <1>2, <1>3

LEMMA SettleTypes ==
  ASSUME TInv, Settle \/ Crash \/ PayWinner
  PROVE  TInv'
<1>0. TypeOK /\ HeldInv /\ OfferedInv /\ Divides
  BY DEF TInv
<1>1. UNCHANGED <<faults, market, wallet, req, pool, trades>>
  BY DEF Settle, ReadPools, FindWinners, MarkWinner, FindLosers, CloseLosers,
         PublishSettlements, RefundMarket, Crash, PayWinner, Still, books
<1>2. HeldInv' /\ OfferedInv'
  BY <1>0, <1>1 DEF HeldInv, OfferedInv, Offered, wallet
<1>3. ASSUME con' \in Consumer, Divides', position' \in [Holders -> Held],
             fanout' \in SUBSET Payouts, paid' \in [Holders -> Nat \cup {None}],
             refunded' = refunded
      PROVE  TInv'
  BY <1>0, <1>1, <1>2, <1>3 DEF TInv, TypeOK, market, wallet
<1>4. /\ position \in [Holders -> Held] /\ fanout \in SUBSET Payouts
      /\ paid \in [Holders -> Nat \cup {None}] /\ con.out \in SUBSET Payouts
      /\ con \in Consumer
  BY <1>0, Facts, ConFacts
<1>5. ASSUME UNCHANGED <<position, fanout, paid, refunded>>,
             con' \in Consumer, con'.pc \in {"pools", "winners", "done"}
      PROVE  TInv'
  BY <1>3, <1>4, <1>5 DEF Divides
<1>6. CASE ReadPools
  <2>1. con' \in Consumer /\ con'.pc \in {"done", "winners"}
    BY <1>0, <1>6, ReadPoolsTurns DEF Turns
  <2> QED BY <1>5, <1>6, <2>1 DEF ReadPools, books
<1>7. CASE FindWinners
  <2>1. con' \in Consumer /\ Divides'
    BY <1>0, <1>7, FindWinnersTurns DEF Turns, Divides
  <2> QED BY <1>3, <1>4, <1>7, <2>1 DEF FindWinners, books
<1>8. CASE MarkWinner
  <2>1. SharesSum > 0
    BY <1>0, <1>8 DEF MarkWinner, Divides
  <2>2. PICK h \in con.todo :
           /\ position' = [position EXCEPT ![h] = Settled(h, payoutKes(h))]
           /\ \E p \in {"losers", "mark"} :
                /\ p = "losers" <=> con.todo = {h}
                /\ Turns(p, con.pot, con.todo \ {h}, con.shares,
                         con.out \cup {[holder |-> h, amount |-> payoutKes(h)]},
                         con.crashes, con.before)
    BY <1>0, <1>8, <2>1, MarkTurns
  <2>3. con' \in Consumer /\ con'.shares = con.shares
    BY <2>2 DEF Turns
  <2>4. h \in Holders /\ payoutKes(h) \in Nat
    BY <1>0, <2>1, ConFacts, PayoutType
  <2>5. Settled(h, payoutKes(h)) \in Held
    BY <1>4, <2>4 DEF Settled, Held
  <2>6. position' \in [Holders -> Held]
    BY <1>4, <2>2, <2>5
  <2> QED BY <1>3, <1>4, <1>8, <2>1, <2>3, <2>6 DEF MarkWinner, Divides, SharesSum, Holders
<1>9. CASE FindLosers
  <2>1. con' \in Consumer /\ con'.shares = con.shares /\ con.pc = "losers"
    BY <1>0, <1>9, FindLosersTurns DEF Turns, FindLosers
  <2> QED BY <1>0, <1>3, <1>4, <1>9, <2>1 DEF FindLosers, Divides, SharesSum, Holders, books
<1>10. CASE CloseLosers
  <2>1. con' \in Consumer /\ con'.shares = con.shares /\ con.pc = "close"
    BY <1>0, <1>10, CloseTurns DEF Turns, CloseLosers
  <2>2. \A h \in Holders : Settled(h, 0) \in Held
    BY <1>4 DEF Settled, Held
  <2>3. position' \in [Holders -> Held]
    BY <1>4, <1>10, <2>2 DEF CloseLosers
  <2> QED BY <1>0, <1>3, <1>4, <1>10, <2>1, <2>3 DEF CloseLosers, Divides, SharesSum, Holders
<1>11. CASE PublishSettlements
  <2>1. con' \in Consumer /\ con'.pc = "done"
    BY <1>0, <1>11, Finishes DEF Turns
  <2>2. fanout' \in SUBSET Payouts
    BY <1>4, <1>11 DEF PublishSettlements
  <2> QED BY <1>3, <1>4, <1>11, <2>1, <2>2 DEF PublishSettlements, Divides, books
<1>12. CASE RefundMarket
  <2>1. con' \in Consumer /\ con'.pc = "done"
    BY <1>0, <1>12, Finishes DEF Turns
  <2> QED BY <1>5, <1>12, <2>1 DEF RefundMarket, books
<1>13. CASE Crash
  <2>1. con' \in Consumer /\ con'.pc = "pools"
    BY <1>0, <1>13, CrashTurns DEF Turns
  <2> QED BY <1>5, <1>13, <2>1 DEF Crash, books
<1>14. CASE PayWinner
  <2>1. PICK m \in fanout :
          /\ paid' = [paid EXCEPT ![m.holder] = IF paid[m.holder] = None THEN m.amount
                                                ELSE paid[m.holder]]
          /\ fanout' = fanout \ {m}
    BY <1>14 DEF PayWinner
  <2>2. m.holder \in Holders /\ m.amount \in Nat
    BY <1>4 DEF Payouts
  <2>3. paid' \in [Holders -> Nat \cup {None}] /\ fanout' \in SUBSET Payouts
    BY <1>4, <2>1, <2>2
  <2> QED BY <1>0, <1>3, <1>4, <1>14, <2>3 DEF PayWinner, Divides, SharesSum, Holders, books
<1> QED BY <1>6, <1>7, <1>8, <1>9, <1>10, <1>11, <1>12, <1>13, <1>14 DEF Settle

LEMMA NextTInv == TInv /\ [Next]_vars => TInv'
<1> SUFFICES ASSUME TInv, [Next]_vars PROVE TInv'
  OBVIOUS
<1>1. CASE UNCHANGED vars
  BY <1>1 DEF TInv, TypeOK, HeldInv, OfferedInv, Offered, Divides, SharesSum, Holders,
     vars, market, books, wallet, end
<1>2. ASSUME NEW r \in Requests, Handle(r)
      PROVE  TInv'
  BY <1>2, HandleTypes, CommitTypes
<1> QED BY <1>1, <1>2, MarketTypes, SettleTypes DEF Next

(* Every state that a MULTI market reaches is well typed. *)
THEOREM TypeCorrect == Spec => []TypeOK
<1>1. TInv => TypeOK
  BY DEF TInv
<1> QED BY <1>1, InitTInv, NextTInv, PTL DEF Spec

-----------------------------------------------------------------------------
(* The books.  What a trade that is appended adds to each of the sums.     *)

Total == SumFunctionOnSet(Stakes(Len(trades)), 1..Len(trades))

LEMMA AppendedSums ==
  ASSUME NEW n, NEW t, Appends(n, t), NEW S \in SUBSET (1..n)
  PROVE  /\ SumFunctionOnSet(Stakes(n + 1)', S) = SumFunctionOnSet(Stakes(n), S)
         /\ SumFunctionOnSet(Stakes(n + 1)', S \cup {n + 1})
              = SumFunctionOnSet(Stakes(n), S) + t.amount
         /\ SumFunctionOnSet(Stakes(n), S) \in Nat
<1>0. n \in Nat /\ n + 1 \in 1..(n + 1) /\ S \subseteq 1..(n + 1)
  BY DEF Appends
<1>1. t.amount \in Nat /\ \A i \in 1..n : trades[i].amount \in Nat
  BY OptionMarketAssumption DEF Appends, Trade
<1> DEFINE f == Stakes(n)
           e == Stakes(n + 1)'
<1>2. \A i \in S : f[i] = trades[i].amount /\ e[i] = trades'[i].amount
  BY <1>0 DEF Stakes
<1>3. \A i \in S : f[i] \in Nat /\ e[i] = f[i]
  BY <1>0, <1>1, <1>2 DEF Appends
<1>4. e[n + 1] = t.amount
  BY <1>0 DEF Stakes, Appends
<1> HIDE DEF f, e
<1>5. e[n + 1] \in Int /\ \A i \in S : f[i] \in Int /\ e[i] = f[i]
  BY <1>1, <1>3, <1>4
<1>6. /\ SumFunctionOnSet(e, S) = SumFunctionOnSet(f, S)
      /\ SumFunctionOnSet(e, S \cup {n + 1}) = SumFunctionOnSet(f, S) + e[n + 1]
  BY <1>0, <1>5, SumMore
<1>7. IsFiniteSet(S)
  <2>1. IsFiniteSet(1..n)
    BY <1>0, FS_Interval
  <2> QED BY <2>1, FS_Subset
<1>8. SumFunctionOnSet(f, S) \in Nat
  BY <1>3, <1>7, SumNat
<1> QED BY <1>4, <1>6, <1>8 DEF f, e

(* The sums over a part of the trades that a condition picks: it picks the *)
(* new one, or it does not.                                                *)
LEMMA PickedSums ==
  ASSUME NEW n, NEW t, Appends(n, t), NEW S \in SUBSET (1..n), NEW T,
         T = S \/ T = S \cup {n + 1}
  PROVE  /\ T = S => SumFunctionOnSet(Stakes(n + 1)', T) = SumFunctionOnSet(Stakes(n), S)
         /\ T # S => SumFunctionOnSet(Stakes(n + 1)', T)
                       = SumFunctionOnSet(Stakes(n), S) + t.amount
<1>1. /\ SumFunctionOnSet(Stakes(n + 1)', S) = SumFunctionOnSet(Stakes(n), S)
      /\ SumFunctionOnSet(Stakes(n + 1)', S \cup {n + 1})
           = SumFunctionOnSet(Stakes(n), S) + t.amount
  BY AppendedSums
<1>2. CASE T = S
  BY <1>1, <1>2
<1>3. CASE T # S
  <2>1. T = S \cup {n + 1}
    BY <1>3
  <2> QED BY <1>1, <1>3, <2>1
<1> QED BY <1>2, <1>3

LEMMA Appended ==
  ASSUME NEW n, NEW t, Appends(n, t)
  PROVE  /\ Total' = Total + t.amount
         /\ \A k : TradesOf(k)' = IF t.key = k THEN TradesOf(k) \cup {n + 1} ELSE TradesOf(k)
         /\ \A o : StakesOn(o, Len(trades))'
                     = StakesOn(o, n) + (IF t.option = o THEN t.amount ELSE 0)
         /\ \A h : StakeOf(h)' = StakeOf(h) + (IF <<t.user, t.option>> = h THEN t.amount ELSE 0)
         /\ \A u : StakesBy(u)' = StakesBy(u) + (IF t.user = u THEN t.amount ELSE 0)
<1>0. /\ n \in Nat /\ Len(trades) = n /\ Len(trades') = n + 1
      /\ trades'[n + 1] = t /\ \A i \in 1..n : trades'[i] = trades[i]
  BY DEF Appends
<1>1. 1..(n + 1) = (1..n) \cup {n + 1} /\ n + 1 \notin 1..n
  BY <1>0
<1>2. Total' = Total + t.amount
  <2>1. 1..n \in SUBSET (1..n)
    OBVIOUS
  <2>2. SumFunctionOnSet(Stakes(n + 1)', (1..n) \cup {n + 1})
          = SumFunctionOnSet(Stakes(n), 1..n) + t.amount
    BY <2>1, AppendedSums
  <2>3. Stakes(Len(trades))' = Stakes(n + 1)'
    BY <1>0 DEF Stakes
  <2> QED BY <1>0, <1>1, <2>2, <2>3 DEF Total
<1>3. ASSUME NEW k
      PROVE  TradesOf(k)' = IF t.key = k THEN TradesOf(k) \cup {n + 1} ELSE TradesOf(k)
  BY <1>0, <1>1 DEF TradesOf
<1>4. ASSUME NEW o
      PROVE  StakesOn(o, Len(trades))' = StakesOn(o, n) + (IF t.option = o THEN t.amount ELSE 0)
  <2> DEFINE S == {i \in 1..n : trades[i].option = o}
             T == {i \in 1..(n + 1) : trades'[i].option = o}
  <2>1. S \in SUBSET (1..n) /\ T = (IF t.option = o THEN S \cup {n + 1} ELSE S) /\ n + 1 \notin S
    BY <1>0, <1>1
  <2>2. /\ StakesOn(o, Len(trades))' = SumFunctionOnSet(Stakes(n + 1)', T)
        /\ StakesOn(o, n) = SumFunctionOnSet(Stakes(n), S)
    BY <1>0 DEF StakesOn, Stakes
  <2> HIDE DEF S, T
  <2>3. SumFunctionOnSet(Stakes(n), S) \in Nat
    BY <2>1, AppendedSums
  <2>4. CASE t.option = o
    BY <2>1, <2>2, <2>4, PickedSums
  <2>5. CASE t.option # o
    BY <2>1, <2>2, <2>3, <2>5, PickedSums
  <2> QED BY <2>4, <2>5
<1>5. ASSUME NEW h
      PROVE  StakeOf(h)' = StakeOf(h) + (IF <<t.user, t.option>> = h THEN t.amount ELSE 0)
  <2> DEFINE S == {i \in 1..n : <<trades[i].user, trades[i].option>> = h}
             T == {i \in 1..(n + 1) : <<trades'[i].user, trades'[i].option>> = h}
  <2>1. /\ S \in SUBSET (1..n) /\ n + 1 \notin S
        /\ T = (IF <<t.user, t.option>> = h THEN S \cup {n + 1} ELSE S)
    BY <1>0, <1>1
  <2>2. /\ StakeOf(h)' = SumFunctionOnSet(Stakes(n + 1)', T)
        /\ StakeOf(h) = SumFunctionOnSet(Stakes(n), S)
    BY <1>0 DEF StakeOf, Stakes
  <2> HIDE DEF S, T
  <2>3. SumFunctionOnSet(Stakes(n), S) \in Nat
    BY <2>1, AppendedSums
  <2>4. CASE <<t.user, t.option>> = h
    BY <2>1, <2>2, <2>4, PickedSums
  <2>5. CASE <<t.user, t.option>> # h
    BY <2>1, <2>2, <2>3, <2>5, PickedSums
  <2> QED BY <2>4, <2>5
<1>6. ASSUME NEW u
      PROVE  StakesBy(u)' = StakesBy(u) + (IF t.user = u THEN t.amount ELSE 0)
  <2> DEFINE S == {i \in 1..n : trades[i].user = u}
             T == {i \in 1..(n + 1) : trades'[i].user = u}
  <2>1. /\ S \in SUBSET (1..n) /\ n + 1 \notin S
        /\ T = (IF t.user = u THEN S \cup {n + 1} ELSE S)
    BY <1>0, <1>1
  <2>2. /\ StakesBy(u)' = SumFunctionOnSet(Stakes(n + 1)', T)
        /\ StakesBy(u) = SumFunctionOnSet(Stakes(n), S)
    BY <1>0 DEF StakesBy, Stakes, getMyOptionTrades
  <2> HIDE DEF S, T
  <2>3. SumFunctionOnSet(Stakes(n), S) \in Nat
    BY <2>1, AppendedSums
  <2>4. CASE t.user = u
    BY <2>1, <2>2, <2>4, PickedSums
  <2>5. CASE t.user # u
    BY <2>1, <2>2, <2>3, <2>5, PickedSums
  <2> QED BY <2>4, <2>5
<1> QED BY <1>2, <1>3, <1>4, <1>5, <1>6

(* What was appended before stays, and so do the sums over it. *)
LEMMA AppendedBefore ==
  ASSUME NEW n, NEW t, Appends(n, t), NEW m \in Nat, m <= n
  PROVE  /\ \A o : StakesOn(o, m)' = StakesOn(o, m)
         /\ Stakes(m)' = Stakes(m)
<1>1. \A i \in 1..m : trades'[i] = trades[i]
  BY DEF Appends
<1>2. Stakes(m)' = Stakes(m)
  BY <1>1 DEF Stakes
<1>3. ASSUME NEW o PROVE {i \in 1..m : trades'[i].option = o} = {i \in 1..m : trades[i].option = o}
  BY <1>1
<1> QED BY <1>2, <1>3 DEF StakesOn

-----------------------------------------------------------------------------
(* The inductive invariant of the books.  A key stands for one trade; the  *)
(* request that made it is the one that debits it.                         *)
KeyInv ==
  /\ \A i, j \in 1..Len(trades) : trades[i].key = trades[j].key => i = j
  /\ \A k \in Keys : charged[k] \in 0..1 /\ (charged[k] = 1 => TradesOf(k) # {})
  /\ \A r \in Requests :
       /\ req[r].pc = "debit" => TradesOf(req[r].key) # {} /\ charged[req[r].key] = 0
       /\ req[r].pc \in {"settle", "notify", "confirmed"} => charged[req[r].key] = 1
  /\ \A r, x \in Requests :
       req[r].pc = "debit" /\ req[x].pc = "debit" /\ req[r].key = req[x].key => r = x

(* What a request has read is no more than what is there, and the pool of  *)
(* its option, if that has the version it read.                            *)
SeenInv ==
  \A r \in Requests :
    LET q == req[r] IN
    /\ q.pc \in {"pot", "commit"} =>
         /\ q.seen.kes <= pool[q.option].kes
         /\ q.seen.version <= pool[q.option].version
         /\ q.seen.version = pool[q.option].version => q.seen.kes = pool[q.option].kes
    /\ q.pc = "commit" =>
         q.seen.kes <= q.pot /\ q.pot <= SeedKes * Cardinality(Options) + Total

(* The pools, the positions and the trades are three sums of one thing.    *)
PoolInv ==
  \A o \in Options :
    /\ pool[o].exists => pool[o].kes = SeedKes + StakesOn(o, Len(trades))
    /\ ~pool[o].exists => StakesOn(o, Len(trades)) = 0

Costs     == [h \in Holders |-> position[h].cost]
CostOf(u) == [o \in Options |-> position[<<u, o>>].cost]

CostInv ==
  /\ \A h \in Holders : position[h].cost = StakeOf(h) /\ (position[h].cost > 0 => Offered(h[2]))
  /\ \A u \in Users : SumFunctionOnSet(CostOf(u), Options) = StakesBy(u)
  /\ SumFunctionOnSet(Costs, Holders) = Total

PotInv == Pot = SeedKes * Cardinality(Pools) + Total

Tables == PoolInv /\ CostInv /\ PotInv /\ PricedOnItsPool

(* Before the verdict is known the consumer has done nothing.              *)
EarlyInv ==
  /\ status \in {"DRAFT", "ACTIVE"} =>
       /\ con.pc = "pools" /\ con.before = 0
       /\ \A h \in Holders : ~position[h].settled
  /\ status # "RESOLVED" => /\ con.pc \in {"pools", "done"} /\ con.out = {} /\ con.crashes = 0
                            /\ fanout = {} /\ \A h \in Holders : paid[h] = None

BInv == TInv /\ KeyInv /\ SeenInv /\ Tables /\ EarlyInv

LEMMA CostType ==
  ASSUME TypeOK
  PROVE  /\ \A h \in Holders : Costs[h] \in Nat /\ Costs[h] = position[h].cost
         /\ Sums(Costs, Holders) /\ SumFunctionOnSet(Costs, Holders) \in Nat
         /\ \A u \in Users : /\ Sums(CostOf(u), Options)
                             /\ \A o \in Options : /\ CostOf(u)[o] \in Nat
                                                   /\ CostOf(u)[o] = position[<<u, o>>].cost
<1>1. \A h \in Holders : position[h].cost \in Nat
  BY Facts DEF Held
<1>2. \A h \in Holders : Costs[h] \in Nat /\ Costs[h] = position[h].cost
  BY <1>1 DEF Costs
<1>3. \A u \in Users : \A o \in Options : /\ CostOf(u)[o] \in Nat
                                          /\ CostOf(u)[o] = position[<<u, o>>].cost
  BY <1>1 DEF CostOf, Holders
<1>4. Sums(Costs, Holders)
  BY <1>2, HolderSets DEF Sums
<1>5. SumFunctionOnSet(Costs, Holders) \in Nat
  BY <1>2, HolderSets, SumNat
<1>6. ASSUME NEW u \in Users PROVE Sums(CostOf(u), Options)
  <2>1. \A o \in Options : CostOf(u)[o] \in Int
    BY <1>1 DEF CostOf, Holders
  <2> QED BY <2>1, HolderSets DEF Sums
<1> QED BY <1>2, <1>3, <1>4, <1>5, <1>6

(* A step that changes neither the pools, nor the trades, nor what the     *)
(* positions cost.                                                         *)
SameTables ==
  /\ UNCHANGED <<pool, trades>>
  /\ \A h \in Holders : position'[h].cost = position[h].cost

LEMMA TablesStay ==
  ASSUME Tables, SameTables
  PROVE  Tables'
<1>0. pool' = pool /\ trades' = trades
  BY DEF SameTables
<1>1. PoolInv'
  BY <1>0 DEF Tables, PoolInv, StakesOn, Stakes
<1>2. PotInv'
  BY <1>0 DEF Tables, PotInv, Pot, Pools, Total, Stakes
<1>3. PricedOnItsPool'
  BY <1>0 DEF Tables, PricedOnItsPool, StakesOn, Stakes
<1>4. CostInv'
  <2>1. Costs' = Costs /\ Holders' = Holders
    BY DEF Costs, SameTables, Holders
  <2>2. \A u \in Users : CostOf(u)' = CostOf(u)
    BY DEF CostOf, SameTables, Holders
  <2>3. Total' = Total
    BY <1>0 DEF Total, Stakes
  <2>4. \A u \in Users : StakesBy(u)' = StakesBy(u)
    BY <1>0 DEF StakesBy, Stakes, getMyOptionTrades
  <2>5. \A h \in Holders : StakeOf(h)' = StakeOf(h)
    BY <1>0 DEF StakeOf, Stakes
  <2>6. \A h \in Holders : position'[h].cost = StakeOf(h)' /\ (position'[h].cost > 0 => Offered(h[2])')
    BY <1>0, <2>5 DEF Tables, CostInv, SameTables, Offered
  <2>7. \A u \in Users : SumFunctionOnSet(CostOf(u)', Options) = StakesBy(u)'
    BY <2>2, <2>4 DEF Tables, CostInv
  <2>8. SumFunctionOnSet(Costs', Holders') = Total'
    BY <2>1, <2>3 DEF Tables, CostInv
  <2> QED BY <2>1, <2>6, <2>7, <2>8 DEF CostInv
<1> QED BY <1>1, <1>2, <1>3, <1>4 DEF Tables

LEMMA InitBooks == Init => BInv
<1> SUFFICES ASSUME Init PROVE BInv
  OBVIOUS
<1>0. TInv /\ TypeOK
  BY InitTInv DEF TInv
<1>1. Len(trades) = 0 /\ 1..Len(trades) = {}
  BY DEF Init
<1>2. \A r \in Requests : req[r].pc = "lookup"
  BY DEF Init, Submissions
<1>3. KeyInv
  BY <1>1, <1>2 DEF KeyInv, Init
<1>4. SeenInv
  BY <1>2 DEF SeenInv
<1>5. Total = 0
  BY <1>1, SumEmpty DEF Total
<1>6. PoolInv
  <2>1. \A o : StakesOn(o, Len(trades)) = 0
    <3>1. \A o : {i \in 1..Len(trades) : trades[i].option = o} = {}
      BY <1>1
    <3> QED BY <3>1, SumEmpty DEF StakesOn
  <2> QED BY <2>1 DEF PoolInv, Init, NoRow
<1>7. CostInv
  <2>1. \A h \in Holders : position[h].cost = 0
    BY DEF Init
  <2>2. \A h : StakeOf(h) = 0
    <3>1. \A h : {i \in 1..Len(trades) : <<trades[i].user, trades[i].option>> = h} = {}
      BY <1>1
    <3> QED BY <3>1, SumEmpty DEF StakeOf
  <2>3. \A u : StakesBy(u) = 0
    <3>1. \A u : getMyOptionTrades(u) = {}
      BY <1>1 DEF getMyOptionTrades
    <3> QED BY <3>1, SumEmpty DEF StakesBy
  <2>4. SumFunctionOnSet(Costs, Holders) = 0
    <3>1. Sums(Costs, Holders) /\ \A h \in Holders \ {} : Costs[h] = 0
      BY <1>0, <2>1, CostType
    <3>2. SumFunctionOnSet(Costs, Holders) = SumFunctionOnSet(Costs, {})
      BY <3>1, SumWithin
    <3> QED BY <3>2, SumEmpty
  <2>5. ASSUME NEW u \in Users PROVE SumFunctionOnSet(CostOf(u), Options) = 0
    <3>1. Sums(CostOf(u), Options) /\ \A o \in Options \ {} : CostOf(u)[o] = 0
      BY <1>0, <2>1, CostType DEF Holders
    <3>2. SumFunctionOnSet(CostOf(u), Options) = SumFunctionOnSet(CostOf(u), {})
      BY <3>1, SumWithin
    <3> QED BY <3>2, SumEmpty
  <2> QED BY <1>5, <2>1, <2>2, <2>3, <2>4, <2>5 DEF CostInv
<1>8. PotInv
  <2>1. Pools = {}
    BY DEF Init, Pools, NoRow
  <2>2. Pot = 0
    BY <2>1, SumEmpty DEF Pot
  <2>3. Cardinality(Pools) = 0 /\ SeedKes * 0 = 0
    BY <2>1, FS_EmptySet, OptionMarketAssumption
  <2> QED BY <1>5, <2>2, <2>3 DEF PotInv
<1>9. PricedOnItsPool
  BY <1>1 DEF PricedOnItsPool
<1>10. EarlyInv
  BY DEF Init, EarlyInv, Waiting
<1> QED BY <1>0, <1>3, <1>4, <1>6, <1>7, <1>8, <1>9, <1>10 DEF BInv, Tables

-----------------------------------------------------------------------------
(* The requests and the books: reading.                                    *)

LEMMA NatTimes ==
  ASSUME NEW s \in Nat, NEW a \in Nat, NEW b \in Nat, a <= b
  PROVE  s * a <= s * b /\ s * a \in Nat /\ s * b \in Nat /\ s * (a + 1) = s * a + s
OBVIOUS

(* The pot is never more than all the seeds and all the trades.            *)
LEMMA PotBounded ==
  ASSUME TypeOK, Tables
  PROVE  /\ Pot \in Nat /\ Total \in Nat /\ Total <= Pot
         /\ Pot <= SeedKes * Cardinality(Options) + Total
         /\ \A o \in Pools : pool[o].kes <= Pot
<1>1. Pot \in Nat /\ Total \in Nat
  BY PotType, CostType DEF Tables, CostInv
<1>2. PICK a \in Nat : a = Cardinality(Pools)
  BY HolderSets, FS_CardinalityType
<1>3. PICK b \in Nat : b = Cardinality(Options)
  BY HolderSets, FS_CardinalityType
<1>4. a <= b
  BY <1>2, <1>3, HolderSets, FS_Subset
<1>5. Pot = SeedKes * a + Total
  BY <1>2 DEF Tables, PotInv
<1>6. SeedKes * a <= SeedKes * b /\ SeedKes * a \in Nat /\ SeedKes * b \in Nat
  BY <1>4, NatTimes, OptionMarketAssumption
<1>7. Total <= Pot /\ Pot <= SeedKes * b + Total
  BY <1>1, <1>5, <1>6
<1>8. ASSUME NEW o \in Pools PROVE pool[o].kes <= Pot
  <2> DEFINE f == [x \in Options |-> pool[x].kes]
  <2>1. \A x \in Pools : f[x] \in Nat /\ f[x] = pool[x].kes
    BY Facts, HolderSets DEF Row
  <2>2. Pot = SumFunctionOnSet(f, Pools)
    BY DEF Pot
  <2> HIDE DEF f
  <2>3. f[o] <= SumFunctionOnSet(f, Pools)
    BY <2>1, HolderSets, SumAtLeast
  <2> QED BY <2>1, <2>2, <2>3
<1> QED BY <1>1, <1>3, <1>7, <1>8

LEMMA SeenStays ==
  ASSUME SeenInv, NEW r \in Requests, \A x \in Requests \ {r} : req'[x] = req[x],
         UNCHANGED <<pool, trades>>,
         LET q == req'[r] IN
         /\ q.pc \in {"pot", "commit"} =>
              /\ q.seen.kes <= pool[q.option].kes
              /\ q.seen.version <= pool[q.option].version
              /\ q.seen.version = pool[q.option].version => q.seen.kes = pool[q.option].kes
         /\ q.pc = "commit" =>
              q.seen.kes <= q.pot /\ q.pot <= SeedKes * Cardinality(Options) + Total
  PROVE  SeenInv'
<1>1. Total' = Total
  BY DEF Total, Stakes
<1> QED BY <1>1 DEF SeenInv

LEMMA KeyMoves ==
  ASSUME KeyInv, NEW r \in Requests, \A x \in Requests \ {r} : req'[x] = req[x],
         UNCHANGED <<trades, charged>>,
         req'[r].key = req[r].key,
         \/ req'[r].pc \notin {"debit", "settle", "notify", "confirmed"}
         \/ req'[r].pc \in {"notify", "confirmed"} /\ req[r].pc \in {"settle", "notify"}
  PROVE  KeyInv'
BY DEF KeyInv, TradesOf

LEMMA HandleBooks ==
  ASSUME BInv, NEW r \in Requests, Handle(r), ~CommitTrade(r)
  PROVE  KeyInv' /\ SeenInv' /\ Tables'
<1>0. TypeOK /\ OfferedInv /\ TInv /\ KeyInv /\ SeenInv /\ Tables
  BY DEF BInv, TInv
<1>1. /\ Passes(r) \/ Reads(r) \/ Reserves(r) \/ Charges(r) \/ Releases(r)
      /\ UNCHANGED <<faults, market, books, end>>
  BY <1>0, HandlerSteps
<1>2. pool' = pool /\ trades' = trades /\ position' = position
  BY <1>1 DEF books
<1>3. Tables'
  BY <1>0, <1>2, TablesStay DEF SameTables
<1>4. CASE Passes(r)
  <2>1. PICK p, s, t, a : Moves(r, p, s, t, a)
    BY <1>4 DEF Passes, Goes
  <2>2. /\ \/ <<req[r].pc, req'[r].pc>> \in Onward
           \/ req[r].pc = "pool" /\ req'[r].pc = "check"
           \/ req[r].pc = "commit" /\ req'[r].pc = "read"
        /\ charged' = charged
    BY <1>4 DEF Passes, Goes, Moves, wallet
  <2>3. SeenInv'
    BY <1>0, <1>2, <2>1, <2>2, SeenStays DEF Onward, Moves
  <2>4. KeyInv'
    BY <1>0, <1>2, <2>1, <2>2, KeyMoves DEF Onward, Moves
  <2> QED BY <1>3, <2>3, <2>4
<1>5. CASE Reads(r)
  <2>1. PICK p, s, t, a : Moves(r, p, s, t, a)
    BY <1>5 DEF Reads, Goes
  <2>2. req'[r].pc \in {"pot", "commit"} /\ charged' = charged
    BY <1>5 DEF Reads, Moves, wallet
  <2>3. KeyInv'
    BY <1>0, <1>2, <2>1, <2>2, KeyMoves DEF Moves
  <2>4. CASE /\ req[r].pc = "read" /\ req[r].option \in Options
             /\ Moves(r, "pot", pool[req[r].option], req[r].pot, req[r].attempt)
    <3>1. pool[req[r].option].kes \in Nat /\ pool[req[r].option].version \in Nat
      BY <1>0, <2>4, Facts DEF Row
    <3>2. SeenInv'
      BY <1>0, <1>2, <2>4, <3>1, SeenStays DEF Moves
    <3> QED BY <1>3, <2>3, <3>2
  <2>5. CASE req[r].pc = "pot" /\ Moves(r, "commit", req[r].seen, Pot, req[r].attempt)
    <3>1. /\ req[r].seen.kes <= pool[req[r].option].kes
          /\ req[r].seen.version <= pool[req[r].option].version
          /\ req[r].seen.version = pool[req[r].option].version
               => req[r].seen.kes = pool[req[r].option].kes
      BY <1>0, <2>5 DEF SeenInv
    <3>2. req[r].option \in Options /\ req[r].option \in Pools
      BY <1>0, <2>5 DEF OfferedInv, Offered, Stages, Pools
    <3>3. pool[req[r].option].kes <= Pot /\ Pot <= SeedKes * Cardinality(Options) + Total
      BY <1>0, <3>2, PotBounded
    <3>4. pool[req[r].option].kes \in Nat /\ req[r].seen.kes \in Nat /\ Pot \in Nat
      BY <1>0, <3>2, Facts, ReqFacts, PotType DEF Row
    <3>5. req[r].seen.kes <= Pot
      BY <3>1, <3>3, <3>4
    <3>6. SeenInv'
      BY <1>0, <1>2, <2>5, <3>1, <3>3, <3>5, SeenStays DEF Moves
    <3> QED BY <1>3, <2>3, <3>6
  <2> QED BY <1>5, <2>4, <2>5 DEF Reads
<1>6. CASE Reserves(r)
  <2>1. Goes(r, "read") /\ charged' = charged
    BY <1>6 DEF Reserves
  <2>2. SeenInv'
    BY <1>0, <1>2, <2>1, SeenStays DEF Goes, Moves
  <2>3. KeyInv'
    BY <1>0, <1>2, <2>1, KeyMoves DEF Goes, Moves
  <2> QED BY <1>3, <2>2, <2>3
<1>7. CASE Charges(r)
  <2>1. /\ req[r].pc = "debit" /\ Goes(r, "settle") /\ req[r].key \in Keys
        /\ charged \in [Keys -> Nat]
        /\ charged' = [charged EXCEPT ![req[r].key] = charged[req[r].key] + 1]
    BY <1>0, <1>7, ReqFacts, Facts DEF Charges
  <2>2. SeenInv'
    BY <1>0, <1>2, <2>1, SeenStays DEF Goes, Moves
  <2>3. charged[req[r].key] = 0 /\ TradesOf(req[r].key) # {}
    BY <1>0, <2>1 DEF KeyInv
  <2>4. charged'[req[r].key] = 1 /\ \A k \in Keys \ {req[r].key} : charged'[k] = charged[k]
    BY <2>1, <2>3
  <2>5. \A k : TradesOf(k)' = TradesOf(k)
    BY <1>2 DEF TradesOf
  <2>6. /\ req'[r].pc = "settle" /\ req'[r].key = req[r].key
        /\ \A x \in Requests \ {r} : req'[x] = req[x]
    BY <2>1 DEF Goes, Moves
  <2>7. \A x \in Requests : req[x].key \in Keys
    BY <1>0, ReqFacts
  <2>8. \A i, j \in 1..Len(trades') : trades'[i].key = trades'[j].key => i = j
    BY <1>0, <1>2 DEF KeyInv
  <2>9. \A k \in Keys : charged'[k] \in 0..1 /\ (charged'[k] = 1 => TradesOf(k)' # {})
    BY <1>0, <2>3, <2>4, <2>5 DEF KeyInv
  <2>10. ASSUME NEW x \in Requests
         PROVE  /\ req'[x].pc = "debit" => TradesOf(req[x].key)' # {} /\ charged'[req'[x].key] = 0
                /\ req'[x].pc \in {"settle", "notify", "confirmed"} => charged'[req'[x].key] = 1
    <3>0. req'[x].key = req[x].key /\ TradesOf(req[x].key)' = TradesOf(req[x].key)
      <4>1. req'[x].key = req[x].key
        BY <2>6
      <4> QED BY <1>2, <4>1 DEF TradesOf
    <3>1. CASE x = r
      BY <2>4, <2>6, <3>1
    <3>2. CASE x # r /\ req[x].key = req[r].key
      <4>1. req[x].pc # "debit"
        BY <1>0, <2>1, <3>2 DEF KeyInv
      <4> QED BY <2>4, <2>6, <3>2, <4>1
    <3>3. CASE x # r /\ req[x].key # req[r].key
      <4>1. req'[x] = req[x] /\ charged'[req[x].key] = charged[req[x].key]
        BY <2>4, <2>6, <2>7, <3>3
      <4>2. /\ req[x].pc = "debit" => TradesOf(req[x].key) # {} /\ charged[req[x].key] = 0
            /\ req[x].pc \in {"settle", "notify", "confirmed"} => charged[req[x].key] = 1
        BY <1>0 DEF KeyInv
      <4> QED BY <3>0, <4>1, <4>2
    <3> QED BY <3>1, <3>2, <3>3
  <2>11. \A y, x \in Requests :
           req'[y].pc = "debit" /\ req'[x].pc = "debit" /\ req'[y].key = req'[x].key => y = x
    BY <1>0, <2>6 DEF KeyInv
  <2>12. KeyInv'
    BY <2>8, <2>9, <2>10, <2>11 DEF KeyInv
  <2> QED BY <1>3, <2>2, <2>12
<1>8. CASE Releases(r)
  <2>1. /\ \/ req[r].pc = "settle" /\ Goes(r, "notify")
           \/ req[r].pc = "release" /\ Goes(r, "failed")
        /\ charged' = charged
    BY <1>8 DEF Releases
  <2>2. SeenInv'
    BY <1>0, <1>2, <2>1, SeenStays DEF Goes, Moves
  <2>3. KeyInv'
    BY <1>0, <1>2, <2>1, KeyMoves DEF Goes, Moves
  <2> QED BY <1>3, <2>2, <2>3
<1> QED BY <1>1, <1>4, <1>5, <1>6, <1>7, <1>8

-----------------------------------------------------------------------------
(* The transaction and the books: one trade more in each of the sums.      *)

LEMMA StakesType ==
  ASSUME TypeOK, Tables
  PROVE  /\ \A o \in Options : StakesOn(o, Len(trades)) \in Nat
         /\ \A h \in Holders : StakeOf(h) \in Nat
         /\ \A u \in Users : StakesBy(u) \in Nat
<1>1. PICK n \in Nat : n = Len(trades)
  BY Facts
<1>2. \A i \in 1..n : Stakes(n)[i] \in Nat
  <2>1. \A i \in 1..n : trades[i] \in Trade
    BY <1>1, Facts
  <2>2. \A i \in 1..n : trades[i].amount \in Nat
    BY <2>1, OptionMarketAssumption DEF Trade
  <2> QED BY <2>2 DEF Stakes
<1>3. ASSUME NEW S \in SUBSET (1..n) PROVE SumFunctionOnSet(Stakes(n), S) \in Nat
  <2>1. IsFiniteSet(1..n)
    BY FS_Interval
  <2>2. IsFiniteSet(S) /\ \A i \in S : Stakes(n)[i] \in Nat
    BY <1>2, <2>1, FS_Subset
  <2> QED BY <2>2, SumNat
<1>4. ASSUME NEW o \in Options PROVE StakesOn(o, Len(trades)) \in Nat
  BY <1>1, <1>3 DEF StakesOn
<1>5. \A h \in Holders : StakeOf(h) \in Nat
  <2>1. \A h \in Holders : position[h].cost \in Nat
    BY Facts DEF Held
  <2> QED BY <2>1 DEF Tables, CostInv
<1>6. ASSUME NEW u \in Users PROVE StakesBy(u) \in Nat
  BY <1>1, <1>3 DEF StakesBy, getMyOptionTrades
<1> QED BY <1>4, <1>5, <1>6

(* The new trade is the only one with its key.                             *)
LEMMA CommitKeys ==
  ASSUME TypeOK, KeyInv, NEW r \in Requests, NEW o, NEW h, Commits(r, o, h),
         NEW n, Appends(n, TradeOf(r))
  PROVE  KeyInv'
<1> DEFINE t == TradeOf(r)
<1>0. PICK k \in Keys : k = req[r].key
  BY ReqFacts
<1>1. /\ n \in Nat /\ Len(trades) = n /\ Len(trades') = n + 1
      /\ trades'[n + 1] = t /\ \A i \in 1..n : trades'[i] = trades[i]
  BY DEF Appends
<1>2. t.key = k /\ TradesOf(k) = {}
  BY <1>0 DEF TradeOf, Commits
<1>3. /\ req'[r].pc = "debit" /\ req'[r].key = k
      /\ \A x \in Requests \ {r} : req'[x] = req[x]
      /\ charged' = charged
  BY <1>0 DEF Commits, Goes, Moves, wallet
<1>4. TradesOf(k)' = {n + 1} /\ \A y \in Keys : TradesOf(y) # {} => TradesOf(y)' # {}
  <2>1. \A y : TradesOf(y)' = IF t.key = y THEN TradesOf(y) \cup {n + 1} ELSE TradesOf(y)
    BY Appended
  <2> QED BY <1>2, <2>1
<1>5. \A i \in 1..n : trades[i].key # k
  BY <1>1, <1>2 DEF TradesOf
<1> HIDE DEF t
<1>6. ASSUME NEW i \in 1..Len(trades'), NEW j \in 1..Len(trades'), trades'[i].key = trades'[j].key
      PROVE  i = j
  <2>1. i \in 1..(n + 1) /\ j \in 1..(n + 1)
    BY <1>1
  <2>2. CASE i = n + 1 /\ j = n + 1
    BY <2>2
  <2>3. CASE i = n + 1 /\ j # n + 1
    <3>1. j \in 1..n
      BY <1>1, <2>1, <2>3
    <3>2. trades'[i].key = k /\ trades'[j].key = trades[j].key
      BY <1>1, <1>2, <2>3, <3>1
    <3> QED BY <1>5, <1>6, <3>1, <3>2
  <2>4. CASE i # n + 1 /\ j = n + 1
    <3>1. i \in 1..n
      BY <1>1, <2>1, <2>4
    <3>2. trades'[j].key = k /\ trades'[i].key = trades[i].key
      BY <1>1, <1>2, <2>4, <3>1
    <3> QED BY <1>5, <1>6, <3>1, <3>2
  <2>5. CASE i # n + 1 /\ j # n + 1
    <3>1. i \in 1..n /\ j \in 1..n
      BY <1>1, <2>1, <2>5
    <3>2. trades[i].key = trades[j].key
      BY <1>1, <1>6, <3>1
    <3> QED BY <1>1, <3>1, <3>2 DEF KeyInv
  <2> QED BY <2>2, <2>3, <2>4, <2>5
<1>7. \A y \in Keys : charged'[y] \in 0..1 /\ (charged'[y] = 1 => TradesOf(y)' # {})
  BY <1>3, <1>4 DEF KeyInv
<1>8. charged[k] = 0
  <2>1. charged[k] \in 0..1 /\ charged[k] # 1
    BY <1>2 DEF KeyInv
  <2> QED BY <2>1
<1>9. ASSUME NEW x \in Requests
      PROVE  /\ req'[x].pc = "debit" => TradesOf(req[x].key)' # {} /\ charged'[req'[x].key] = 0
             /\ req'[x].pc \in {"settle", "notify", "confirmed"} => charged'[req'[x].key] = 1
             /\ req'[x].key = req[x].key
  <2>1. CASE x = r
    BY <1>0, <1>3, <1>4, <1>8, <2>1
  <2>2. CASE x # r
    <3>1. req'[x] = req[x] /\ req[x].key \in Keys
      BY <1>3, <2>2, ReqFacts
    <3>2. /\ req[x].pc = "debit" => TradesOf(req[x].key) # {} /\ charged[req[x].key] = 0
          /\ req[x].pc \in {"settle", "notify", "confirmed"} => charged[req[x].key] = 1
      BY DEF KeyInv
    <3> QED BY <1>3, <1>4, <3>1, <3>2
  <2> QED BY <2>1, <2>2
<1>10. ASSUME NEW x \in Requests PROVE TradesOf(req'[x].key) = TradesOf(req[x].key)
  BY <1>9
<1>11. \A y, x \in Requests :
         req'[y].pc = "debit" /\ req'[x].pc = "debit" /\ req'[y].key = req'[x].key => y = x
  <2>1. \A x \in Requests \ {r} : req[x].pc = "debit" => req[x].key # k
    BY <1>2 DEF KeyInv
  <2> QED BY <1>3, <2>1 DEF KeyInv
<1>12. ASSUME NEW x \in Requests
       PROVE  (/\ req[x].pc = "debit" => TradesOf(req[x].key) # {} /\ charged[req[x].key] = 0
               /\ req[x].pc \in {"settle", "notify", "confirmed"} => charged[req[x].key] = 1)'
  BY <1>9 DEF TradesOf
<1> QED BY <1>6, <1>7, <1>11, <1>12 DEF KeyInv

(* Who has read the pool before the transaction has an older version.      *)
LEMMA CommitSeen ==
  ASSUME TypeOK, OfferedInv, SeenInv, NEW r \in Requests, NEW o, NEW h, Commits(r, o, h),
         Total \in Nat, Total' = Total + req[r].amount
  PROVE  SeenInv'
<1>1. /\ req'[r].pc = "debit" /\ \A x \in Requests \ {r} : req'[x] = req[x]
      /\ o \in Options /\ pool'[o].kes = pool[o].kes + req[r].amount
      /\ pool'[o].version = pool[o].version + 1
      /\ \A x \in Options \ {o} : pool'[x] = pool[x]
  BY DEF Commits, Goes, Moves
<1>2. req[r].amount \in Nat /\ pool[o].kes \in Nat /\ pool[o].version \in Nat
  BY <1>1, ReqFacts, Facts DEF Row
<1>3. ASSUME NEW x \in Requests, x # r, req[x].pc \in {"pot", "commit"}
      PROVE  /\ req[x].seen.kes <= pool'[req[x].option].kes
             /\ req[x].seen.version <= pool'[req[x].option].version
             /\ req[x].seen.version = pool'[req[x].option].version
                  => req[x].seen.kes = pool'[req[x].option].kes
             /\ req[x].pc = "commit" =>
                  /\ req[x].seen.kes <= req[x].pot
                  /\ req[x].pot <= SeedKes * Cardinality(Options) + Total'
  <2>1. /\ req[x].seen.kes <= pool[req[x].option].kes
        /\ req[x].seen.version <= pool[req[x].option].version
        /\ req[x].seen.version = pool[req[x].option].version
             => req[x].seen.kes = pool[req[x].option].kes
        /\ req[x].pc = "commit" =>
             /\ req[x].seen.kes <= req[x].pot
             /\ req[x].pot <= SeedKes * Cardinality(Options) + Total
    BY <1>3 DEF SeenInv
  <2>2. req[x].option \in Options
    BY <1>3 DEF OfferedInv, Offered, Stages
  <2>3. req[x].seen.kes \in Nat /\ req[x].seen.version \in Nat /\ req[x].pot \in Nat
    BY ReqFacts DEF Row
  <2>4. SeedKes * Cardinality(Options) \in Nat
    <3>1. PICK b \in Nat : b = Cardinality(Options)
      BY HolderSets, FS_CardinalityType
    <3> QED BY <3>1, NatTimes, OptionMarketAssumption
  <2>5. SeedKes * Cardinality(Options) + Total <= SeedKes * Cardinality(Options) + Total'
    BY <1>2, <2>4
  <2>6. req[x].pc = "commit" => req[x].pot <= SeedKes * Cardinality(Options) + Total'
    <3>1. SeedKes * Cardinality(Options) + Total \in Nat
          /\ SeedKes * Cardinality(Options) + Total' \in Nat
      BY <1>2, <2>4
    <3> QED BY <2>1, <2>3, <2>5, <3>1
  <2>7. CASE req[x].option = o
    BY <1>1, <1>2, <2>1, <2>3, <2>6, <2>7
  <2>8. CASE req[x].option # o
    BY <1>1, <2>1, <2>2, <2>6, <2>8
  <2> QED BY <2>7, <2>8
<1>4. ASSUME NEW x \in Requests
      PROVE  (LET q == req[x] IN
              /\ q.pc \in {"pot", "commit"} =>
                   /\ q.seen.kes <= pool[q.option].kes
                   /\ q.seen.version <= pool[q.option].version
                   /\ q.seen.version = pool[q.option].version => q.seen.kes = pool[q.option].kes
              /\ q.pc = "commit" =>
                   q.seen.kes <= q.pot /\ q.pot <= SeedKes * Cardinality(Options) + Total)'
  <2>1. CASE x = r
    BY <1>1, <2>1
  <2>2. CASE x # r
    BY <1>1, <1>3, <2>2
  <2> QED BY <2>1, <2>2
<1> QED BY <1>4 DEF SeenInv

LEMMA CommitTables ==
  ASSUME TypeOK, TypeOK', OfferedInv, SeenInv, Tables, NEW r \in Requests, NEW o, NEW h,
         Commits(r, o, h), NEW n, Appends(n, TradeOf(r))
  PROVE  Tables' /\ Total' = Total + req[r].amount
<1> DEFINE t == TradeOf(r)
           a == req[r].amount
<1>0. /\ o \in Options /\ o = req[r].option /\ h = <<req[r].user, o>> /\ h \in Holders
      /\ pool[o].version = req[r].seen.version /\ req[r].pc = "commit"
      /\ pool'[o].exists /\ pool'[o].kes = pool[o].kes + a
      /\ \A x \in Options \ {o} : pool'[x] = pool[x]
      /\ position'[h].cost = position[h].cost + a
      /\ \A x \in Holders \ {h} : position'[x] = position[x]
  BY DEF Commits
<1>1. /\ n \in Nat /\ Len(trades) = n /\ Len(trades') = n + 1
      /\ trades'[n + 1] = t /\ \A i \in 1..n : trades'[i] = trades[i]
  BY DEF Appends
<1>2. /\ t.option = o /\ t.user = req[r].user /\ t.amount = a /\ t.own = req[r].seen.kes
      /\ t.pot = req[r].pot /\ a \in Nat /\ pool[o].exists
  BY <1>0, ReqFacts DEF TradeOf, OfferedInv, Offered, Stages
<1>3. /\ PoolInv /\ CostInv /\ PotInv /\ PricedOnItsPool
      /\ \A x \in Options : pool[x].kes \in Nat
      /\ Total \in Nat /\ Pot \in Nat /\ SeedKes \in Nat
  BY PotBounded, Facts, OptionMarketAssumption DEF Tables, Row
<1> HIDE DEF t, a
<1>4. /\ Total' = Total + a
      /\ \A x : StakesOn(x, Len(trades))' = StakesOn(x, n) + (IF o = x THEN a ELSE 0)
      /\ \A x : StakeOf(x)' = StakeOf(x) + (IF h = x THEN a ELSE 0)
      /\ \A u : StakesBy(u)' = StakesBy(u) + (IF req[r].user = u THEN a ELSE 0)
  <2>1. Appends(n, t)
    BY DEF t
  <2>2. /\ Total' = Total + t.amount
        /\ \A x : StakesOn(x, Len(trades))'
                    = StakesOn(x, n) + (IF t.option = x THEN t.amount ELSE 0)
        /\ \A x : StakeOf(x)' = StakeOf(x) + (IF <<t.user, t.option>> = x THEN t.amount ELSE 0)
        /\ \A u : StakesBy(u)' = StakesBy(u) + (IF t.user = u THEN t.amount ELSE 0)
    BY <2>1, Appended
  <2> QED BY <1>0, <1>2, <2>2
<1>5. PoolInv'
  <2>1. ASSUME NEW x \in Options, x # o
        PROVE  StakesOn(x, Len(trades))' = StakesOn(x, n) /\ pool'[x] = pool[x]
    <3>1. StakesOn(x, n) \in Nat
      BY <1>1, StakesType
    <3>2. StakesOn(x, Len(trades))' = StakesOn(x, n) + 0
      BY <1>4, <2>1
    <3> QED BY <1>0, <2>1, <3>1, <3>2
  <2>2. pool'[o].kes = SeedKes + StakesOn(o, Len(trades))'
    <3>1. StakesOn(o, n) \in Nat
      BY <1>0, <1>1, StakesType
    <3>2. StakesOn(o, Len(trades))' = StakesOn(o, n) + a
      BY <1>4
    <3>3. pool[o].kes = SeedKes + StakesOn(o, n)
      BY <1>0, <1>1, <1>2, <1>3 DEF PoolInv
    <3> QED BY <1>0, <1>2, <1>3, <3>1, <3>2, <3>3
  <2>3. ASSUME NEW x \in Options
        PROVE  /\ pool'[x].exists => pool'[x].kes = SeedKes + StakesOn(x, Len(trades))'
               /\ ~pool'[x].exists => StakesOn(x, Len(trades))' = 0
    <3>1. CASE x = o
      BY <1>0, <2>2, <3>1
    <3>2. CASE x # o
      BY <1>1, <1>3, <2>1, <3>2 DEF PoolInv
    <3> QED BY <3>1, <3>2
  <2> QED BY <2>3 DEF PoolInv
<1>6. ASSUME NEW x \in Holders
      PROVE  position'[x].cost = StakeOf(x)' /\ (position'[x].cost > 0 => Offered(x[2])')
  <2>1. position[x].cost = StakeOf(x) /\ (position[x].cost > 0 => Offered(x[2]))
    BY <1>3 DEF CostInv
  <2>2. CASE x = h
    <3>1. position'[x].cost = StakeOf(x)'
      BY <1>0, <1>4, <2>1, <2>2
    <3>2. x[2] = o
      BY <1>0, <2>2
    <3> QED BY <1>0, <3>1, <3>2 DEF Offered
  <2>3. CASE x # h
    <3>1. StakeOf(x)' = StakeOf(x) + 0 /\ StakeOf(x) \in Nat
      BY <1>4, <2>3, StakesType
    <3>2. Offered(x[2]) => Offered(x[2])'
      BY <1>0 DEF Offered
    <3> QED BY <1>0, <2>1, <2>3, <3>1, <3>2
  <2> QED BY <2>2, <2>3
<1>7. ASSUME NEW u \in Users PROVE SumFunctionOnSet(CostOf(u)', Options) = StakesBy(u)'
  <2>1. SumFunctionOnSet(CostOf(u), Options) = StakesBy(u) /\ StakesBy(u) \in Nat
    BY <1>3, StakesType DEF CostInv
  <2>2. /\ Sums(CostOf(u), Options) /\ Sums(CostOf(u)', Options)
        /\ \A z \in Options : /\ CostOf(u)[z] = position[<<u, z>>].cost
                              /\ CostOf(u)'[z] = position'[<<u, z>>].cost
                              /\ CostOf(u)[z] \in Nat
    <3>1. Sums(CostOf(u), Options) /\ \A z \in Options : CostOf(u)[z] \in Nat
      BY CostType
    <3>2. \A z \in Options : position'[<<u, z>>].cost \in Int
      BY DEF TypeOK, Held, Holders
    <3>3. \A z \in Options : CostOf(u)'[z] \in Int
      BY <3>2 DEF CostOf
    <3>4. Sums(CostOf(u)', Options)
      BY <3>3, HolderSets DEF Sums
    <3> QED BY <3>1, <3>4 DEF CostOf
  <2>3. CASE u = req[r].user
    <3>1. \A z \in Options \ {o} : CostOf(u)[z] = CostOf(u)'[z]
      <4>1. \A z \in Options \ {o} : <<u, z>> \in Holders \ {h}
        BY <1>0 DEF Holders
      <4>2. ASSUME NEW z \in Options \ {o}
            PROVE  position'[<<u, z>>] = position[<<u, z>>]
        BY <1>0, <4>1
      <4> QED BY <2>2, <4>2
    <3>2. CostOf(u)'[o] = CostOf(u)[o] + a
      BY <1>0, <2>2, <2>3
    <3> DEFINE f == CostOf(u)
               e == CostOf(u)'
    <3>3. Sums(f, Options) /\ Sums(e, Options) /\ \A z \in Options \ {o} : f[z] = e[z]
      BY <2>2, <3>1
    <3>4. f[o] \in Nat /\ e[o] = f[o] + a
      BY <1>0, <2>2, <3>2
    <3>5. SumFunctionOnSet(f, Options) = StakesBy(u)
      BY <2>1
    <3> HIDE DEF f, e
    <3>6. SumFunctionOnSet(e, Options) = SumFunctionOnSet(f, Options) - f[o] + e[o]
      BY <1>0, <3>3, SumChange
    <3>7. SumFunctionOnSet(e, Options) = StakesBy(u) + a
      BY <1>2, <2>1, <3>4, <3>5, <3>6
    <3>8. StakesBy(u)' = StakesBy(u) + a
      BY <1>4, <2>3
    <3> QED BY <3>7, <3>8 DEF e
  <2>4. CASE u # req[r].user
    <3>1. \A z \in Options : CostOf(u)[z] = CostOf(u)'[z]
      <4>1. \A z \in Options : <<u, z>> \in Holders \ {h}
        BY <1>0, <2>4 DEF Holders
      <4>2. ASSUME NEW z \in Options
            PROVE  position'[<<u, z>>] = position[<<u, z>>]
        BY <1>0, <4>1
      <4> QED BY <2>2, <4>2
    <3>2. SumFunctionOnSet(CostOf(u)', Options) = SumFunctionOnSet(CostOf(u), Options)
      BY <2>2, <3>1, SumSame
    <3>3. StakesBy(u)' = StakesBy(u) + 0
      BY <1>4, <2>4
    <3> QED BY <2>1, <3>2, <3>3
  <2> QED BY <2>3, <2>4
<1>8. SumFunctionOnSet(Costs', Holders) = Total'
  <2>1. Sums(Costs, Holders) /\ \A x \in Holders : Costs[x] \in Nat
    BY CostType
  <2>2. Sums(Costs, Holders)'
    BY CostType, PTL
  <2>3. \A x \in Holders : Costs[x] = position[x].cost /\ Costs'[x] = position'[x].cost
    BY DEF Costs, Holders
  <2> DEFINE f == Costs
             e == Costs'
  <2>4. /\ Sums(f, Holders) /\ Sums(e, Holders) /\ \A x \in Holders \ {h} : f[x] = e[x]
        /\ f[h] \in Nat /\ e[h] = f[h] + a
    BY <1>0, <2>1, <2>2, <2>3 DEF Sums, Holders
  <2>5. SumFunctionOnSet(f, Holders) = Total
    BY <1>3 DEF CostInv
  <2> HIDE DEF f, e
  <2>6. SumFunctionOnSet(e, Holders) = SumFunctionOnSet(f, Holders) - f[h] + e[h]
    BY <1>0, <2>4, SumChange
  <2>7. SumFunctionOnSet(e, Holders) = Total + a
    BY <1>2, <1>3, <2>4, <2>5, <2>6
  <2> QED BY <1>4, <2>7 DEF e
<1>9. CostInv'
  BY <1>6, <1>7, <1>8 DEF CostInv, Holders
<1>10. PotInv'
  <2>1. Pools' = Pools /\ o \in Pools
    BY <1>0, <1>2 DEF Pools
  <2> DEFINE f == [x \in Options |-> pool[x].kes]
             e == [x \in Options |-> pool'[x].kes]
  <2>2. \A x \in Options : f[x] = pool[x].kes /\ e[x] = pool'[x].kes
    OBVIOUS
  <2>3. Sums(f, Pools) /\ Pot = SumFunctionOnSet(f, Pools) /\ Pot' = SumFunctionOnSet(e, Pools)
    BY <2>1, PotType, HolderSets DEF Pot
  <2> HIDE DEF f, e
  <2>4. \A x \in Pools \ {o} : f[x] = e[x] /\ e[x] \in Int
    BY <1>0, <1>3, <2>2, HolderSets
  <2>5. f[o] \in Nat /\ e[o] = f[o] + a
    BY <1>0, <1>3, <2>2
  <2>6. Sums(e, Pools)
    <3>1. e[o] \in Int
      BY <1>2, <2>5
    <3> QED BY <2>3, <2>4, <3>1 DEF Sums
  <2>7. SumFunctionOnSet(e, Pools) = SumFunctionOnSet(f, Pools) - f[o] + e[o]
    BY <2>1, <2>3, <2>4, <2>6, SumChange
  <2>8. Pot' = Pot + a
    BY <1>2, <1>3, <2>3, <2>5, <2>7
  <2>9. PICK s \in Nat : s = SeedKes * Cardinality(Pools)
    <3>1. Cardinality(Pools) \in Nat
      BY HolderSets, FS_CardinalityType
    <3> QED BY <1>3, <3>1
  <2>10. Pot = s + Total
    BY <1>3, <2>9 DEF PotInv
  <2>11. Pot' = s + Total'
    BY <1>2, <1>3, <1>4, <2>8, <2>10
  <2> QED BY <2>1, <2>9, <2>11 DEF PotInv
<1>11. PricedOnItsPool'
  <2>1. ASSUME NEW i \in 1..n, NEW x, x = trades'[i].option
        PROVE  /\ trades'[i].own = SeedKes + StakesOn(x, i - 1)'
               /\ trades'[i].own <= trades'[i].pot
               /\ trades'[i].pot <= SeedKes * Cardinality(Options)
                                      + SumFunctionOnSet(Stakes(i - 1)', 1..i-1)
    <3>1. i - 1 \in Nat /\ i - 1 <= n
      BY <1>1
    <3>2. (\A y : StakesOn(y, i - 1)' = StakesOn(y, i - 1)) /\ Stakes(i - 1)' = Stakes(i - 1)
      BY <3>1, AppendedBefore
    <3>3. trades'[i] = trades[i]
      BY <1>1
    <3>4. /\ trades[i].own = SeedKes + StakesOn(trades[i].option, i - 1)
          /\ trades[i].own <= trades[i].pot
          /\ trades[i].pot <= SeedKes * Cardinality(Options)
                                + SumFunctionOnSet(Stakes(i - 1), 1..i-1)
      BY <1>1, <1>3 DEF PricedOnItsPool
    <3>5. StakesOn(x, i - 1)' = StakesOn(trades[i].option, i - 1)
      BY <2>1, <3>2, <3>3
    <3> QED BY <3>2, <3>3, <3>4, <3>5
  <2>2. /\ t.own = SeedKes + StakesOn(o, n)'
        /\ t.own <= t.pot
        /\ t.pot <= SeedKes * Cardinality(Options) + SumFunctionOnSet(Stakes(n)', 1..n)
    <3>1. n <= n
      BY <1>1
    <3>2. (\A x : StakesOn(x, n)' = StakesOn(x, n)) /\ Stakes(n)' = Stakes(n)
      BY <1>1, <3>1, AppendedBefore
    <3>3. /\ req[r].seen.kes = pool[o].kes /\ req[r].seen.kes <= req[r].pot
          /\ req[r].pot <= SeedKes * Cardinality(Options) + Total
      BY <1>0 DEF SeenInv
    <3>4. pool[o].kes = SeedKes + StakesOn(o, n)
      BY <1>0, <1>1, <1>2, <1>3 DEF PoolInv
    <3>5. Total = SumFunctionOnSet(Stakes(n), 1..n)
      BY <1>1 DEF Total
    <3>6. StakesOn(o, n)' = StakesOn(o, n)
      BY <3>2
    <3>7. t.own = SeedKes + StakesOn(o, n)' /\ t.own <= t.pot
      BY <1>2, <3>3, <3>4, <3>6
    <3> QED BY <1>2, <3>2, <3>3, <3>5, <3>7
  <2>3. ASSUME NEW i \in 1..Len(trades'), NEW x, x = trades'[i].option
        PROVE  /\ trades'[i].own = SeedKes + StakesOn(x, i - 1)'
               /\ trades'[i].own <= trades'[i].pot
               /\ trades'[i].pot <= SeedKes * Cardinality(Options)
                                      + SumFunctionOnSet(Stakes(i - 1)', 1..i-1)
    <3>1. CASE i \in 1..n
      BY <2>1, <2>3, <3>1
    <3>2. CASE i \notin 1..n
      <4>1. i = n + 1 /\ i - 1 = n
        BY <1>1, <3>2
      <4>2. trades'[i] = t /\ x = o
        BY <1>1, <1>2, <2>3, <4>1
      <4> QED BY <2>2, <4>1, <4>2
    <3> QED BY <3>1, <3>2
  <2>4. ASSUME NEW i \in 1..Len(trades')
        PROVE  (LET y == trades[i] IN
                /\ y.own = SeedKes + StakesOn(y.option, i - 1)
                /\ y.own <= y.pot
                /\ y.pot <= SeedKes * Cardinality(Options)
                              + SumFunctionOnSet(Stakes(i - 1), 1..i-1))'
    <3>1. PICK x : x = trades'[i].option
      OBVIOUS
    <3>2. StakesOn(trades[i].option, i - 1)' = StakesOn(x, i - 1)'
      BY <3>1 DEF StakesOn
    <3> QED BY <2>3, <3>1, <3>2
  <2> QED BY <2>4 DEF PricedOnItsPool
<1> QED BY <1>4, <1>5, <1>9, <1>10, <1>11 DEF Tables, a

-----------------------------------------------------------------------------
(* The other steps and the books.                                          *)

LEMMA InitPoolsBooks ==
  ASSUME BInv, initOptionPools
  PROVE  KeyInv' /\ SeenInv' /\ Tables'
<1>0. TypeOK /\ OfferedInv /\ KeyInv /\ SeenInv /\ Tables
  BY DEF BInv, TInv
<1>1. PICK o \in Options \ Pools :
        pool' = [pool EXCEPT ![o] = [NoRow EXCEPT !.exists = TRUE, !.kes = SeedKes]]
  BY DEF initOptionPools
<1>2. /\ pool'[o].exists /\ pool'[o].kes = SeedKes /\ ~pool[o].exists
      /\ \A x \in Options \ {o} : pool'[x] = pool[x]
  <2> DEFINE y == [NoRow EXCEPT !.exists = TRUE, !.kes = SeedKes]
  <2>1. y.exists /\ y.kes = SeedKes
    BY DEF NoRow
  <2> HIDE DEF y
  <2>2. pool' = [pool EXCEPT ![o] = y] /\ pool \in [Options -> Row]
    BY <1>0, <1>1, Facts DEF y
  <2>3. pool'[o] = y /\ \A x \in Options \ {o} : pool'[x] = pool[x]
    BY <2>2
  <2> QED BY <2>1, <2>3 DEF Pools
<1>3. UNCHANGED <<trades, position, charged, req>>
  BY DEF initOptionPools, wallet
<1>4. Total' = Total
  BY <1>3 DEF Total, Stakes
<1>5. KeyInv'
  BY <1>0, <1>3 DEF KeyInv, TradesOf
<1>6. SeenInv'
  <2>1. ASSUME NEW x \in Requests, req[x].pc \in {"pot", "commit"}
        PROVE  pool'[req[x].option] = pool[req[x].option]
    <3>1. req[x].option \in Options /\ pool[req[x].option].exists
      BY <1>0, <2>1 DEF OfferedInv, Offered, Stages
    <3> QED BY <1>2, <3>1
  <2> QED BY <1>0, <1>3, <1>4, <2>1 DEF SeenInv
<1>7. PoolInv'
  <2>1. \A x : StakesOn(x, Len(trades))' = StakesOn(x, Len(trades))
    BY <1>3 DEF StakesOn, Stakes
  <2>2. StakesOn(o, Len(trades)) = 0
    BY <1>0, <1>2 DEF Tables, PoolInv
  <2>3. SeedKes + 0 = SeedKes
    BY OptionMarketAssumption
  <2>4. ASSUME NEW x \in Options
        PROVE  /\ pool'[x].exists => pool'[x].kes = SeedKes + StakesOn(x, Len(trades))'
               /\ ~pool'[x].exists => StakesOn(x, Len(trades))' = 0
    <3>1. CASE x = o
      BY <1>2, <2>1, <2>2, <2>3, <3>1
    <3>2. CASE x # o
      BY <1>0, <1>2, <2>1, <3>2 DEF Tables, PoolInv
    <3> QED BY <3>1, <3>2
  <2> QED BY <2>4 DEF PoolInv
<1>8. CostInv'
  <2>1. \A u \in Users : CostOf(u)' = CostOf(u) /\ StakesBy(u)' = StakesBy(u)
    BY <1>3 DEF CostOf, StakesBy, Stakes, getMyOptionTrades
  <2>2. \A h \in Holders : StakeOf(h)' = StakeOf(h)
    BY <1>3 DEF StakeOf, Stakes
  <2>3. Costs' = Costs /\ Holders' = Holders
    BY <1>3 DEF Costs, Holders
  <2>4. \A h \in Holders : Offered(h[2]) => Offered(h[2])'
    BY <1>2 DEF Offered
  <2>5. CostInv
    BY <1>0 DEF Tables
  <2> QED BY <1>3, <1>4, <2>1, <2>2, <2>3, <2>4, <2>5 DEF CostInv
<1>9. PotInv'
  <2>1. Pools' = Pools \cup {o} /\ o \notin Pools /\ Pools \cup {o} \in SUBSET Options
    BY <1>2 DEF Pools
  <2> DEFINE f == [x \in Options |-> pool[x].kes]
             e == [x \in Options |-> pool'[x].kes]
  <2>2. /\ \A x \in Pools : f[x] = e[x] /\ e[x] \in Int
        /\ e[o] = SeedKes /\ SeedKes \in Nat
    <3>1. \A x \in Pools : x \in Options \ {o} /\ pool[x].kes \in Nat
      BY <1>0, <2>1, Facts, HolderSets DEF Row
    <3>2. \A x \in Pools : pool'[x].kes = pool[x].kes
      BY <1>2, <3>1
    <3> QED BY <1>2, <3>1, <3>2, OptionMarketAssumption
  <2>3. Pot = SumFunctionOnSet(f, Pools) /\ Pot' = SumFunctionOnSet(e, Pools \cup {o})
    BY <2>1 DEF Pot
  <2>4. Pot \in Nat /\ Total \in Nat
    BY <1>0, PotBounded
  <2> HIDE DEF f, e
  <2>5. Sums(e, Pools \cup {o}) /\ Sums(f, Pools)
    <3>1. IsFiniteSet(Pools \cup {o}) /\ IsFiniteSet(Pools)
      BY <2>1, HolderSets, FS_Subset
    <3> QED BY <2>2, <3>1 DEF Sums
  <2>6. SumFunctionOnSet(e, Pools \cup {o}) = e[o] + SumFunctionOnSet(e, Pools)
    BY <2>1, <2>5, SumAdd
  <2>7. SumFunctionOnSet(f, Pools) = SumFunctionOnSet(e, Pools)
    BY <2>2, <2>5, SumSame
  <2>8. Pot' = SeedKes + Pot
    BY <2>2, <2>3, <2>6, <2>7
  <2>9. PICK c \in Nat : c = Cardinality(Pools) /\ Cardinality(Pools \cup {o}) = c + 1
    BY <2>1, HolderSets, FS_CardinalityType, FS_AddElement
  <2>10. PICK s \in Nat : s = SeedKes * c
    BY <2>2
  <2>11. SeedKes * (c + 1) = s + SeedKes
    BY <2>2, <2>10
  <2>12. Pot = s + Total
    BY <1>0, <2>9, <2>10 DEF Tables, PotInv
  <2>13. Pot' = (s + SeedKes) + Total'
    BY <1>4, <2>2, <2>4, <2>8, <2>12
  <2> QED BY <2>1, <2>9, <2>11, <2>13 DEF PotInv
<1>10. PricedOnItsPool'
  BY <1>0, <1>3 DEF Tables, PricedOnItsPool, StakesOn, Stakes
<1> QED BY <1>5, <1>6, <1>7, <1>8, <1>9, <1>10 DEF Tables

(* Steps that neither buy nor open a pool. *)
LEMMA BooksStay ==
  ASSUME BInv, UNCHANGED <<charged, req>>, SameTables
  PROVE  KeyInv' /\ SeenInv' /\ Tables'
<1>0. KeyInv /\ SeenInv /\ Tables /\ pool' = pool /\ trades' = trades
  BY DEF BInv, SameTables
<1>1. KeyInv'
  BY <1>0 DEF KeyInv, TradesOf
<1>2. SeenInv'
  BY <1>0 DEF SeenInv, Total, Stakes
<1> QED BY <1>0, <1>1, <1>2, TablesStay

LEMMA SettleSame ==
  ASSUME TypeOK, Settle \/ Crash \/ PayWinner
  PROVE  UNCHANGED <<faults, market, wallet, req, refunded>> /\ SameTables
<1>1. UNCHANGED <<faults, market, wallet, req, pool, trades, refunded>>
  BY DEF Settle, ReadPools, FindWinners, MarkWinner, FindLosers, CloseLosers,
         PublishSettlements, RefundMarket, Crash, PayWinner, Still, books
<1>2. position \in [Holders -> Held]
  BY Facts
<1>3. \A h \in Holders : \A k : Settled(h, k).cost = position[h].cost
  BY <1>2 DEF Settled, Held
<1>4. CASE MarkWinner
  <2>1. PICK h \in con.todo : position' = [position EXCEPT ![h] = Settled(h, payoutKes(h))]
    BY <1>4 DEF MarkWinner
  <2>2. h \in Holders
    BY ConFacts
  <2>3. \A x \in Holders : position'[x].cost = position[x].cost
    BY <1>2, <1>3, <2>1, <2>2
  <2> QED BY <1>1, <2>3 DEF SameTables
<1>5. CASE CloseLosers
  <2>1. \A x \in Holders : position'[x] = IF x \in Open(Losing) THEN Settled(x, 0) ELSE position[x]
    BY <1>5 DEF CloseLosers
  <2>2. \A x \in Holders : position'[x].cost = position[x].cost
    BY <1>3, <2>1
  <2> QED BY <1>1, <2>2 DEF SameTables
<1>6. CASE UNCHANGED position
  BY <1>1, <1>6 DEF SameTables
<1> QED BY <1>4, <1>5, <1>6 DEF Settle, ReadPools, FindWinners, FindLosers,
           PublishSettlements, RefundMarket, Crash, PayWinner, books

(* The verdict comes before the settlement.                                *)
LEMMA SettleEarly ==
  ASSUME TypeOK, EarlyInv, Settle \/ Crash \/ PayWinner
  PROVE  EarlyInv' /\ (status = "RESOLVED" \/ RefundMarket)
<1>1. status' = status
  BY DEF Settle, ReadPools, FindWinners, MarkWinner, FindLosers, CloseLosers,
         PublishSettlements, RefundMarket, Crash, PayWinner, Still, market
<1>2. CASE status = "RESOLVED"
  BY <1>1, <1>2 DEF EarlyInv
<1>3. CASE RefundMarket
  <2>1. status = "CANCELLED" /\ UNCHANGED <<books, fanout, paid>>
    BY <1>3 DEF RefundMarket
  <2>2. con'.pc = "done" /\ con'.out = con.out /\ con'.crashes = con.crashes
    BY <1>3, Finishes DEF Turns
  <2> QED BY <1>1, <1>3, <2>1, <2>2 DEF EarlyInv
<1>4. CASE PayWinner
  BY <1>2, <1>4 DEF PayWinner, EarlyInv
<1> QED BY <1>2, <1>3, <1>4 DEF Settle, ReadPools, FindWinners, MarkWinner, FindLosers,
           CloseLosers, PublishSettlements, Crash, EarlyInv

LEMMA NextBInv == BInv /\ [Next]_vars => BInv'
<1> SUFFICES ASSUME BInv, [Next]_vars PROVE BInv'
  OBVIOUS
<1>0. TypeOK /\ OfferedInv /\ TInv /\ KeyInv /\ SeenInv /\ Tables /\ EarlyInv
  BY DEF BInv, TInv
<1>1. TInv' /\ TypeOK'
  BY <1>0, NextTInv DEF TInv
<1>2. CASE UNCHANGED vars
  <2>1. UNCHANGED <<charged, req>> /\ SameTables
    BY <1>2 DEF vars, books, wallet, SameTables
  <2>2. EarlyInv'
    BY <1>0, <1>2 DEF EarlyInv, vars, market, books, end, Holders
  <2> QED BY <1>1, <2>1, <2>2, BooksStay DEF BInv
<1>3. ASSUME NEW r \in Requests, Handle(r), ~CommitTrade(r) PROVE BInv'
  <2>1. UNCHANGED <<faults, market, books, end>>
    BY <1>0, <1>3, HandlerSteps
  <2>2. EarlyInv'
    BY <1>0, <2>1 DEF EarlyInv, market, books, end, Holders
  <2> QED BY <1>1, <1>3, <2>2, HandleBooks DEF BInv
<1>4. ASSUME NEW r \in Requests, CommitTrade(r) PROVE BInv'
  <2>1. PICK o, h, n : Commits(r, o, h) /\ Appends(n, TradeOf(r))
    BY <1>0, <1>4, CommitSteps
  <2>2. Tables' /\ Total' = Total + req[r].amount
    BY <1>0, <1>1, <2>1, CommitTables
  <2>3. KeyInv'
    BY <1>0, <2>1, CommitKeys
  <2>4. Total \in Nat
    BY <1>0, PotBounded
  <2>5. SeenInv'
    BY <1>0, <2>1, <2>2, <2>4, CommitSeen
  <2>6. EarlyInv'
    <3>1. /\ UNCHANGED <<market, end>> /\ h \in Holders
          /\ position'[h].settled = position[h].settled
          /\ \A x \in Holders \ {h} : position'[x] = position[x]
      BY <2>1 DEF Commits
    <3>2. \A x \in Holders : position'[x].settled = position[x].settled
      BY <3>1
    <3> QED BY <1>0, <3>1, <3>2 DEF EarlyInv, market, end, Holders
  <2> QED BY <1>1, <2>2, <2>3, <2>5, <2>6 DEF BInv
<1>5. CASE Activate
  <2>1. UNCHANGED <<charged, req>> /\ SameTables
    BY <1>5 DEF Activate, books, wallet, SameTables
  <2>2. EarlyInv'
    BY <1>0, <1>5 DEF Activate, EarlyInv, books, end, Holders
  <2> QED BY <1>1, <2>1, <2>2, BooksStay DEF BInv
<1>6. CASE Verdict
  <2>1. UNCHANGED <<charged, req>> /\ SameTables
    BY <1>6 DEF Verdict, books, wallet, SameTables
  <2>2. con'.pc = con.pc /\ con'.out = con.out /\ con'.crashes = con.crashes
    BY <1>0, <1>6, VerdictTurns DEF Turns
  <2>3. EarlyInv'
    BY <1>0, <1>6, <2>2 DEF Verdict, EarlyInv, books, Holders
  <2> QED BY <1>1, <2>1, <2>3, BooksStay DEF BInv
<1>7. CASE initOptionPools
  <2>1. EarlyInv'
    BY <1>0, <1>7 DEF initOptionPools, EarlyInv, market, end, Holders
  <2> QED BY <1>1, <1>7, <2>1, InitPoolsBooks DEF BInv
<1>8. CASE Settle \/ Crash \/ PayWinner
  <2>1. UNCHANGED <<charged, req>> /\ SameTables
    BY <1>0, <1>8, SettleSame DEF wallet
  <2> QED BY <1>0, <1>1, <1>8, <2>1, BooksStay, SettleEarly DEF BInv
<1> QED BY <1>2, <1>3, <1>4, <1>5, <1>6, <1>7, <1>8 DEF Next

(* Every trade is priced on its option's pool as the trade before left it, *)
(* over a pot that is no smaller than the pool and no larger than the true *)
(* pot: executeOptionTrade's two reads, and the commits between them.      *)
THEOREM PricedOnItsPoolHolds == Spec => []PricedOnItsPool
<1>1. BInv => PricedOnItsPool
  BY DEF BInv, Tables
<1> QED BY <1>1, InitBooks, NextBInv, PTL DEF Spec

-----------------------------------------------------------------------------
(* What users are shown.                                                   *)

LEMMA TradesOnce ==
  ASSUME BInv, NEW k \in Keys
  PROVE  /\ Cardinality(TradesOf(k)) \in 0..1
         /\ TradesOf(k) # {} => Cardinality(TradesOf(k)) = 1
<1>1. \A i, j \in TradesOf(k) : i = j
  BY DEF BInv, KeyInv, TradesOf
<1>2. CASE TradesOf(k) = {}
  BY <1>2, FS_EmptySet
<1>3. CASE TradesOf(k) # {}
  <2>1. PICK i : TradesOf(k) = {i}
    BY <1>1, <1>3
  <2>2. Cardinality({i}) = 1
    BY FS_Singleton
  <2> QED BY <2>1, <2>2
<1> QED BY <1>2, <1>3

LEMMA ShownCosts ==
  ASSUME BInv, status \in {"DRAFT", "ACTIVE"}, NEW u \in Users
  PROVE  CostShown(u) = StakesBy(u)
<1>0. TypeOK /\ CostInv /\ EarlyInv
  BY DEF BInv, TInv, Tables
<1> DEFINE D == {x \in Options : <<u, x>> \in Open(Holders)}
           f == CostOf(u)
           e == [o \in D |-> position[<<u, o>>].cost]
<1>1. CostShown(u) = SumFunctionOnSet(e, D)
  <2>1. DOMAIN getMyOptionPositions(u) = D
    BY DEF getMyOptionPositions
  <2>2. \A o \in D : getMyOptionPositions(u)[o].costKes = position[<<u, o>>].cost
    BY DEF getMyOptionPositions
  <2>3. [o \in DOMAIN getMyOptionPositions(u) |-> getMyOptionPositions(u)[o].costKes] = e
    BY <2>1, <2>2
  <2> QED BY <2>1, <2>3 DEF CostShown
<1>2. /\ Sums(f, Options)
      /\ \A o \in Options : f[o] \in Nat /\ f[o] = position[<<u, o>>].cost
  BY <1>0, CostType
<1>3. \A o \in Options \ D : f[o] = 0
  <2>1. \A o \in Options : <<u, o>> \in Holders /\ ~position[<<u, o>>].settled
    BY <1>0 DEF EarlyInv, Holders
  <2>2. \A o \in Options \ D : ~(position[<<u, o>>].cost > 0)
    BY <2>1 DEF Open
  <2> QED BY <1>2, <2>2
<1>4. D \in SUBSET Options /\ \A o \in D : e[o] = position[<<u, o>>].cost
  OBVIOUS
<1> HIDE DEF D, e, f
<1>5. SumFunctionOnSet(f, Options) = SumFunctionOnSet(f, D)
  BY <1>2, <1>3, <1>4, SumWithin
<1>6. SumFunctionOnSet(f, D) = SumFunctionOnSet(e, D)
  <2>1. Sums(f, D)
    BY <1>2, <1>4, SumsSub
  <2> QED BY <1>2, <1>4, <2>1, SumSame
<1>7. SumFunctionOnSet(f, Options) = StakesBy(u)
  BY <1>0 DEF CostInv, f
<1> QED BY <1>1, <1>5, <1>6, <1>7

(* A price is at most 100.                                                 *)
LEMMA PriceBound ==
  ASSUME NEW k \in Nat, NEW p \in Nat, p # 0, k <= p
  PROVE  (100 * k) \div p \in Nat /\ (100 * k) \div p <= 100
<1>1. 100 * k \in Nat /\ 100 * k <= 100 * p
  OBVIOUS
<1>2. (100 * k) \div p \in Nat /\ p * ((100 * k) \div p) <= 100 * k
  BY <1>1, Quotient
<1>3. ASSUME NEW q \in Nat, p * q <= 100 * p PROVE q <= 100
  BY <1>3
<1> DEFINE q == (100 * k) \div p
<1>4. q \in Nat /\ p * q <= 100 * k
  BY <1>2
<1> HIDE DEF q
<1>5. p * q <= 100 * p
  <2>1. PICK x \in Nat : x = p * q
    BY <1>4
  <2> QED BY <1>1, <1>4, <2>1
<1>6. q <= 100
  BY <1>3, <1>4, <1>5
<1> QED BY <1>4, <1>6 DEF q

LEMMA SumPart ==
  ASSUME NEW S, NEW T \in SUBSET S, IsFiniteSet(S), NEW f, \A x \in S : f[x] \in Nat
  PROVE  SumFunctionOnSet(f, T) <= SumFunctionOnSet(f, S)
<1> DEFINE e == [x \in S |-> IF x \in T THEN f[x] ELSE 0]
<1>1. /\ \A x \in S : e[x] \in Nat /\ e[x] <= f[x]
      /\ \A x \in T : e[x] = f[x]
      /\ \A x \in S \ T : e[x] = 0
  OBVIOUS
<1> HIDE DEF e
<1>2. Sums(f, S) /\ Sums(e, S)
  BY <1>1 DEF Sums
<1>3. SumFunctionOnSet(e, S) <= SumFunctionOnSet(f, S)
  BY <1>1, <1>2, SumBelow
<1>4. SumFunctionOnSet(e, S) = SumFunctionOnSet(e, T)
  BY <1>1, <1>2, SumWithin
<1>5. SumFunctionOnSet(e, T) = SumFunctionOnSet(f, T)
  <2>1. Sums(e, T)
    BY <1>2, SumsSub
  <2> QED BY <1>1, <2>1, SumSame
<1> QED BY <1>3, <1>4, <1>5

LEMMA ShownValues ==
  ASSUME BInv
  PROVE  ValueShown <= 100 * Pot
<1>0. TypeOK /\ Tables /\ CostInv
  BY DEF BInv, TInv, Tables
<1>1. Pot \in Nat /\ Total \in Nat /\ Total <= Pot /\ \A o \in Pools : pool[o].kes <= Pot
  BY <1>0, PotBounded
<1>2. PICK O \in SUBSET Holders : O = Open(Holders)
  BY OpenType
<1>3. /\ \A h \in Holders : Costs[h] \in Nat /\ Costs[h] = position[h].cost
      /\ SumFunctionOnSet(Costs, Holders) = Total
      /\ Sums(Costs, Holders)
  BY <1>0, CostType DEF CostInv
<1>4. \A h \in Holders : Costs[h] <= Total
  BY <1>3, HolderSets, SumAtLeast
<1>5. \A h \in O : Costs[h] > 0 /\ h[2] \in Pools
  BY <1>0, <1>2, <1>3 DEF Open, CostInv, Offered, Pools
<1> DEFINE g == [h \in Open(Holders) |-> getMarketOptionPositions(h[1])[h[2]].currentValue]
<1>6. ASSUME NEW h \in O
      PROVE  g[h] \in Nat /\ g[h] <= Costs[h] * 100
  <2>1. h \in Holders /\ Costs[h] \in Nat /\ Costs[h] > 0 /\ h[2] \in Pools
    BY <1>3, <1>5
  <2>2. Pot # 0
    BY <1>1, <1>4, <2>1
  <2>3. getOptionPrices[h[2]] = (100 * pool[h[2]].kes) \div Pot
    BY <2>1, <2>2 DEF getOptionPrices
  <2>4. PICK p \in Nat : p = getOptionPrices[h[2]] /\ p <= 100
    <3>1. pool[h[2]].kes \in Nat /\ pool[h[2]].kes <= Pot
      BY <1>0, <1>1, <2>1, Facts, HolderSets DEF Row
    <3> QED BY <1>1, <2>2, <2>3, <3>1, PriceBound
  <2>5. g[h] = Costs[h] * p
    <3>1. h = <<h[1], h[2]>> /\ h[1] \in Users /\ h[2] \in Options
      BY <2>1 DEF Holders
    <3>2. h[2] \in {x \in Options : <<h[1], x>> \in Open(Holders)}
      BY <1>2, <3>1
    <3>3. getMyOptionPositions(h[1])[h[2]].currentValue
            = position[<<h[1], h[2]>>].cost * getOptionPrices[h[2]]
      BY <3>2 DEF getMyOptionPositions
    <3> QED BY <1>2, <1>3, <2>1, <2>4, <3>1, <3>3 DEF getMarketOptionPositions
  <2> HIDE DEF g
  <2>6. PICK c \in Nat : c = Costs[h]
    BY <2>1
  <2>7. c * p \in Nat /\ c * p <= c * 100
    BY <2>4, <2>6
  <2> QED BY <2>5, <2>6, <2>7
<1>7. ValueShown = SumFunctionOnSet(g, O)
  BY <1>2 DEF ValueShown
<1> HIDE DEF g
<1> DEFINE e == [h \in O |-> Costs[h] * 100]
<1>8. \A h \in O : e[h] = Costs[h] * 100 /\ e[h] \in Int
  BY <1>3
<1> HIDE DEF e
<1>9. IsFiniteSet(O) /\ Sums(Costs, O)
  BY <1>3, HolderSets, FS_Subset, SumsSub
<1>10. Sums(g, O) /\ Sums(e, O) /\ \A h \in O : g[h] <= e[h]
  BY <1>6, <1>8, <1>9 DEF Sums
<1>11. SumFunctionOnSet(g, O) <= SumFunctionOnSet(e, O)
  BY <1>10, SumBelow
<1>12. SumFunctionOnSet(e, O) = SumFunctionOnSet(Costs, O) * 100
  <2>1. 100 \in Int /\ \A h \in O : e[h] = Costs[h] * 100
    BY <1>8
  <2> QED BY <1>9, <2>1, SumTimes
<1>13. SumFunctionOnSet(Costs, O) <= Total
  BY <1>3, HolderSets, SumPart
<1>14. SumFunctionOnSet(Costs, O) \in Int /\ SumFunctionOnSet(g, O) \in Int
  BY <1>9, <1>10, SumInt
<1> QED BY <1>1, <1>7, <1>11, <1>12, <1>13, <1>14

(* The pools, the positions and the trades agree in every state, users are *)
(* shown what their trades cost until the verdict, and values that together*)
(* do not exceed the pot; a key is one trade and at most one debit, and one*)
(* debit if it is confirmed.                                               *)
THEOREM BooksAgreeHolds == Spec => []BooksAgree
<1>1. BInv => BooksAgree
  <2> SUFFICES ASSUME BInv PROVE BooksAgree
    OBVIOUS
  <2>0. TypeOK /\ KeyInv /\ PoolInv /\ CostInv
    BY DEF BInv, TInv, Tables
  <2>1. \A o \in Pools : pool[o].kes = SeedKes + StakesOn(o, Len(trades))
    BY <2>0 DEF PoolInv, Pools
  <2>2. \A h \in Holders : position[h].cost = StakeOf(h)
    BY <2>0 DEF CostInv
  <2>3. status \in {"DRAFT", "ACTIVE"} => \A u \in Users : CostShown(u) = StakesBy(u)
    BY ShownCosts
  <2>4. ASSUME NEW k \in Keys
        PROVE  Cardinality(TradesOf(k)) <= 1 /\ charged[k] <= Cardinality(TradesOf(k))
    <3>1. /\ Cardinality(TradesOf(k)) \in 0..1
          /\ TradesOf(k) # {} => Cardinality(TradesOf(k)) = 1
      BY TradesOnce
    <3>2. charged[k] \in 0..1 /\ (charged[k] = 1 => TradesOf(k) # {})
      BY <2>0 DEF KeyInv
    <3> QED BY <3>1, <3>2
  <2>5. \A r \in Requests : At(r, "confirmed") => charged[req[r].key] = 1
    BY <2>0 DEF KeyInv, At
  <2> QED BY <2>1, <2>2, <2>3, <2>4, <2>5, ShownValues DEF BooksAgree
<1> QED BY <1>1, InitBooks, NextBInv, PTL DEF Spec

-----------------------------------------------------------------------------
(* The payouts.  What the settlement holds while it runs: what it pays is  *)
(* worked out from one pot and one table of shares, the winners it has not *)
(* marked yet are not settled, and what it will publish, has published or  *)
(* the wallet has paid is what the settled positions say.                  *)
Nonzero(M)   == {m \in M : m.amount # 0}
PaidOn(h, a) == h[2] = winner /\ position[h].settled /\ position[h].payout = a
Afterwards   == {"mark", "losers", "close", "publish"}

HandlerInv ==
  /\ con.pc \in {"pools", "winners"} => con.out = {}
  /\ con.pc = "winners" => con.pot <= Pot
  /\ con.pc = "mark" => \A h \in con.todo : h[2] = winner /\ ~position[h].settled
  /\ con.pc \in Afterwards =>
       con.pot <= Pot /\ \A m \in Nonzero(con.out) : m.amount = payoutKes(m.holder)

PaidInv ==
  /\ \A m \in Nonzero(con.out) : PaidOn(m.holder, m.amount)
  /\ \A m \in Nonzero(fanout) : PaidOn(m.holder, m.amount)
  /\ \A h \in Holders : paid[h] \notin {None, 0} => PaidOn(h, paid[h])

(* What was published of a position is promised to its holder.  While the  *)
(* settlement has never stopped, or nobody has bought after the verdict,   *)
(* all the promises together are at most the pot: a repetition finds no    *)
(* winning position that is open once something was published.             *)
Published(h) == paid[h] \notin {None, 0} \/ \E m \in Nonzero(fanout) : m.holder = h
Promised(h)  == IF Published(h) THEN position[h].payout ELSE 0
Promises     == [h \in Holders |-> Promised(h)]
Silent       == \A h \in Holders : ~Published(h)
Dry          == Open(Of(winner)) = {}

SteadyInv ==
  /\ con.before <= Len(trades)
  /\ con.crashes = 0 /\ con.pc # "done" => Silent
  /\ con.crashes = 0 \/ Len(trades) = con.before => SumFunctionOnSet(Promises, Holders) <= Pot
  /\ status = "RESOLVED" /\ Len(trades) = con.before =>
       /\ con.pc \in Afterwards => Silent
       /\ Silent \/ Dry
       /\ con.pc = "mark" => Open(Of(winner)) \subseteq con.todo
       /\ con.pc \in {"losers", "close", "publish"} => Dry

PayInv == BInv /\ HandlerInv /\ PaidInv /\ SteadyInv

LEMMA PromiseType ==
  ASSUME TypeOK
  PROVE  /\ \A h \in Holders : Promises[h] = Promised(h) /\ Promised(h) \in Nat
         /\ \A h \in Holders : position[h].payout \in Nat
         /\ Sums(Promises, Holders) /\ SumFunctionOnSet(Promises, Holders) \in Nat
<1>1. \A h \in Holders : position[h].payout \in Nat
  BY Facts DEF Held
<1>2. \A h \in Holders : Promises[h] = Promised(h) /\ Promised(h) \in Nat
  BY <1>1 DEF Promises, Promised
<1>3. Sums(Promises, Holders)
  BY <1>2, HolderSets DEF Sums
<1>4. SumFunctionOnSet(Promises, Holders) \in Nat
  <2>1. \A h \in Holders : Promises[h] \in Nat
    BY <1>2
  <2> QED BY <2>1, HolderSets, SumNat
<1> QED BY <1>1, <1>2, <1>3, <1>4

(* Nothing published is nothing promised. *)
LEMMA SilentSum ==
  ASSUME TypeOK, Silent
  PROVE  SumFunctionOnSet(Promises, Holders) <= Pot
<1>1. \A h \in Holders \ {} : Promises[h] = 0
  BY PromiseType DEF Silent, Promised
<1>2. SumFunctionOnSet(Promises, Holders) = SumFunctionOnSet(Promises, {})
  BY <1>1, PromiseType, SumWithin
<1>3. SumFunctionOnSet(Promises, Holders) = 0
  BY <1>2, SumEmpty
<1> QED BY <1>3, PotType

(* The pot never shrinks. *)
LEMMA PotGrows ==
  ASSUME BInv, [Next]_vars
  PROVE  Pot <= Pot' /\ Pot \in Nat /\ Pot' \in Nat
<1>0. BInv' /\ TypeOK /\ Tables /\ OfferedInv
  BY NextBInv DEF BInv, TInv
<1>1. TypeOK' /\ PotInv /\ PotInv'
  BY <1>0 DEF BInv, TInv, Tables
<1>2. Pot \in Nat /\ Total \in Nat
  BY <1>0, PotBounded
<1>3. (Pot \in Nat)'
  BY <1>1, PotType, PTL
<1>4. Pools \subseteq Pools' /\ Total <= Total' /\ Total' \in Nat
  <2>1. CASE UNCHANGED <<pool, trades>>
    BY <1>2, <2>1 DEF Pools, Total, Stakes
  <2>2. ASSUME NEW r \in Requests, CommitTrade(r)
        PROVE  Pools \subseteq Pools' /\ Total <= Total' /\ Total' \in Nat
    <3>1. PICK o, h, n : Commits(r, o, h) /\ Appends(n, TradeOf(r))
      BY <1>0, <2>2, CommitSteps
    <3>2. Total' = Total + TradeOf(r).amount
      BY <3>1, Appended
    <3>3. TradeOf(r).amount \in Nat
      BY <1>0, ReqFacts DEF TradeOf
    <3>4. Pools \subseteq Pools'
      BY <3>1 DEF Commits, Pools
    <3> QED BY <1>2, <3>2, <3>3, <3>4
  <2>3. CASE initOptionPools
    <3>1. trades' = trades
      BY <2>3 DEF initOptionPools
    <3>2. Total' = Total
      BY <3>1 DEF Total, Stakes
    <3>3. PICK o \in Options \ Pools :
            pool' = [pool EXCEPT ![o] = [NoRow EXCEPT !.exists = TRUE, !.kes = SeedKes]]
      BY <2>3 DEF initOptionPools
    <3>4. \A x \in Options \ {o} : pool'[x] = pool[x]
      <4> DEFINE y == [NoRow EXCEPT !.exists = TRUE, !.kes = SeedKes]
      <4>1. pool' = [pool EXCEPT ![o] = y]
        BY <3>3
      <4> HIDE DEF y
      <4> QED BY <1>0, <4>1, Facts
    <3>5. Pools \subseteq Pools'
      BY <3>3, <3>4 DEF Pools
    <3> QED BY <1>2, <3>2, <3>5
  <2>4. CASE UNCHANGED vars
    BY <2>1, <2>4 DEF vars, books
  <2>5. ASSUME NEW r \in Requests, Handle(r), ~CommitTrade(r) PROVE UNCHANGED <<pool, trades>>
    BY <1>0, <2>5, HandlerSteps DEF books
  <2>6. CASE Activate \/ Verdict
    BY <2>1, <2>6 DEF Activate, Verdict, books
  <2>7. CASE Settle \/ Crash \/ PayWinner
    BY <1>0, <2>1, <2>7, SettleSame DEF SameTables
  <2> QED BY <2>1, <2>2, <2>3, <2>4, <2>5, <2>6, <2>7 DEF Next
<1>5. IsFiniteSet(Pools)'
  BY HolderSets, PTL
<1>6. PICK a \in Nat : a = Cardinality(Pools)
  BY HolderSets, FS_CardinalityType
<1>7. PICK b \in Nat : b = Cardinality(Pools')
  BY <1>5, FS_CardinalityType
<1>8. a <= b
  BY <1>4, <1>5, <1>6, <1>7, FS_Subset
<1>9. SeedKes * a <= SeedKes * b /\ SeedKes * a \in Nat /\ SeedKes * b \in Nat
  BY <1>8, NatTimes, OptionMarketAssumption
<1>10. Pot = SeedKes * a + Total /\ Pot' = SeedKes * b + Total'
  BY <1>1, <1>6, <1>7 DEF PotInv
<1>11. Pot <= Pot'
  BY <1>2, <1>4, <1>9, <1>10
<1> QED BY <1>2, <1>3, <1>11

(* A step that promises no more. *)
LEMMA PromisesBelow ==
  ASSUME TypeOK, TypeOK', \A h \in Holders : Promised(h)' <= Promised(h),
         Pot <= Pot', Pot \in Nat, Pot' \in Nat, SumFunctionOnSet(Promises, Holders) <= Pot
  PROVE  SumFunctionOnSet(Promises', Holders) <= Pot'
<1>1. /\ \A h \in Holders : Promises[h] = Promised(h)
      /\ Sums(Promises, Holders) /\ SumFunctionOnSet(Promises, Holders) \in Nat
  BY PromiseType
<1>2. Sums(Promises, Holders)' /\ (SumFunctionOnSet(Promises, Holders) \in Nat)'
  BY PromiseType, PTL
<1>3. \A h \in Holders : Promises'[h] = Promised(h)'
  BY DEF Promises, Holders
<1>4. Sums(Promises', Holders) /\ SumFunctionOnSet(Promises', Holders) \in Nat
  BY <1>2 DEF Holders, Sums
<1>5. \A h \in Holders : Promises'[h] <= Promises[h]
  BY <1>1, <1>3
<1> DEFINE f == Promises
           e == Promises'
<1>6. Sums(e, Holders) /\ Sums(f, Holders) /\ \A h \in Holders : e[h] <= f[h]
  BY <1>1, <1>4, <1>5
<1> HIDE DEF e, f
<1>7. SumFunctionOnSet(e, Holders) <= SumFunctionOnSet(f, Holders)
  BY <1>6, SumBelow
<1>8. SumFunctionOnSet(Promises', Holders) <= SumFunctionOnSet(Promises, Holders)
  BY <1>7 DEF e, f
<1> QED BY <1>1, <1>4, <1>8

LEMMA InitPayInv == Init => PayInv
<1> SUFFICES ASSUME Init PROVE PayInv
  OBVIOUS
<1>0. BInv /\ TypeOK
  BY InitBooks DEF BInv, TInv
<1>1. /\ con.pc = "pools" /\ con.out = {} /\ con.before = 0 /\ fanout = {}
      /\ \A h \in Holders : paid[h] = None
      /\ trades = <<>> /\ status = "DRAFT"
  BY DEF Init, Waiting
<1>2. HandlerInv
  BY <1>1 DEF HandlerInv, Afterwards
<1>3. PaidInv
  BY <1>1 DEF PaidInv, Nonzero
<1>4. Silent
  BY <1>1 DEF Silent, Published, Nonzero
<1>5. SumFunctionOnSet(Promises, Holders) <= Pot
  BY <1>0, <1>4, SilentSum
<1>6. con.before <= Len(trades)
  BY <1>1
<1>7. SteadyInv
  BY <1>1, <1>4, <1>5, <1>6 DEF SteadyInv
<1> QED BY <1>0, <1>2, <1>3, <1>7 DEF PayInv

(* Everything that was published is of a winner, and settled. *)
LEMMA PublishedPaid ==
  ASSUME PaidInv, NEW h \in Holders, Published(h)
  PROVE  h[2] = winner /\ position[h].settled
BY DEF PaidInv, Published, PaidOn

(* Steps that neither publish nor pay. *)
LEMMA PublishedSame ==
  ASSUME UNCHANGED <<fanout, paid>>
  PROVE  (\A h : Published(h)' <=> Published(h)) /\ (Silent' <=> Silent)
<1>1. \A h : Published(h)' <=> Published(h)
  BY DEF Published, Nonzero
<1> QED BY <1>1 DEF Silent, Holders

LEMMA PromisedSame ==
  ASSUME TypeOK, PaidInv, UNCHANGED <<fanout, paid>>,
         \A h \in Holders : h[2] = winner /\ position[h].settled
                              => position'[h].payout = position[h].payout
  PROVE  \A h \in Holders : Promised(h)' <= Promised(h)
<1> SUFFICES ASSUME NEW h \in Holders PROVE Promised(h)' <= Promised(h)
  OBVIOUS
<1>1. Published(h)' <=> Published(h)
  BY PublishedSame
<1>2. position[h].payout \in Nat /\ 0 <= 0
  BY PromiseType
<1>3. CASE Published(h)
  <2>1. position'[h].payout = position[h].payout
    BY <1>3, PublishedPaid
  <2>2. Promised(h)' = position[h].payout /\ Promised(h) = position[h].payout
    BY <1>1, <1>3, <2>1 DEF Promised
  <2> QED BY <1>2, <2>2
<1>4. CASE ~Published(h)
  <2>1. Promised(h)' = 0 /\ Promised(h) = 0
    BY <1>1, <1>4 DEF Promised
  <2> QED BY <2>1
<1> QED BY <1>3, <1>4

(* A payout that is on record stays there. *)
Kept ==
  /\ winner' = winner
  /\ \A h \in Holders : h[2] = winner /\ position[h].settled
       => /\ position'[h].settled
          /\ position'[h].payout = position[h].payout

LEMMA PaidOnKept ==
  ASSUME Kept, NEW h \in Holders, NEW a, PaidOn(h, a)
  PROVE  PaidOn(h, a)'
BY DEF Kept, PaidOn

LEMMA PaidKept ==
  ASSUME TypeOK, PaidInv, Kept, UNCHANGED <<fanout, paid>>, Nonzero(con'.out) \subseteq Nonzero(con.out)
  PROVE  PaidInv'
<1>1. con.out \in SUBSET Payouts /\ fanout \in SUBSET Payouts
  BY ConFacts, Facts
<1>2. \A m \in Payouts : m.holder \in Holders
  BY DEF Payouts
<1>3. ASSUME NEW m \in Nonzero(con'.out) PROVE PaidOn(m.holder, m.amount)'
  <2>1. m \in Nonzero(con.out)
    OBVIOUS
  <2>2. m.holder \in Holders /\ PaidOn(m.holder, m.amount)
    BY <1>1, <1>2, <2>1 DEF Nonzero, PaidInv
  <2> QED BY <2>2, PaidOnKept
<1>4. ASSUME NEW m \in Nonzero(fanout') PROVE PaidOn(m.holder, m.amount)'
  <2>1. m.holder \in Holders /\ PaidOn(m.holder, m.amount)
    BY <1>1, <1>2 DEF Nonzero, PaidInv
  <2> QED BY <2>1, PaidOnKept
<1>5. ASSUME NEW h \in Holders, paid'[h] \notin {None, 0} PROVE PaidOn(h, paid[h])'
  <2>1. PICK a : a = paid[h]
    OBVIOUS
  <2>2. PaidOn(h, a) /\ paid'[h] = a
    BY <1>5, <2>1 DEF PaidInv
  <2>3. PaidOn(h, a)'
    BY <2>2, PaidOnKept
  <2> QED BY <2>2, <2>3 DEF PaidOn
<1>6. \A m \in Nonzero(con.out)' : PaidOn(m.holder, m.amount)'
  BY <1>3 DEF Nonzero
<1>7. \A m \in Nonzero(fanout)' : PaidOn(m.holder, m.amount)'
  BY <1>4 DEF Nonzero
<1>8. \A h \in Holders : (paid[h] \notin {None, 0} => PaidOn(h, paid[h]))'
  BY <1>5
<1> QED BY <1>6, <1>7, <1>8 DEF PaidInv, Holders

(* The sum of the promises after a step that publishes nothing. *)
LEMMA SteadySum ==
  ASSUME PayInv, [Next]_vars, \A h \in Holders : Promised(h)' <= Promised(h),
         con.crashes = 0 \/ Len(trades) = con.before
  PROVE  (SumFunctionOnSet(Promises, Holders) <= Pot)'
<1>1. BInv /\ TypeOK /\ SteadyInv
  BY DEF PayInv, BInv, TInv
<1>2. BInv' /\ TypeOK'
  BY <1>1, NextBInv DEF BInv, TInv
<1>3. Pot <= Pot' /\ Pot \in Nat /\ Pot' \in Nat
  BY <1>1, PotGrows
<1>4. SumFunctionOnSet(Promises, Holders) <= Pot
  BY <1>1 DEF SteadyInv
<1>5. SumFunctionOnSet(Promises', Holders) <= Pot'
  BY <1>1, <1>2, <1>3, <1>4, PromisesBelow
<1> QED BY <1>5 DEF Holders

(* The steps of the requests and of the market but the verdict: the        *)
(* settlement does not see them, or sees a trade that came after it.       *)
LEMMA OutsidePay ==
  ASSUME PayInv, [Next]_vars, UNCHANGED <<winner, con, fanout, paid>>,
         status' = "RESOLVED" => status = "RESOLVED",
         \A h \in Holders : position'[h].settled = position[h].settled
                            /\ position'[h].payout = position[h].payout,
         \/ UNCHANGED <<trades, position>>
         \/ Len(trades') = Len(trades) + 1
  PROVE  PayInv'
<1>0. BInv /\ TypeOK /\ HandlerInv /\ PaidInv /\ SteadyInv
  BY DEF PayInv, BInv, TInv
<1>1. BInv' /\ TypeOK'
  BY <1>0, NextBInv DEF BInv, TInv
<1>2. Pot <= Pot' /\ Pot \in Nat /\ Pot' \in Nat /\ con.pot \in Nat
  BY <1>0, PotGrows, ConFacts
<1>3. HandlerInv'
  <2>1. con.pot <= Pot => con.pot <= Pot'
    BY <1>2
  <2>2. \A h : payoutKes(h)' = payoutKes(h)
    BY DEF payoutKes, Holders
  <2>3. con.todo \in SUBSET Holders
    BY <1>0, ConFacts
  <2> QED BY <1>0, <2>1, <2>2, <2>3 DEF HandlerInv, Nonzero, Afterwards
<1>4. PaidInv'
  <2>1. Kept
    BY DEF Kept
  <2> QED BY <1>0, <2>1, PaidKept
<1>5. \A h \in Holders : Promised(h)' <= Promised(h)
  BY <1>0, PromisedSame
<1>6. Silent' <=> Silent
  BY PublishedSame
<1>7. Len(trades) \in Nat /\ con.before \in Nat /\ con.before <= Len(trades)
  BY <1>0, Facts, ConFacts DEF SteadyInv
<1>8. CASE UNCHANGED <<trades, position>>
  <2>1. Open(Of(winner))' = Open(Of(winner)) /\ (Dry' <=> Dry)
    BY <1>8 DEF Open, Of, Dry
  <2>2. SteadyInv'
    BY <1>0, <1>5, <1>6, <1>8, <2>1, SteadySum DEF SteadyInv, Afterwards
  <2> QED BY <1>1, <1>3, <1>4, <2>2 DEF PayInv
<1>9. CASE Len(trades') = Len(trades) + 1
  <2>1. Len(trades') # con.before /\ con.before <= Len(trades')
    BY <1>7, <1>9
  <2>2. SteadyInv'
    BY <1>0, <1>5, <1>6, <2>1, SteadySum DEF SteadyInv
  <2> QED BY <1>1, <1>3, <1>4, <2>2 DEF PayInv
<1> QED BY <1>8, <1>9

(* The verdict: nothing was published before.                              *)
LEMMA VerdictPay ==
  ASSUME PayInv, Verdict
  PROVE  PayInv'
<1>0. BInv /\ TypeOK /\ [Next]_vars
  BY DEF PayInv, BInv, TInv, Next
<1>1. BInv' /\ TypeOK'
  BY <1>0, NextBInv DEF BInv, TInv
<1>2. Turns(con.pc, con.pot, con.todo, con.shares, con.out, con.crashes, Len(trades))
  BY <1>0, VerdictTurns
<1>3. /\ con.pc = "pools" /\ con.out = {} /\ fanout = {} /\ \A h \in Holders : paid[h] = None
      /\ UNCHANGED <<fanout, paid, trades>>
  BY <1>0 DEF Verdict, BInv, EarlyInv, books
<1>4. /\ con'.pc = "pools" /\ con'.out = {} /\ fanout' = {} /\ \A h \in Holders : paid'[h] = None
      /\ con'.before = Len(trades')
  BY <1>2, <1>3 DEF Turns
<1>5. HandlerInv'
  BY <1>4 DEF HandlerInv, Afterwards
<1>6. PaidInv'
  BY <1>4 DEF PaidInv, Nonzero, Holders
<1>7. Silent'
  BY <1>4 DEF Silent, Published, Nonzero, Holders
<1>8. (SumFunctionOnSet(Promises, Holders) <= Pot)'
  BY <1>1, <1>7, SilentSum, PTL
<1>9. con'.before <= Len(trades')
  BY <1>0, <1>3, <1>4, Facts
<1>10. SteadyInv'
  BY <1>4, <1>7, <1>8, <1>9 DEF SteadyInv, Afterwards
<1> QED BY <1>1, <1>5, <1>6, <1>10 DEF PayInv

-----------------------------------------------------------------------------
(* The steps of the settlement.                                            *)

(* What all of them leave alone. *)
LEMMA SettleFrame ==
  ASSUME PayInv, Settle \/ Crash \/ PayWinner
  PROVE  /\ BInv /\ TypeOK /\ HandlerInv /\ PaidInv /\ SteadyInv /\ EarlyInv /\ Divides
         /\ BInv' /\ [Next]_vars
         /\ UNCHANGED <<status, winner, trades>> /\ Pot' = Pot
         /\ \A h \in Holders : position'[h].cost = position[h].cost
<1>1. /\ BInv /\ TypeOK /\ HandlerInv /\ PaidInv /\ SteadyInv /\ EarlyInv /\ Divides
      /\ [Next]_vars
  BY DEF PayInv, BInv, TInv, Next
<1>2. BInv'
  BY <1>1, NextBInv
<1>3. UNCHANGED <<status, winner>> /\ SameTables
  BY <1>1, SettleSame DEF market
<1>4. Pot' = Pot
  BY <1>3 DEF SameTables, Pot, Pools
<1> QED BY <1>1, <1>2, <1>3, <1>4 DEF SameTables

(* Steps that change no position and publish nothing. *)
LEMMA QuietSettle ==
  ASSUME PayInv, Settle \/ Crash \/ PayWinner, UNCHANGED <<position, fanout, paid>>,
         con'.before = con.before, con'.crashes = con.crashes,
         HandlerInv', Nonzero(con'.out) \subseteq Nonzero(con.out),
         con.crashes = 0 /\ con'.pc # "done" => Silent,
         status = "RESOLVED" /\ Len(trades) = con.before =>
           /\ con'.pc \in Afterwards => Silent
           /\ con'.pc = "mark" => Open(Of(winner)) \subseteq con'.todo
           /\ con'.pc \in {"losers", "close", "publish"} => Dry
  PROVE  PayInv'
<1>0. /\ BInv /\ TypeOK /\ HandlerInv /\ PaidInv /\ SteadyInv
      /\ BInv' /\ [Next]_vars
      /\ UNCHANGED <<status, winner, trades>>
  BY SettleFrame
<1>1. Kept
  BY <1>0 DEF Kept
<1>2. PaidInv'
  BY <1>0, <1>1, PaidKept
<1>3. \A h \in Holders : Promised(h)' <= Promised(h)
  BY <1>0, PromisedSame
<1>4. Silent' <=> Silent
  BY PublishedSame
<1>5. Open(Of(winner))' = Open(Of(winner)) /\ (Dry' <=> Dry)
  BY <1>0 DEF Open, Of, Dry
<1>6. con.crashes = 0 \/ Len(trades) = con.before
        => (SumFunctionOnSet(Promises, Holders) <= Pot)'
  BY <1>0, <1>3, SteadySum
<1>7. SteadyInv'
  BY <1>0, <1>4, <1>5, <1>6 DEF SteadyInv, Afterwards
<1> QED BY <1>0, <1>2, <1>7 DEF PayInv

LEMMA ReadPoolsPay ==
  ASSUME PayInv, ReadPools
  PROVE  PayInv'
<1>0. /\ TypeOK /\ HandlerInv /\ SteadyInv /\ Pot' = Pot /\ Pot \in Nat
  BY SettleFrame, PotType DEF Settle
<1>1. PICK p \in {"done", "winners"} :
        Turns(p, Pot, con.todo, con.shares, con.out, con.crashes, con.before)
  BY <1>0, ReadPoolsTurns
<1>2. /\ con'.pc = p /\ con'.pot = Pot /\ con'.out = con.out
      /\ con'.crashes = con.crashes /\ con'.before = con.before
  BY <1>1 DEF Turns
<1>3. con.pc = "pools" /\ UNCHANGED <<position, fanout, paid>>
  BY DEF ReadPools, books
<1>4. con.out = {} /\ (con.crashes = 0 => Silent)
  BY <1>0, <1>3 DEF HandlerInv, SteadyInv
<1>5. HandlerInv'
  BY <1>0, <1>1, <1>2, <1>4 DEF HandlerInv, Afterwards
<1> QED BY <1>1, <1>2, <1>3, <1>4, <1>5, QuietSettle DEF Settle, Afterwards

LEMMA FindWinnersPay ==
  ASSUME PayInv, FindWinners
  PROVE  PayInv'
<1>0. /\ TypeOK /\ HandlerInv /\ SteadyInv /\ Pot' = Pot
      /\ UNCHANGED <<winner, status, trades>>
  BY SettleFrame DEF Settle
<1>1. con.pc = "winners" /\ UNCHANGED <<position, fanout, paid>>
  BY DEF FindWinners, books
<1>2. con.out = {} /\ con.pot <= Pot /\ (con.crashes = 0 => Silent)
  BY <1>0, <1>1 DEF HandlerInv, SteadyInv
<1>3. CASE /\ Open(Of(winner)) = {}
           /\ Turns("done", con.pot, con.todo, con.shares, con.out, con.crashes, con.before)
  <2>1. /\ con'.pc = "done" /\ con'.out = con.out
        /\ con'.crashes = con.crashes /\ con'.before = con.before
    BY <1>3 DEF Turns
  <2>2. HandlerInv'
    BY <2>1 DEF HandlerInv, Afterwards
  <2> QED BY <1>1, <2>1, <2>2, QuietSettle DEF Settle, Afterwards
<1>4. CASE /\ Open(Of(winner)) # {}
           /\ Turns("mark", con.pot, Open(Of(winner)), ReadShares(Open(Of(winner))), con.out,
                    con.crashes, con.before)
  <2>1. /\ con'.pc = "mark" /\ con'.pot = con.pot /\ con'.todo = Open(Of(winner))
        /\ con'.out = con.out /\ con'.crashes = con.crashes /\ con'.before = con.before
    BY <1>4 DEF Turns
  <2>2. \A h \in Open(Of(winner)) : h[2] = winner /\ ~position[h].settled
    BY DEF Open, Of
  <2>3. HandlerInv'
    BY <1>0, <1>1, <1>2, <2>1, <2>2 DEF HandlerInv, Afterwards, Nonzero
  <2>4. status = "RESOLVED" /\ Len(trades) = con.before => Silent
    BY <1>0, <1>4 DEF SteadyInv, Dry
  <2> QED BY <1>1, <1>2, <2>1, <2>3, <2>4, QuietSettle DEF Settle, Afterwards
<1> QED BY <1>0, <1>3, <1>4, FindWinnersTurns

(* A winner is marked: no payout on record is of a position that is open.  *)
LEMMA MarkPay ==
  ASSUME PayInv, MarkWinner
  PROVE  PayInv'
<1>0. /\ BInv /\ TypeOK /\ HandlerInv /\ PaidInv /\ SteadyInv /\ EarlyInv /\ Divides
      /\ BInv' /\ [Next]_vars
      /\ UNCHANGED <<status, winner, trades>> /\ Pot' = Pot
      /\ \A h \in Holders : position'[h].cost = position[h].cost
  BY SettleFrame DEF Settle
<1>1. con.pc = "mark" /\ UNCHANGED <<fanout, paid>>
  BY DEF MarkWinner
<1>2. SharesSum > 0
  BY <1>0, <1>1 DEF Divides
<1>3. PICK h \in con.todo :
           /\ position' = [position EXCEPT ![h] = Settled(h, payoutKes(h))]
           /\ \E p \in {"losers", "mark"} :
                /\ p = "losers" <=> con.todo = {h}
                /\ Turns(p, con.pot, con.todo \ {h}, con.shares,
                         con.out \cup {[holder |-> h, amount |-> payoutKes(h)]},
                         con.crashes, con.before)
  BY <1>0, <1>2, MarkTurns
<1>4. PICK p \in {"losers", "mark"} :
           /\ p = "losers" <=> con.todo = {h}
           /\ Turns(p, con.pot, con.todo \ {h}, con.shares,
                    con.out \cup {[holder |-> h, amount |-> payoutKes(h)]},
                    con.crashes, con.before)
  BY <1>3
<1> DEFINE new == [holder |-> h, amount |-> payoutKes(h)]
<1>5. /\ con'.pc = p /\ con'.pot = con.pot /\ con'.todo = con.todo \ {h}
      /\ con'.shares = con.shares /\ con'.out = con.out \cup {new}
      /\ con'.crashes = con.crashes /\ con'.before = con.before
  BY <1>4 DEF Turns
<1>6. /\ con.todo \in SUBSET Holders /\ h \in Holders
      /\ h[2] = winner /\ ~position[h].settled
      /\ \A x \in con.todo : x[2] = winner /\ ~position[x].settled
      /\ con.pot <= Pot /\ \A m \in Nonzero(con.out) : m.amount = payoutKes(m.holder)
  BY <1>0, <1>1, ConFacts DEF HandlerInv, Afterwards
<1>7. \A x : payoutKes(x)' = payoutKes(x)
  BY <1>5 DEF payoutKes, Holders
<1>8. /\ \A x \in Holders \ {h} : position'[x] = position[x]
      /\ position'[h].settled /\ position'[h].payout = payoutKes(h)
  <2>1. position \in [Holders -> Held]
    BY <1>0, Facts
  <2>2. PICK k : k = payoutKes(h)
    OBVIOUS
  <2> DEFINE y == [position[h] EXCEPT !.settled = TRUE, !.payout = k]
  <2>3. y.settled /\ y.payout = k
    BY <1>6, <2>1 DEF Held
  <2> HIDE DEF y
  <2>4. position' = [position EXCEPT ![h] = y]
    BY <1>3, <2>2 DEF y, Settled
  <2> QED BY <1>6, <2>1, <2>2, <2>3, <2>4
<1>9. Kept
  BY <1>0, <1>6, <1>8 DEF Kept
<1>10. new.holder = h /\ new.amount = payoutKes(h)
  OBVIOUS
<1> HIDE DEF new
<1>11. HandlerInv'
  <2>1. \A m \in Nonzero(con'.out) : m.amount = payoutKes(m.holder)
    BY <1>5, <1>6, <1>10 DEF Nonzero
  <2>2. \A m \in Nonzero(con.out)' : m.amount = payoutKes(m.holder)'
    BY <1>7, <2>1 DEF Nonzero
  <2>3. con'.pc \notin {"pools", "winners"} /\ con'.pot <= Pot'
    BY <1>0, <1>4, <1>5, <1>6
  <2>4. \A x \in con'.todo : x[2] = winner' /\ ~position'[x].settled
    BY <1>0, <1>5, <1>6, <1>8
  <2> QED BY <2>2, <2>3, <2>4 DEF HandlerInv
<1>12. PaidInv'
  <2>1. \A m \in Payouts : m.holder \in Holders
    BY DEF Payouts
  <2>2. con.out \in SUBSET Payouts /\ fanout \in SUBSET Payouts
    BY <1>0, ConFacts, Facts
  <2>3. ASSUME NEW m \in Nonzero(con'.out) PROVE PaidOn(m.holder, m.amount)'
    <3>1. CASE m = new
      BY <1>0, <1>6, <1>8, <1>10, <3>1 DEF PaidOn
    <3>2. CASE m # new
      <4>1. m \in Nonzero(con.out)
        BY <1>5, <3>2 DEF Nonzero
      <4>2. m.holder \in Holders /\ PaidOn(m.holder, m.amount)
        BY <1>0, <2>1, <2>2, <4>1 DEF Nonzero, PaidInv
      <4> QED BY <1>9, <4>2, PaidOnKept
    <3> QED BY <3>1, <3>2
  <2>4. ASSUME NEW m \in Nonzero(fanout') PROVE PaidOn(m.holder, m.amount)'
    <3>1. m.holder \in Holders /\ PaidOn(m.holder, m.amount)
      BY <1>0, <1>1, <2>1, <2>2 DEF Nonzero, PaidInv
    <3> QED BY <1>9, <3>1, PaidOnKept
  <2>5. ASSUME NEW x \in Holders, paid'[x] \notin {None, 0} PROVE PaidOn(x, paid[x])'
    <3>1. PICK a : a = paid[x]
      OBVIOUS
    <3>2. PaidOn(x, a) /\ paid'[x] = a
      BY <1>0, <1>1, <2>5, <3>1 DEF PaidInv
    <3>3. PaidOn(x, a)'
      BY <1>9, <3>2, PaidOnKept
    <3> QED BY <3>2, <3>3 DEF PaidOn
  <2>6. \A m \in Nonzero(con.out)' : PaidOn(m.holder, m.amount)'
    BY <2>3 DEF Nonzero
  <2>7. \A m \in Nonzero(fanout)' : PaidOn(m.holder, m.amount)'
    BY <2>4 DEF Nonzero
  <2>8. \A x \in Holders : (paid[x] \notin {None, 0} => PaidOn(x, paid[x]))'
    BY <2>5
  <2> QED BY <2>6, <2>7, <2>8 DEF PaidInv, Holders
<1>13. SteadyInv'
  <2>1. \A x \in Holders : Promised(x)' <= Promised(x)
    BY <1>0, <1>1, <1>6, <1>8, PromisedSame
  <2>2. Silent' <=> Silent
    BY <1>1, PublishedSame
  <2>3. con.crashes = 0 \/ Len(trades) = con.before
          => (SumFunctionOnSet(Promises, Holders) <= Pot)'
    BY <1>0, <2>1, SteadySum
  <2>4. con.crashes = 0 => Silent
    BY <1>0, <1>1 DEF SteadyInv
  <2>5. status = "RESOLVED" /\ Len(trades) = con.before =>
          Silent /\ Open(Of(winner)) \subseteq con.todo
    BY <1>0, <1>1 DEF SteadyInv, Afterwards
  <2>6. Open(Of(winner))' \subseteq Open(Of(winner)) \ {h}
    <3>1. Of(winner)' = Of(winner) /\ Of(winner) \in SUBSET Holders
      BY <1>0, HolderSets, Facts DEF Of
    <3> QED BY <1>8, <3>1 DEF Open
  <2>7. status = "RESOLVED" /\ Len(trades) = con.before =>
          /\ Silent'
          /\ Open(Of(winner))' \subseteq con'.todo
          /\ con'.pc = "losers" => Dry'
    BY <1>4, <1>5, <2>2, <2>5, <2>6 DEF Dry
  <2>8. con'.before <= Len(trades') /\ con'.pc \in {"losers", "mark"}
    BY <1>0, <1>4, <1>5 DEF SteadyInv
  <2>9. con'.crashes = 0 => Silent'
    BY <1>5, <2>2, <2>4
  <2> QED BY <1>0, <1>5, <2>3, <2>7, <2>8, <2>9 DEF SteadyInv
<1> QED BY <1>0, <1>11, <1>12, <1>13 DEF PayInv

LEMMA FindLosersPay ==
  ASSUME PayInv, FindLosers
  PROVE  PayInv'
<1>0. /\ TypeOK /\ HandlerInv /\ SteadyInv /\ Pot' = Pot
      /\ UNCHANGED <<winner, status, trades>>
  BY SettleFrame DEF Settle
<1>1. con.pc = "losers" /\ UNCHANGED <<position, fanout, paid>>
  BY DEF FindLosers, books
<1>2. Turns("close", con.pot, con.todo, con.shares,
            con.out \cup [holder: Open(Losing), amount: {0}], con.crashes, con.before)
  BY <1>0, FindLosersTurns
<1>3. /\ con'.pc = "close" /\ con'.pot = con.pot /\ con'.shares = con.shares
      /\ con'.out = con.out \cup [holder: Open(Losing), amount: {0}]
      /\ con'.crashes = con.crashes /\ con'.before = con.before
  BY <1>2 DEF Turns
<1>4. Nonzero(con'.out) = Nonzero(con.out)
  <2>1. \A m \in [holder: Open(Losing), amount: {0}] : m.amount = 0
    OBVIOUS
  <2> QED BY <1>3, <2>1 DEF Nonzero
<1>5. HandlerInv'
  <2>1. \A x : payoutKes(x)' = payoutKes(x)
    BY <1>3 DEF payoutKes, Holders
  <2>2. con.pot <= Pot /\ \A m \in Nonzero(con.out) : m.amount = payoutKes(m.holder)
    BY <1>0, <1>1 DEF HandlerInv, Afterwards
  <2>3. \A m \in Nonzero(con.out)' : m.amount = payoutKes(m.holder)'
    BY <1>4, <2>1, <2>2 DEF Nonzero
  <2> QED BY <1>0, <1>3, <2>2, <2>3 DEF HandlerInv
<1>6. /\ con.crashes = 0 => Silent
      /\ status = "RESOLVED" /\ Len(trades) = con.before => Silent /\ Dry
  BY <1>0, <1>1 DEF SteadyInv, Afterwards
<1> QED BY <1>1, <1>3, <1>4, <1>5, <1>6, QuietSettle DEF Settle, Afterwards

(* The losing positions are closed: no payout on record is of one of them. *)
LEMMA ClosePay ==
  ASSUME PayInv, CloseLosers
  PROVE  PayInv'
<1>0. /\ BInv /\ TypeOK /\ HandlerInv /\ PaidInv /\ SteadyInv
      /\ BInv' /\ [Next]_vars
      /\ UNCHANGED <<status, winner, trades>> /\ Pot' = Pot
  BY SettleFrame DEF Settle
<1>1. con.pc = "close" /\ UNCHANGED <<fanout, paid>>
  BY DEF CloseLosers
<1>2. Turns("publish", con.pot, con.todo, con.shares, con.out, con.crashes, con.before)
  BY <1>0, CloseTurns
<1>3. /\ con'.pc = "publish" /\ con'.pot = con.pot /\ con'.shares = con.shares
      /\ con'.out = con.out /\ con'.crashes = con.crashes /\ con'.before = con.before
  BY <1>2 DEF Turns
<1>4. \A h \in Holders : h[2] = winner => position'[h] = position[h]
  <2>1. \A h \in Holders :
          position'[h] = IF h \in Open(Losing) THEN Settled(h, 0) ELSE position[h]
    BY DEF CloseLosers
  <2>2. \A h \in Holders : h[2] = winner => h \in Of(winner)
    BY DEF Of, Holders
  <2>3. \A h \in Holders : h[2] = winner => h \notin Open(Losing)
    BY <2>2 DEF Open, Losing
  <2> QED BY <2>1, <2>3
<1>5. Kept
  BY <1>0, <1>4 DEF Kept
<1>6. HandlerInv'
  <2>1. \A x : payoutKes(x)' = payoutKes(x)
    BY <1>3 DEF payoutKes, Holders
  <2>2. con.pot <= Pot /\ \A m \in Nonzero(con.out) : m.amount = payoutKes(m.holder)
    BY <1>0, <1>1 DEF HandlerInv, Afterwards
  <2>3. \A m \in Nonzero(con.out)' : m.amount = payoutKes(m.holder)'
    BY <1>3, <2>1, <2>2 DEF Nonzero
  <2> QED BY <1>0, <1>3, <2>2, <2>3 DEF HandlerInv
<1>7. PaidInv'
  BY <1>0, <1>1, <1>3, <1>5, PaidKept
<1>8. SteadyInv'
  <2>1. \A x \in Holders : Promised(x)' <= Promised(x)
    BY <1>0, <1>1, <1>4, PromisedSame
  <2>2. Silent' <=> Silent
    BY <1>1, PublishedSame
  <2>3. con.crashes = 0 \/ Len(trades) = con.before
          => (SumFunctionOnSet(Promises, Holders) <= Pot)'
    BY <1>0, <2>1, SteadySum
  <2>4. Dry' <=> Dry
    <3>1. Of(winner)' = Of(winner) /\ \A h \in Of(winner) : h \in Holders /\ h[2] = winner
      BY <1>0, Facts DEF Of, Holders
    <3> QED BY <1>4, <3>1 DEF Dry, Open
  <2>5. /\ con.crashes = 0 => Silent
        /\ status = "RESOLVED" /\ Len(trades) = con.before => Silent /\ Dry
    BY <1>0, <1>1 DEF SteadyInv, Afterwards
  <2>6. con'.before <= Len(trades')
    BY <1>0, <1>3 DEF SteadyInv
  <2> QED BY <1>0, <1>3, <2>2, <2>3, <2>4, <2>5, <2>6 DEF SteadyInv
<1> QED BY <1>0, <1>6, <1>7, <1>8 DEF PayInv

(* The batch is published.  Nothing was promised before, and what is now   *)
(* promised are shares of one pot, each rounded down.                      *)
LEMMA PublishedSum ==
  ASSUME PayInv, PublishSettlements, fanout' = fanout \cup con.out,
         con.crashes = 0 \/ Len(trades) = con.before
  PROVE  (SumFunctionOnSet(Promises, Holders) <= Pot)'
<1>0. /\ BInv /\ TypeOK /\ HandlerInv /\ PaidInv /\ SteadyInv /\ EarlyInv /\ Divides
      /\ BInv' /\ Pot' = Pot
  BY SettleFrame DEF Settle
<1>1. /\ con.pc = "publish" /\ UNCHANGED <<paid, position, winner>>
  BY DEF PublishSettlements, books, Still, market
<1>2. Silent
  BY <1>0, <1>1 DEF SteadyInv, EarlyInv, Afterwards
<1>3. /\ con.pot <= Pot /\ \A m \in Nonzero(con.out) : m.amount = payoutKes(m.holder)
      /\ SharesSum > 0
  BY <1>0, <1>1 DEF HandlerInv, Afterwards, Divides
<1>4. /\ con.pot \in Nat /\ Pot \in Nat /\ SharesSum \in Nat
      /\ \A h \in Holders : con.shares[h] \in Nat
  BY <1>0, ConFacts, PotType, SharesType
<1>5. ASSUME NEW h \in Holders, Published(h)'
      PROVE  Promised(h)' = payoutKes(h)
  <2>1. PICK m \in Nonzero(con.out) : m.holder = h
    <3>1. ~Published(h) /\ paid'[h] = paid[h]
      BY <1>1, <1>2 DEF Silent
    <3>2. \E m \in Nonzero(fanout') : m.holder = h
      BY <1>5, <3>1 DEF Published, Nonzero
    <3> QED BY <3>1, <3>2 DEF Published, Nonzero
  <2>2. PaidOn(h, m.amount) /\ m.amount = payoutKes(h)
    BY <1>0, <1>3, <2>1 DEF PaidInv
  <2>3. position'[h].payout = payoutKes(h)
    BY <1>1, <2>2 DEF PaidOn
  <2> QED BY <1>5, <2>3 DEF Promised
<1>6. ASSUME NEW h \in Holders, ~Published(h)'
      PROVE  Promised(h)' = 0
  BY <1>6 DEF Promised
<1>7. ASSUME NEW h \in Holders
      PROVE  Promised(h)' \in Nat /\ SharesSum * Promised(h)' <= con.shares[h] * con.pot
  <2>1. payoutKes(h) \in Nat /\ SharesSum * payoutKes(h) <= con.shares[h] * con.pot
    BY <1>0, <1>3, PayoutType
  <2>2. CASE Published(h)'
    BY <1>5, <2>1, <2>2
  <2>3. CASE ~Published(h)'
    <3>1. SharesSum * 0 = 0
      BY <1>4
    <3>2. con.shares[h] * con.pot \in Nat
      BY <1>4
    <3> QED BY <1>6, <2>3, <3>1, <3>2
  <2> QED BY <2>2, <2>3
<1> DEFINE g == Promises'
           s == con.shares
           D == SharesSum
           P == con.pot
<1>8. \A h \in Holders : g[h] = Promised(h)'
  BY DEF Promises, Holders
<1>9. /\ \A h \in Holders : s[h] \in Nat /\ g[h] \in Nat /\ D * g[h] <= s[h] * P
      /\ SumFunctionOnSet(s, Holders) = D /\ D \in Nat /\ D # 0 /\ P \in Nat
  BY <1>3, <1>4, <1>7, <1>8 DEF SharesSum
<1> HIDE DEF g, s, D, P
<1>10. IsFiniteSet(Holders)
  BY HolderSets
<1>11. SumFunctionOnSet(g, Holders) <= P
  BY <1>9, <1>10, DividedOut
<1>12. SumFunctionOnSet(g, Holders) \in Nat
  BY <1>9, <1>10, SumNat
<1>13. P <= Pot /\ P \in Nat
  BY <1>3, <1>4 DEF P
<1>14. SumFunctionOnSet(Promises', Holders) <= Pot
  BY <1>4, <1>11, <1>12, <1>13 DEF g
<1> QED BY <1>0, <1>14 DEF Holders

LEMMA PublishPay ==
  ASSUME PayInv, PublishSettlements
  PROVE  PayInv'
<1>0. /\ BInv /\ TypeOK /\ HandlerInv /\ PaidInv /\ SteadyInv /\ EarlyInv
      /\ BInv' /\ [Next]_vars
      /\ UNCHANGED <<status, winner, trades>> /\ Pot' = Pot
  BY SettleFrame DEF Settle
<1>1. con.pc = "publish" /\ UNCHANGED <<position, paid>>
  BY DEF PublishSettlements, books
<1>2. /\ con'.pc = "done" /\ con'.out = con.out
      /\ con'.crashes = con.crashes /\ con'.before = con.before
  BY <1>0, Finishes DEF Turns
<1>3. HandlerInv'
  BY <1>2 DEF HandlerInv, Afterwards
<1>4. CASE fanout' = fanout
  BY <1>1, <1>2, <1>3, <1>4, QuietSettle DEF Settle, Afterwards
<1>5. CASE fanout' = fanout \cup con.out
  <2>1. PaidInv'
    <3>1. \A h \in Holders : \A a : PaidOn(h, a)' <=> PaidOn(h, a)
      BY <1>0, <1>1 DEF PaidOn
    <3>2. Nonzero(fanout') = Nonzero(fanout) \cup Nonzero(con.out) /\ Nonzero(con'.out) = Nonzero(con.out)
      BY <1>2, <1>5 DEF Nonzero
    <3>3. \A m \in Nonzero(fanout') \cup Nonzero(con'.out) : PaidOn(m.holder, m.amount)
      BY <1>0, <3>2 DEF PaidInv
    <3>4. ASSUME NEW m, PaidOn(m.holder, m.amount) PROVE PaidOn(m.holder, m.amount)'
      BY <1>0, <1>1, <3>4 DEF PaidOn
    <3>5. ASSUME NEW h \in Holders, paid'[h] \notin {None, 0} PROVE PaidOn(h, paid[h])'
      BY <1>0, <1>1, <3>5 DEF PaidInv, PaidOn
    <3>6. \A m \in Nonzero(con.out)' : PaidOn(m.holder, m.amount)'
      BY <3>3, <3>4 DEF Nonzero
    <3>7. \A m \in Nonzero(fanout)' : PaidOn(m.holder, m.amount)'
      BY <3>3, <3>4 DEF Nonzero
    <3>8. \A h \in Holders : (paid[h] \notin {None, 0} => PaidOn(h, paid[h]))'
      BY <3>5
    <3> QED BY <3>6, <3>7, <3>8 DEF PaidInv, Holders
  <2>2. SteadyInv'
    <3>1. Dry' <=> Dry
      BY <1>0, <1>1 DEF Dry, Open, Of
    <3>2. status = "RESOLVED" /\ Len(trades) = con.before => Dry
      BY <1>0, <1>1 DEF SteadyInv
    <3>3. con.crashes = 0 \/ Len(trades) = con.before
            => (SumFunctionOnSet(Promises, Holders) <= Pot)'
      BY <1>5, PublishedSum
    <3>4. con'.before <= Len(trades')
      BY <1>0, <1>2 DEF SteadyInv
    <3> QED BY <1>0, <1>2, <3>1, <3>2, <3>3, <3>4 DEF SteadyInv, Afterwards
  <2> QED BY <1>0, <1>3, <2>1, <2>2 DEF PayInv
<1> QED BY <1>4, <1>5 DEF PublishSettlements

LEMMA RefundPay ==
  ASSUME PayInv, RefundMarket
  PROVE  PayInv'
<1>0. TypeOK /\ HandlerInv /\ SteadyInv
  BY SettleFrame DEF Settle
<1>1. /\ con.pc = "pools" /\ UNCHANGED <<position, fanout, paid>>
  BY DEF RefundMarket, books
<1>2. /\ con'.pc = "done" /\ con'.out = con.out
      /\ con'.crashes = con.crashes /\ con'.before = con.before
  BY <1>0, Finishes DEF Turns
<1>3. HandlerInv'
  BY <1>2 DEF HandlerInv, Afterwards
<1> QED BY <1>1, <1>2, <1>3, QuietSettle DEF Settle, Afterwards

(* The process stops: what is on its way stays on its way, and what is     *)
(* settled stays settled.                                                  *)
LEMMA CrashPay ==
  ASSUME PayInv, Crash
  PROVE  PayInv'
<1>0. /\ BInv /\ TypeOK /\ HandlerInv /\ PaidInv /\ SteadyInv
      /\ BInv' /\ [Next]_vars
      /\ UNCHANGED <<status, winner, trades>> /\ Pot' = Pot
  BY SettleFrame
<1>1. UNCHANGED <<position, fanout, paid>>
  BY DEF Crash, books
<1>2. /\ con'.pc = "pools" /\ con'.out = {} /\ con'.crashes = con.crashes + 1
      /\ con'.before = con.before /\ con.crashes \in Nat
  BY <1>0, CrashTurns, ConFacts DEF Turns
<1>3. con'.crashes # 0
  BY <1>2
<1>4. HandlerInv'
  BY <1>2 DEF HandlerInv, Afterwards
<1>5. PaidInv'
  <2>1. Kept
    BY <1>0, <1>1 DEF Kept
  <2>2. Nonzero(con'.out) \subseteq Nonzero(con.out)
    BY <1>2 DEF Nonzero
  <2> QED BY <1>0, <1>1, <2>1, <2>2, PaidKept
<1>6. SteadyInv'
  <2>1. \A x \in Holders : Promised(x)' <= Promised(x)
    BY <1>0, <1>1, PromisedSame
  <2>2. (Silent' <=> Silent) /\ (Dry' <=> Dry)
    BY <1>0, <1>1, PublishedSame DEF Dry, Open, Of
  <2>3. Len(trades) = con.before => (SumFunctionOnSet(Promises, Holders) <= Pot)'
    BY <1>0, <2>1, SteadySum
  <2>4. status = "RESOLVED" /\ Len(trades) = con.before => Silent \/ Dry
    BY <1>0 DEF SteadyInv
  <2>5. con'.before <= Len(trades')
    BY <1>0, <1>2 DEF SteadyInv
  <2> QED BY <1>0, <1>2, <1>3, <2>2, <2>3, <2>4, <2>5 DEF SteadyInv, Afterwards
<1> QED BY <1>0, <1>4, <1>5, <1>6 DEF PayInv

(* The wallet pays what is promised, once.                                 *)
LEMMA PayWinnerPay ==
  ASSUME PayInv, PayWinner
  PROVE  PayInv'
<1>0. /\ BInv /\ TypeOK /\ HandlerInv /\ PaidInv /\ SteadyInv
      /\ BInv' /\ [Next]_vars
      /\ UNCHANGED <<status, winner, trades>> /\ Pot' = Pot
  BY SettleFrame
<1>1. UNCHANGED <<position, con>>
  BY DEF PayWinner, books
<1>2. PICK m \in fanout :
        /\ paid' = [paid EXCEPT ![m.holder] = IF paid[m.holder] = None THEN m.amount
                                              ELSE paid[m.holder]]
        /\ fanout' = fanout \ {m}
  BY DEF PayWinner
<1>3. /\ paid \in [Holders -> Nat \cup {None}] /\ fanout \in SUBSET Payouts
      /\ m.holder \in Holders /\ m.amount \in Nat
  BY <1>0, Facts DEF Payouts
<1>4. /\ \A h \in Holders \ {m.holder} : paid'[h] = paid[h]
      /\ paid'[m.holder] = paid[m.holder] \/ paid'[m.holder] = m.amount
  BY <1>2, <1>3
<1>5. Nonzero(fanout') \subseteq Nonzero(fanout)
  BY <1>2 DEF Nonzero
<1>6. m.amount # 0 => m \in Nonzero(fanout)
  BY DEF Nonzero
<1>7. ASSUME NEW h \in Holders, Published(h)' PROVE Published(h)
  <2>1. CASE \E x \in Nonzero(fanout') : x.holder = h
    BY <1>5, <2>1 DEF Published
  <2>2. CASE paid'[h] \notin {None, 0} /\ paid'[h] = paid[h]
    BY <2>2 DEF Published
  <2>3. CASE paid'[h] \notin {None, 0} /\ paid'[h] # paid[h]
    <3>1. h = m.holder /\ paid'[h] = m.amount
      BY <1>4, <2>3
    <3> QED BY <1>6, <2>3, <3>1 DEF Published
  <2>4. paid'[h] \notin {None, 0} \/ \E x \in Nonzero(fanout') : x.holder = h
    BY <1>7 DEF Published, Nonzero
  <2> QED BY <2>1, <2>2, <2>3, <2>4
<1>8. \A h \in Holders : Promised(h)' <= Promised(h)
  <2> SUFFICES ASSUME NEW h \in Holders PROVE Promised(h)' <= Promised(h)
    OBVIOUS
  <2>1. position'[h].payout = position[h].payout /\ position[h].payout \in Nat
    BY <1>0, <1>1, PromiseType
  <2>2. CASE Published(h)'
    <3>1. Promised(h)' = position[h].payout
      BY <2>1, <2>2 DEF Promised
    <3>2. Promised(h) = position[h].payout
      BY <1>7, <2>2 DEF Promised
    <3> QED BY <2>1, <3>1, <3>2
  <2>3. CASE ~Published(h)'
    <3>1. Promised(h)' = 0
      BY <2>3 DEF Promised
    <3>2. Promised(h) \in Nat
      BY <1>0, PromiseType
    <3> QED BY <3>1, <3>2
  <2> QED BY <2>2, <2>3
<1>9. Silent => Silent'
  BY <1>7 DEF Silent, Holders
<1>10. HandlerInv'
  <2>1. \A x : payoutKes(x)' = payoutKes(x)
    BY <1>1 DEF payoutKes, Holders
  <2> QED BY <1>0, <1>1, <2>1 DEF HandlerInv, Nonzero, Afterwards
<1>11. PaidInv'
  <2>1. ASSUME NEW x, PaidOn(x.holder, x.amount) PROVE PaidOn(x.holder, x.amount)'
    BY <1>0, <1>1, <2>1 DEF PaidOn
  <2>2. \A x \in Nonzero(con.out)' : PaidOn(x.holder, x.amount)'
    BY <1>0, <1>1, <2>1 DEF PaidInv, Nonzero
  <2>3. \A x \in Nonzero(fanout)' : PaidOn(x.holder, x.amount)'
    <3>1. \A x \in Nonzero(fanout) : PaidOn(x.holder, x.amount)
      BY <1>0 DEF PaidInv
    <3> QED BY <1>5, <2>1, <3>1 DEF Nonzero
  <2>4. ASSUME NEW h \in Holders, paid'[h] \notin {None, 0} PROVE PaidOn(h, paid[h])'
    <3>1. CASE paid'[h] = paid[h]
      BY <1>0, <1>1, <2>4, <3>1 DEF PaidInv, PaidOn
    <3>2. CASE paid'[h] # paid[h]
      <4>1. h = m.holder /\ paid'[h] = m.amount /\ m.amount # 0
        BY <1>4, <2>4, <3>2
      <4>2. PaidOn(h, m.amount)
        BY <1>0, <1>6, <4>1 DEF PaidInv
      <4> QED BY <1>0, <1>1, <4>1, <4>2 DEF PaidOn
    <3> QED BY <3>1, <3>2
  <2>5. \A h \in Holders : (paid[h] \notin {None, 0} => PaidOn(h, paid[h]))'
    BY <2>4
  <2> QED BY <2>2, <2>3, <2>5 DEF PaidInv, Holders
<1>12. SteadyInv'
  <2>1. con.crashes = 0 \/ Len(trades) = con.before
          => (SumFunctionOnSet(Promises, Holders) <= Pot)'
    BY <1>0, <1>8, SteadySum
  <2>2. Open(Of(winner))' = Open(Of(winner)) /\ (Dry' <=> Dry)
    BY <1>0, <1>1 DEF Open, Of, Dry
  <2> QED BY <1>0, <1>1, <1>9, <2>1, <2>2 DEF SteadyInv, Afterwards
<1> QED BY <1>0, <1>10, <1>11, <1>12 DEF PayInv

LEMMA NextPayInv == PayInv /\ [Next]_vars => PayInv'
<1> SUFFICES ASSUME PayInv, [Next]_vars PROVE PayInv'
  OBVIOUS
<1>0. BInv /\ TypeOK /\ OfferedInv
  BY DEF PayInv, BInv, TInv
<1>1. CASE UNCHANGED vars
  BY <1>1, OutsidePay DEF vars, market, books, end
<1>2. ASSUME NEW r \in Requests, Handle(r), ~CommitTrade(r) PROVE PayInv'
  <2>1. UNCHANGED <<market, books, end>>
    BY <1>0, <1>2, HandlerSteps
  <2> QED BY <2>1, OutsidePay DEF market, books, end
<1>3. ASSUME NEW r \in Requests, CommitTrade(r) PROVE PayInv'
  <2>1. PICK o, h, n : Commits(r, o, h) /\ Appends(n, TradeOf(r))
    BY <1>0, <1>3, CommitSteps
  <2>2. /\ UNCHANGED <<market, end>> /\ h \in Holders
        /\ position'[h].settled = position[h].settled
        /\ position'[h].payout = position[h].payout
        /\ \A x \in Holders \ {h} : position'[x] = position[x]
    BY <2>1 DEF Commits
  <2>3. \A x \in Holders : position'[x].settled = position[x].settled
                           /\ position'[x].payout = position[x].payout
    BY <2>2
  <2>4. Len(trades') = Len(trades) + 1
    BY <2>1 DEF Appends
  <2> QED BY <2>2, <2>3, <2>4, OutsidePay DEF market, end
<1>4. CASE Activate
  BY <1>4, OutsidePay DEF Activate, books, end
<1>5. CASE initOptionPools
  BY <1>5, OutsidePay DEF initOptionPools, market, end
<1>6. CASE Settle \/ Crash \/ PayWinner
  BY <1>6, ReadPoolsPay, FindWinnersPay, MarkPay, FindLosersPay, ClosePay, PublishPay,
     RefundPay, CrashPay, PayWinnerPay DEF Settle
<1> QED BY <1>1, <1>2, <1>3, <1>4, <1>5, <1>6, VerdictPay DEF Next

(* The wallet never pays out more than the pot, while the settlement has   *)
(* never stopped, however many buy late, or while nobody has bought after  *)
(* the verdict, however often the settlement stops and is repeated.        *)
THEOREM PaysThePotHolds == Spec => []PaysThePot
<1>1. PayInv => PaysThePot
  <2> SUFFICES ASSUME PayInv, con.crashes = 0 \/ Len(trades) = con.before
               PROVE  SumFunctionOnSet([h \in Holders |-> Received(h)], Holders) <= Pot
    BY DEF PaysThePot
  <2>0. TypeOK /\ PaidInv /\ SteadyInv
    BY DEF PayInv, BInv, TInv
  <2> DEFINE g == [h \in Holders |-> Received(h)]
  <2>1. /\ \A h \in Holders : Promises[h] = Promised(h) /\ Promised(h) \in Nat
        /\ Sums(Promises, Holders) /\ SumFunctionOnSet(Promises, Holders) \in Nat
    BY <2>0, PromiseType
  <2>2. ASSUME NEW h \in Holders PROVE Received(h) \in Nat /\ Received(h) <= Promised(h)
    <3>1. paid[h] \in Nat \cup {None}
      BY <2>0, Facts
    <3>2. CASE paid[h] \in {None, 0}
      <4>1. Received(h) = 0
        BY <3>2 DEF Received
      <4> QED BY <2>1, <4>1
    <3>3. CASE paid[h] \notin {None, 0}
      <4>1. Published(h) /\ PaidOn(h, paid[h])
        BY <2>0, <3>3 DEF Published, PaidInv
      <4>2. Received(h) = paid[h] /\ Promised(h) = paid[h] /\ paid[h] \in Nat
        BY <3>1, <3>3, <4>1 DEF Received, Promised, PaidOn
      <4> QED BY <4>2
    <3> QED BY <3>2, <3>3
  <2>3. \A h \in Holders : g[h] \in Nat /\ g[h] <= Promises[h]
    BY <2>1, <2>2
  <2> HIDE DEF g
  <2>4. Sums(g, Holders)
    BY <2>3, HolderSets DEF Sums
  <2>5. SumFunctionOnSet(g, Holders) <= SumFunctionOnSet(Promises, Holders)
    BY <2>1, <2>3, <2>4, SumBelow
  <2>6. SumFunctionOnSet(g, Holders) \in Int /\ Pot \in Nat
    BY <2>0, <2>4, SumInt, PotType
  <2>7. SumFunctionOnSet(Promises, Holders) <= Pot
    BY <2>0 DEF SteadyInv
  <2>8. SumFunctionOnSet(g, Holders) <= Pot
    BY <2>1, <2>5, <2>6, <2>7
  <2> QED BY <2>8 DEF g
<1> QED BY <1>1, InitPayInv, NextPayInv, PTL DEF Spec

-----------------------------------------------------------------------------
(* Who held a position at the verdict.  Without a crash and with every     *)
(* publish, nothing is settled before the settlement has counted the       *)
(* winning shares; what it counts and the pot it reads are at least those  *)
(* of the verdict; each winner it counted is still to be marked, or marked *)
(* with the message on its way or paid; and the losing positions of the    *)
(* verdict are closed when anything is published.                          *)
Idle   == con.pc \in {"pools", "winners"}
Unpaid ==
  /\ con.out = {} /\ fanout = {}
  /\ \A h \in Holders : paid[h] = None /\ ~position[h].settled /\ con.shares[h] = 0

Counted ==
  /\ con.pc # "pools" => con.pot >= StakesAtVerdict
  /\ ~Idle => \A h \in Of(winner) : con.shares[h] >= StakeAtVerdict(h)

Message(h) == [holder |-> h, amount |-> payoutKes(h)]
Marked(h)  == position[h].settled /\ position[h].payout = payoutKes(h)
Due(h)     ==
  \/ con.pc = "mark" /\ h \in con.todo
  \/ Marked(h) /\ con.pc # "done" /\ Message(h) \in con.out
  \/ Marked(h) /\ con.pc = "done" /\ (Message(h) \in fanout \/ paid[h] = payoutKes(h))

CountedAreDue == ~Idle => \A h \in Of(winner) : con.shares[h] > 0 => Due(h)

(* No winner is sent or paid anything else.                                *)
SentIsDue ==
  /\ \A m \in con.out \cup fanout : m.holder \in Of(winner) => m.amount = payoutKes(m.holder)
  /\ \A h \in Of(winner) : paid[h] # None => paid[h] = payoutKes(h)

LosersClosed ==
  con.pc = "publish" \/ (con.pc = "done" /\ \E h \in Of(winner) : con.shares[h] > 0) =>
    \A l \in Losing : StakeAtVerdict(l) > 0 => position[l].settled

DueInv == /\ status # "RESOLVED" \/ Idle => Unpaid
          /\ status = "RESOLVED" => Counted /\ CountedAreDue /\ SentIsDue /\ LosersClosed

VInv == PayInv /\ (faults \subseteq {"refuse"} => DueInv)

(* The stakes of the verdict are part of the stakes of now.                *)
LEMMA VerdictStakes ==
  ASSUME TypeOK, con.before <= Len(trades)
  PROVE  /\ StakesAtVerdict \in Nat /\ Total \in Nat /\ StakesAtVerdict <= Total
         /\ \A h : /\ StakeAtVerdict(h) \in Nat /\ StakeOf(h) \in Nat
                   /\ StakeAtVerdict(h) <= StakeOf(h)
                   /\ HeldAtVerdict(h) => StakeAtVerdict(h) > 0
<1>1. PICK n \in Nat : n = Len(trades)
  BY Facts
<1>2. PICK b \in Nat : b = con.before
  BY ConFacts
<1>3. b <= n /\ \A i \in 1..n : trades[i].amount \in Nat /\ trades[i].amount > 0
  <2>1. \A i \in 1..n : trades[i] \in Trade
    BY <1>1, Facts
  <2>2. \A t \in Trade : t.amount \in Amounts
    BY DEF Trade
  <2>3. \A a \in Amounts : a \in Nat /\ a > 0
    BY OptionMarketAssumption
  <2> QED BY <1>1, <1>2, <2>1, <2>2, <2>3
<1> DEFINE f == Stakes(n)
           e == Stakes(b)
<1>4. /\ \A i \in 1..n : f[i] \in Nat
      /\ \A i \in 1..b : e[i] = f[i] /\ e[i] \in Nat /\ e[i] > 0
  <2>1. \A i \in 1..n : f[i] = trades[i].amount
    BY DEF Stakes
  <2>2. \A i \in 1..b : e[i] = trades[i].amount
    BY DEF Stakes
  <2>3. \A i \in 1..b : i \in 1..n
    BY <1>3
  <2> HIDE DEF f, e
  <2> QED BY <1>3, <2>1, <2>2, <2>3
<1>5. StakesAtVerdict = SumFunctionOnSet(e, 1..b) /\ Total = SumFunctionOnSet(f, 1..n)
  BY <1>1, <1>2 DEF StakesAtVerdict, Total
<1>6. IsFiniteSet(1..n) /\ IsFiniteSet(1..b) /\ 1..b \in SUBSET (1..n)
  BY <1>3, FS_Interval
<1>7. ASSUME NEW h
      PROVE  /\ StakeAtVerdict(h)
                  = SumFunctionOnSet(e, {i \in 1..b : <<trades[i].user, trades[i].option>> = h})
             /\ StakeOf(h)
                  = SumFunctionOnSet(f, {i \in 1..n : <<trades[i].user, trades[i].option>> = h})
  BY <1>1, <1>2 DEF StakeAtVerdict, StakeOf
<1> HIDE DEF f, e
<1>8. ASSUME NEW S \in SUBSET (1..b), NEW T \in SUBSET (1..n), S \subseteq T
      PROVE  /\ SumFunctionOnSet(e, S) \in Nat /\ SumFunctionOnSet(f, T) \in Nat
             /\ SumFunctionOnSet(e, S) <= SumFunctionOnSet(f, T)
             /\ S # {} => SumFunctionOnSet(e, S) > 0
  <2>1. IsFiniteSet(S) /\ IsFiniteSet(T)
    BY <1>6, FS_Subset
  <2>2. SumFunctionOnSet(e, S) \in Nat /\ SumFunctionOnSet(f, T) \in Nat
    BY <1>4, <2>1, SumNat
  <2>3. SumFunctionOnSet(f, S) <= SumFunctionOnSet(f, T)
    BY <1>4, <1>8, <2>1, SumSubset
  <2>4. SumFunctionOnSet(e, S) = SumFunctionOnSet(f, S)
    <3>1. Sums(e, S) /\ \A i \in S : e[i] = f[i]
      BY <1>4, <2>1 DEF Sums
    <3> QED BY <3>1, SumSame
  <2>5. ASSUME NEW i \in S PROVE SumFunctionOnSet(e, S) > 0
    <3>1. e[i] <= SumFunctionOnSet(e, S) /\ e[i] \in Nat /\ e[i] > 0
      BY <1>4, <2>1, SumAtLeast
    <3> QED BY <2>2, <3>1
  <2> QED BY <2>2, <2>3, <2>4, <2>5
<1>9. StakesAtVerdict \in Nat /\ Total \in Nat /\ StakesAtVerdict <= Total
  <2>1. 1..b \in SUBSET (1..b) /\ 1..n \in SUBSET (1..n) /\ 1..b \subseteq 1..n
    BY <1>6
  <2> QED BY <1>5, <1>8, <2>1
<1>10. ASSUME NEW h
       PROVE  /\ StakeAtVerdict(h) \in Nat /\ StakeOf(h) \in Nat
              /\ StakeAtVerdict(h) <= StakeOf(h)
              /\ HeldAtVerdict(h) => StakeAtVerdict(h) > 0
  <2> DEFINE S == {i \in 1..b : <<trades[i].user, trades[i].option>> = h}
             T == {i \in 1..n : <<trades[i].user, trades[i].option>> = h}
  <2>1. S \in SUBSET (1..b) /\ T \in SUBSET (1..n) /\ S \subseteq T
    BY <1>6
  <2>2. StakeAtVerdict(h) = SumFunctionOnSet(e, S) /\ StakeOf(h) = SumFunctionOnSet(f, T)
    BY <1>7
  <2>3. HeldAtVerdict(h) => S # {}
    BY <1>2 DEF HeldAtVerdict
  <2> HIDE DEF S, T
  <2> QED BY <1>8, <2>1, <2>2, <2>3
<1> QED BY <1>9, <1>10

(* Later trades leave them as they are.                                    *)
LEMMA VerdictStakesStay ==
  ASSUME TypeOK, con.before <= Len(trades), con'.before = con.before,
         \/ UNCHANGED trades
         \/ \E n, t : Appends(n, t)
  PROVE  StakesAtVerdict' = StakesAtVerdict /\ \A h : StakeAtVerdict(h)' = StakeAtVerdict(h)
<1>1. PICK b \in Nat : b = con.before
  BY ConFacts
<1>2. \A i \in 1..b : trades'[i] = trades[i]
  <2>1. CASE UNCHANGED trades
    BY <2>1
  <2>2. ASSUME NEW n, NEW t, Appends(n, t) PROVE \A i \in 1..b : trades'[i] = trades[i]
    <3>1. n \in Nat /\ b <= n /\ \A i \in 1..n : trades'[i] = trades[i]
      BY <1>1, <2>2 DEF Appends
    <3> QED BY <3>1
  <2> QED BY <2>1, <2>2
<1>3. Stakes(con.before)' = Stakes(con.before)
  <2>1. Stakes(b)' = Stakes(b)
    BY <1>2 DEF Stakes
  <2>2. Stakes(con.before)' = Stakes(b)' /\ Stakes(con.before) = Stakes(b)
    BY <1>1 DEF Stakes
  <2> QED BY <2>1, <2>2
<1>4. StakesAtVerdict' = StakesAtVerdict
  BY <1>3 DEF StakesAtVerdict
<1>5. ASSUME NEW h PROVE StakeAtVerdict(h)' = StakeAtVerdict(h)
  <2>1. {i \in 1..con'.before : <<trades'[i].user, trades'[i].option>> = h}
          = {i \in 1..con.before : <<trades[i].user, trades[i].option>> = h}
    BY <1>1, <1>2
  <2> QED BY <1>3, <2>1 DEF StakeAtVerdict
<1> QED BY <1>4, <1>5

LEMMA InitVInv == Init => VInv
<1> SUFFICES ASSUME Init PROVE VInv
  OBVIOUS
<1>1. /\ con.pc = "pools" /\ con.out = {} /\ fanout = {} /\ status = "DRAFT"
      /\ \A h \in Holders : paid[h] = None /\ ~position[h].settled /\ con.shares[h] = 0
  BY DEF Init, Waiting
<1>2. DueInv
  BY <1>1 DEF DueInv, Unpaid
<1> QED BY <1>2, InitPayInv DEF VInv

(* Nothing due depends on anything else than the settlement's own state.   *)
LEMMA DueStays ==
  ASSUME DueInv, UNCHANGED <<winner, con, fanout, paid>>,
         status' = "RESOLVED" => status = "RESOLVED",
         status = "RESOLVED" => status' = "RESOLVED",
         \A h \in Holders : position'[h].settled = position[h].settled
                            /\ position'[h].payout = position[h].payout,
         winner \in Options,
         StakesAtVerdict' = StakesAtVerdict, \A h : StakeAtVerdict(h)' = StakeAtVerdict(h)
  PROVE  DueInv'
<1>1. /\ \A h : payoutKes(h)' = payoutKes(h) /\ Message(h)' = Message(h)
      /\ Of(winner)' = Of(winner) /\ Losing' = Losing /\ (Idle' <=> Idle)
      /\ Of(winner) \subseteq Holders /\ Losing \subseteq Holders
  BY DEF payoutKes, Message, Of, Losing, Holders, Idle
<1>2. (Unpaid' <=> Unpaid)
  BY DEF Unpaid, Holders
<1>3. Counted' <=> Counted
  BY <1>1 DEF Counted
<1>4. \A h \in Of(winner) : Due(h)' <=> Due(h)
  BY <1>1 DEF Due, Marked
<1>5. CountedAreDue' <=> CountedAreDue
  BY <1>1, <1>4 DEF CountedAreDue
<1>6. SentIsDue' <=> SentIsDue
  BY <1>1 DEF SentIsDue
<1>7. LosersClosed' <=> LosersClosed
  BY <1>1 DEF LosersClosed
<1> QED BY <1>1, <1>2, <1>3, <1>5, <1>6, <1>7 DEF DueInv

(* A step of the settlement or the wallet, while nothing fails.            *)
LEMMA DueFrame ==
  ASSUME VInv, faults \subseteq {"refuse"}, Settle \/ PayWinner
  PROVE  /\ PayInv /\ BInv /\ TypeOK /\ EarlyInv /\ HandlerInv /\ Divides /\ DueInv
         /\ con.before <= Len(trades)
         /\ UNCHANGED <<status, winner, trades>>
         /\ winner \in Options /\ Of(winner) \subseteq Holders /\ Losing \subseteq Holders
         /\ Of(winner)' = Of(winner) /\ Losing' = Losing
         /\ con'.before = con.before =>
              /\ StakesAtVerdict' = StakesAtVerdict
              /\ \A h : StakeAtVerdict(h)' = StakeAtVerdict(h)
         /\ \A h \in Holders : /\ StakeAtVerdict(h) \in Nat
                               /\ StakeAtVerdict(h) <= position[h].cost
                               /\ position[h].cost \in Nat
         /\ \A h \in Holders : position[h].cost > 0 => h[2] \in Pools
<1>1. PayInv /\ DueInv
  BY DEF VInv
<1>2. /\ BInv /\ TypeOK /\ EarlyInv /\ HandlerInv /\ Divides /\ SteadyInv
      /\ UNCHANGED <<status, winner, trades>>
  BY <1>1, SettleFrame
<1>3. con.before <= Len(trades)
  BY <1>2 DEF SteadyInv
<1>4. winner \in Options /\ Of(winner) \subseteq Holders /\ Losing \subseteq Holders
  BY <1>2, Facts DEF Of, Holders, Losing
<1>5. Of(winner)' = Of(winner) /\ Losing' = Losing
  BY <1>2 DEF Of, Losing, Holders
<1>6. con'.before = con.before => /\ StakesAtVerdict' = StakesAtVerdict
                                  /\ \A h : StakeAtVerdict(h)' = StakeAtVerdict(h)
  BY <1>2, <1>3, VerdictStakesStay
<1>7. \A h \in Holders : position[h].cost = StakeOf(h) /\ (position[h].cost > 0 => Offered(h[2]))
  BY <1>2 DEF BInv, Tables, CostInv
<1>8. \A h \in Holders : /\ StakeAtVerdict(h) \in Nat
                         /\ StakeAtVerdict(h) <= position[h].cost
                         /\ position[h].cost \in Nat
  BY <1>2, <1>3, <1>7, VerdictStakes
<1>9. \A h \in Holders : position[h].cost > 0 => h[2] \in Pools
  BY <1>7 DEF Offered, Pools
<1> QED BY <1>1, <1>2, <1>3, <1>4, <1>5, <1>6, <1>8, <1>9

(* Nothing is due to anybody while no share is counted.                    *)
LEMMA NoneDue ==
  ASSUME DueInv, Unpaid, UNCHANGED <<winner, position, fanout, paid>>,
         con'.shares = con.shares, con'.out = con.out, con'.pc \in {"winners", "done", "pools"},
         winner \in Options, Counted'
  PROVE  DueInv'
<1>1. Unpaid'
  BY DEF Unpaid, Holders
<1>2. \A h \in Of(winner)' : con'.shares[h] = 0
  BY DEF Unpaid, Of, Holders
<1>3. CountedAreDue' /\ LosersClosed'
  BY <1>2 DEF CountedAreDue, LosersClosed
<1>4. SentIsDue'
  BY <1>1 DEF SentIsDue, Unpaid, Of, Holders
<1> QED BY <1>1, <1>3, <1>4 DEF DueInv

LEMMA ReadPoolsDue ==
  ASSUME VInv, faults \subseteq {"refuse"}, ReadPools
  PROVE  DueInv'
<1>0. /\ BInv /\ TypeOK /\ DueInv /\ con.before <= Len(trades) /\ UNCHANGED <<status, winner, trades>>
      /\ winner \in Options /\ Of(winner)' = Of(winner) /\ Of(winner) \subseteq Holders
  BY DueFrame DEF Settle
<1>1. con.pc = "pools" /\ UNCHANGED <<position, fanout, paid>>
  BY DEF ReadPools, books
<1>2. Unpaid
  BY <1>0, <1>1 DEF DueInv, Idle
<1>3. PICK p \in {"done", "winners"} :
        Turns(p, Pot, con.todo, con.shares, con.out, con.crashes, con.before)
  BY <1>0, ReadPoolsTurns
<1>4. /\ con'.pc = p /\ con'.pot = Pot /\ con'.shares = con.shares /\ con'.out = con.out
      /\ con'.before = con.before
  BY <1>3 DEF Turns
<1>5. /\ StakesAtVerdict' = StakesAtVerdict
      /\ \A h : StakeAtVerdict(h)' = StakeAtVerdict(h)
      /\ \A h \in Holders : /\ StakeAtVerdict(h) \in Nat
                            /\ StakeAtVerdict(h) <= position[h].cost
                            /\ position[h].cost \in Nat
      /\ \A h \in Holders : position[h].cost > 0 => h[2] \in Pools
  BY <1>4, DueFrame DEF Settle
<1>6. Pot >= StakesAtVerdict
  <2>1. Pot = SeedKes * Cardinality(Pools) + Total
    BY <1>0 DEF BInv, Tables, PotInv
  <2>2. StakesAtVerdict \in Nat /\ Total \in Nat /\ StakesAtVerdict <= Total
    BY <1>0, VerdictStakes
  <2>3. PICK c \in Nat : c = Cardinality(Pools)
    BY HolderSets, FS_CardinalityType
  <2>4. SeedKes * c \in Nat
    BY OptionMarketAssumption
  <2> QED BY <2>1, <2>2, <2>3, <2>4
<1>7. p = "done" => Pools = {}
  <2> DEFINE q == IF Pools = {} THEN "done" ELSE "winners"
             x == [con EXCEPT !.pc = q, !.pot = Pot]
  <2>1. con' = x
    BY DEF ReadPools
  <2>2. x.pc = q
    BY <1>0, ConFacts DEF Consumer
  <2> QED BY <1>4, <2>1, <2>2
<1>8. Counted'
  <2>1. con'.pc # "pools" => con'.pot >= StakesAtVerdict'
    BY <1>4, <1>5, <1>6
  <2>2. ASSUME NEW h \in Of(winner), p = "done" PROVE con'.shares[h] >= StakeAtVerdict(h)'
    <3>1. h \in Holders /\ con.shares[h] = 0
      BY <1>0, <1>2 DEF Unpaid
    <3>2. h[2] \notin Pools
      BY <1>7, <2>2
    <3>3. position[h].cost = 0
      BY <1>5, <3>1, <3>2
    <3>4. StakeAtVerdict(h) = 0
      BY <1>5, <3>1, <3>3
    <3> QED BY <1>4, <1>5, <3>1, <3>4
  <2>3. ~Idle' => p = "done"
    BY <1>3, <1>4 DEF Idle
  <2> QED BY <1>0, <2>1, <2>2, <2>3 DEF Counted
<1> QED BY <1>0, <1>1, <1>2, <1>3, <1>4, <1>8, NoneDue

LEMMA FindWinnersDue ==
  ASSUME VInv, faults \subseteq {"refuse"}, FindWinners
  PROVE  DueInv'
<1>0. /\ TypeOK /\ EarlyInv /\ DueInv /\ UNCHANGED <<status, winner, trades>>
      /\ winner \in Options /\ Of(winner)' = Of(winner) /\ Of(winner) \subseteq Holders
  BY DueFrame DEF Settle
<1>1. con.pc = "winners" /\ UNCHANGED <<position, fanout, paid>>
  BY DEF FindWinners, books
<1>2. Unpaid /\ status = "RESOLVED"
  BY <1>0, <1>1 DEF DueInv, Idle, EarlyInv
<1>3. con.pot >= StakesAtVerdict
  BY <1>0, <1>1, <1>2 DEF DueInv, Counted
<1>4. con'.before = con.before /\ con'.pot = con.pot
  BY <1>0, FindWinnersTurns DEF Turns
<1>5. /\ StakesAtVerdict' = StakesAtVerdict
      /\ \A h : StakeAtVerdict(h)' = StakeAtVerdict(h)
      /\ \A h \in Holders : /\ StakeAtVerdict(h) \in Nat
                            /\ StakeAtVerdict(h) <= position[h].cost
                            /\ position[h].cost \in Nat
  BY <1>4, DueFrame DEF Settle
<1>6. \A h \in Of(winner) : position[h].cost > 0 <=> h \in Open(Of(winner))
  BY <1>0, <1>2 DEF Open, Unpaid
<1>7. CASE /\ Open(Of(winner)) = {}
           /\ Turns("done", con.pot, con.todo, con.shares, con.out, con.crashes, con.before)
  <2>1. con'.pc = "done" /\ con'.shares = con.shares /\ con'.out = con.out
    BY <1>7 DEF Turns
  <2>2. ASSUME NEW h \in Of(winner) PROVE con'.shares[h] >= StakeAtVerdict(h)'
    <3>1. h \in Holders /\ con.shares[h] = 0 /\ ~(position[h].cost > 0)
      BY <1>0, <1>2, <1>6, <1>7 DEF Unpaid
    <3>2. StakeAtVerdict(h) = 0
      BY <1>5, <3>1
    <3> QED BY <1>5, <2>1, <3>1, <3>2
  <2>3. Counted'
    BY <1>0, <1>3, <1>4, <1>5, <2>2 DEF Counted
  <2> QED BY <1>0, <1>1, <1>2, <2>1, <2>3, NoneDue
<1>8. CASE Turns("mark", con.pot, Open(Of(winner)), ReadShares(Open(Of(winner))), con.out,
                 con.crashes, con.before)
  <2>1. /\ con'.pc = "mark" /\ con'.shares = ReadShares(Open(Of(winner)))
        /\ con'.todo = Open(Of(winner)) /\ con'.out = con.out
    BY <1>8 DEF Turns
  <2>2. \A h \in Holders : con'.shares[h] = IF h \in Open(Of(winner)) THEN position[h].cost ELSE 0
    BY <2>1 DEF ReadShares
  <2>3. ASSUME NEW h \in Of(winner) PROVE con'.shares[h] >= StakeAtVerdict(h)'
    <3>1. h \in Holders
      BY <1>0
    <3>2. CASE h \in Open(Of(winner))
      BY <1>5, <2>2, <3>1, <3>2
    <3>3. CASE h \notin Open(Of(winner))
      <4>1. ~(position[h].cost > 0)
        BY <1>6, <3>3
      <4>2. StakeAtVerdict(h) = 0
        BY <1>5, <3>1, <4>1
      <4> QED BY <1>5, <2>2, <3>1, <3>3, <4>2
    <3> QED BY <3>2, <3>3
  <2>4. Counted'
    BY <1>0, <1>3, <1>4, <1>5, <2>3 DEF Counted
  <2>5. \A h \in Of(winner) : con'.shares[h] > 0 => h \in con'.todo
    BY <1>0, <2>1, <2>2
  <2>6. CountedAreDue'
    BY <1>0, <2>1, <2>5 DEF CountedAreDue, Due
  <2>7. SentIsDue'
    BY <1>0, <1>1, <1>2, <2>1 DEF SentIsDue, Unpaid
  <2>8. LosersClosed' /\ ~Idle'
    BY <2>1 DEF LosersClosed, Idle
  <2> QED BY <1>0, <1>2, <2>4, <2>6, <2>7, <2>8 DEF DueInv
<1> QED BY <1>0, <1>7, <1>8, FindWinnersTurns

(* The steps after the counting keep what was counted.                     *)
LEMMA CountedStays ==
  ASSUME VInv, faults \subseteq {"refuse"}, Settle \/ PayWinner,
         con.pc \in Afterwards \cup {"done"}, status = "RESOLVED",
         con'.pc \in Afterwards \cup {"done"}, con'.shares = con.shares, con'.pot = con.pot,
         con'.before = con.before
  PROVE  /\ ~Idle /\ ~Idle' /\ Counted'
         /\ CountedAreDue /\ SentIsDue /\ LosersClosed
         /\ \A h : payoutKes(h)' = payoutKes(h) /\ Message(h)' = Message(h)
         /\ \A h : StakeAtVerdict(h)' = StakeAtVerdict(h)
<1>1. ~Idle /\ ~Idle'
  BY DEF Idle, Afterwards
<1>2. /\ DueInv /\ Of(winner)' = Of(winner)
      /\ StakesAtVerdict' = StakesAtVerdict
      /\ \A h : StakeAtVerdict(h)' = StakeAtVerdict(h)
  BY DueFrame
<1>3. Counted /\ CountedAreDue /\ SentIsDue /\ LosersClosed
  BY <1>2 DEF DueInv
<1>4. \A h : payoutKes(h)' = payoutKes(h) /\ Message(h)' = Message(h)
  BY DEF payoutKes, Message, Holders
<1>5. Counted'
  BY <1>1, <1>2, <1>3 DEF Counted, Idle
<1> QED BY <1>1, <1>2, <1>3, <1>4, <1>5

LEMMA MarkDue ==
  ASSUME VInv, faults \subseteq {"refuse"}, MarkWinner
  PROVE  DueInv'
<1>0. /\ TypeOK /\ EarlyInv /\ Divides /\ HandlerInv /\ UNCHANGED <<status, winner, trades>>
      /\ Of(winner)' = Of(winner) /\ Of(winner) \subseteq Holders
  BY DueFrame DEF Settle
<1>1. con.pc = "mark" /\ UNCHANGED <<fanout, paid>>
  BY DEF MarkWinner
<1>2. SharesSum > 0 /\ status = "RESOLVED"
  BY <1>0, <1>1 DEF Divides, EarlyInv
<1>3. PICK h \in con.todo :
        /\ position' = [position EXCEPT ![h] = Settled(h, payoutKes(h))]
        /\ \E p \in {"losers", "mark"} :
             /\ p = "losers" <=> con.todo = {h}
             /\ Turns(p, con.pot, con.todo \ {h}, con.shares,
                      con.out \cup {[holder |-> h, amount |-> payoutKes(h)]},
                      con.crashes, con.before)
  BY <1>0, <1>2, MarkTurns
<1>4. PICK p \in {"losers", "mark"} :
        /\ p = "losers" <=> con.todo = {h}
        /\ Turns(p, con.pot, con.todo \ {h}, con.shares,
                 con.out \cup {[holder |-> h, amount |-> payoutKes(h)]},
                 con.crashes, con.before)
  BY <1>3
<1>5. /\ con'.pc = p /\ con'.todo = con.todo \ {h} /\ con'.out = con.out \cup {Message(h)}
      /\ con'.shares = con.shares /\ con'.pot = con.pot /\ con'.before = con.before
  BY <1>4 DEF Turns, Message
<1>6. /\ ~Idle /\ ~Idle' /\ Counted' /\ CountedAreDue /\ SentIsDue
      /\ \A x : payoutKes(x)' = payoutKes(x) /\ Message(x)' = Message(x)
  BY <1>1, <1>2, <1>4, <1>5, CountedStays DEF Settle, Afterwards
<1>7. h \in Holders /\ position[h] \in Held /\ position \in [Holders -> Held]
  BY <1>0, ConFacts, Facts
<1>8. position'[h].settled /\ position'[h].payout = payoutKes(h)
  BY <1>3, <1>7 DEF Settled, Held
<1>9. \A x \in Holders \ {h} : position'[x] = position[x]
  BY <1>3, <1>7
<1>10. ASSUME NEW x \in Of(winner), con.shares[x] > 0 PROVE Due(x)'
  <2>1. x \in Holders /\ Due(x)
    BY <1>0, <1>6, <1>10 DEF CountedAreDue
  <2>2. CASE x = h
    <3>1. Marked(x)' /\ Message(x)' \in con'.out /\ con'.pc # "done"
      BY <1>4, <1>5, <1>6, <1>8, <2>2 DEF Marked
    <3> QED BY <3>1 DEF Due
  <2>3. CASE x # h /\ x \in con.todo
    <3>1. con'.pc = "mark" /\ x \in con'.todo
      BY <1>4, <1>5, <2>3
    <3> QED BY <3>1 DEF Due
  <2>4. CASE x # h /\ x \notin con.todo
    <3>1. Marked(x) /\ Message(x) \in con.out
      BY <1>1, <2>1, <2>4 DEF Due
    <3>2. Marked(x)' /\ Message(x)' \in con'.out /\ con'.pc # "done"
      BY <1>4, <1>5, <1>6, <1>9, <2>1, <2>4, <3>1 DEF Marked
    <3> QED BY <3>2 DEF Due
  <2> QED BY <2>2, <2>3, <2>4
<1>11. CountedAreDue'
  BY <1>0, <1>5, <1>10 DEF CountedAreDue
<1>12. SentIsDue'
  <2>1. \A m \in con'.out \cup fanout' : m.holder \in Of(winner) => m.amount = payoutKes(m.holder)
    BY <1>1, <1>5, <1>6 DEF SentIsDue, Message
  <2>2. \A x \in Of(winner) : paid'[x] # None => paid'[x] = payoutKes(x)
    BY <1>1, <1>6 DEF SentIsDue
  <2> QED BY <1>0, <1>6, <2>1, <2>2 DEF SentIsDue
<1>13. LosersClosed'
  BY <1>4, <1>5 DEF LosersClosed
<1> QED BY <1>0, <1>2, <1>6, <1>11, <1>12, <1>13 DEF DueInv

LEMMA FindLosersDue ==
  ASSUME VInv, faults \subseteq {"refuse"}, FindLosers
  PROVE  DueInv'
<1>0. /\ TypeOK /\ EarlyInv /\ UNCHANGED <<status, winner, trades>>
      /\ Of(winner)' = Of(winner) /\ Of(winner) \subseteq Holders
  BY DueFrame DEF Settle
<1>1. con.pc = "losers" /\ UNCHANGED <<position, fanout, paid>>
  BY DEF FindLosers, books
<1>2. status = "RESOLVED"
  BY <1>0, <1>1 DEF EarlyInv
<1>3. /\ con'.pc = "close" /\ con'.shares = con.shares /\ con'.pot = con.pot
      /\ con'.before = con.before
      /\ con'.out = con.out \cup [holder: Open(Losing), amount: {0}]
  BY <1>0, FindLosersTurns DEF Turns
<1>4. /\ ~Idle /\ ~Idle' /\ Counted' /\ CountedAreDue /\ SentIsDue
      /\ \A x : payoutKes(x)' = payoutKes(x) /\ Message(x)' = Message(x)
  BY <1>1, <1>2, <1>3, CountedStays DEF Settle, Afterwards
<1>5. CountedAreDue'
  <2>1. ASSUME NEW x \in Of(winner), con.shares[x] > 0 PROVE Due(x)'
    <3>1. Marked(x) /\ Message(x) \in con.out
      BY <1>1, <1>4, <2>1 DEF CountedAreDue, Due
    <3>2. Marked(x)' /\ Message(x)' \in con'.out
      BY <1>1, <1>3, <1>4, <3>1 DEF Marked
    <3> QED BY <1>3, <3>2 DEF Due
  <2> QED BY <1>0, <1>3, <2>1 DEF CountedAreDue
<1>6. SentIsDue'
  <2>1. \A m \in [holder: Open(Losing), amount: {0}] : m.holder \notin Of(winner)
    BY DEF Open, Losing
  <2>2. \A m \in con'.out \cup fanout' : m.holder \in Of(winner) => m.amount = payoutKes(m.holder)
    BY <1>1, <1>3, <1>4, <2>1 DEF SentIsDue
  <2>3. \A x \in Of(winner) : paid'[x] # None => paid'[x] = payoutKes(x)
    BY <1>1, <1>4 DEF SentIsDue
  <2> QED BY <1>0, <1>4, <2>2, <2>3 DEF SentIsDue
<1>7. LosersClosed'
  BY <1>3 DEF LosersClosed
<1> QED BY <1>0, <1>2, <1>4, <1>5, <1>6, <1>7 DEF DueInv

LEMMA CloseDue ==
  ASSUME VInv, faults \subseteq {"refuse"}, CloseLosers
  PROVE  DueInv'
<1>0. /\ TypeOK /\ EarlyInv /\ UNCHANGED <<status, winner, trades>>
      /\ Of(winner)' = Of(winner) /\ Of(winner) \subseteq Holders
      /\ Losing' = Losing /\ Losing \subseteq Holders
      /\ \A h \in Holders : /\ StakeAtVerdict(h) \in Nat
                            /\ StakeAtVerdict(h) <= position[h].cost
                            /\ position[h].cost \in Nat
  BY DueFrame DEF Settle
<1>1. /\ con.pc = "close" /\ UNCHANGED <<fanout, paid>>
      /\ position' = [h \in Holders |-> IF h \in Open(Losing) THEN Settled(h, 0) ELSE position[h]]
  BY DEF CloseLosers
<1>2. status = "RESOLVED"
  BY <1>0, <1>1 DEF EarlyInv
<1>3. /\ con'.pc = "publish" /\ con'.shares = con.shares /\ con'.pot = con.pot
      /\ con'.before = con.before /\ con'.out = con.out
  BY <1>0, CloseTurns DEF Turns
<1>4. /\ ~Idle /\ ~Idle' /\ Counted' /\ CountedAreDue /\ SentIsDue
      /\ \A x : payoutKes(x)' = payoutKes(x) /\ Message(x)' = Message(x)
      /\ \A h : StakeAtVerdict(h)' = StakeAtVerdict(h)
  BY <1>1, <1>2, <1>3, CountedStays DEF Settle, Afterwards
<1>5. \A x \in Of(winner) : position'[x] = position[x]
  BY <1>0, <1>1 DEF Open, Losing
<1>6. CountedAreDue'
  <2>1. ASSUME NEW x \in Of(winner), con.shares[x] > 0 PROVE Due(x)'
    <3>1. Marked(x) /\ Message(x) \in con.out
      BY <1>1, <1>4, <2>1 DEF CountedAreDue, Due
    <3>2. Marked(x)' /\ Message(x)' \in con'.out
      BY <1>3, <1>4, <1>5, <2>1, <3>1 DEF Marked
    <3> QED BY <1>3, <3>2 DEF Due
  <2> QED BY <1>0, <1>3, <2>1 DEF CountedAreDue
<1>7. SentIsDue'
  BY <1>0, <1>1, <1>3, <1>4 DEF SentIsDue
<1>8. ASSUME NEW l \in Losing, StakeAtVerdict(l) > 0 PROVE position'[l].settled
  <2>1. l \in Holders /\ position[l].cost > 0 /\ position[l] \in Held
    BY <1>0, <1>8, Facts
  <2>2. CASE position[l].settled
    <3>1. position'[l] = position[l]
      BY <1>1, <2>1, <2>2 DEF Open
    <3> QED BY <2>2, <3>1
  <2>3. CASE ~position[l].settled
    <3>1. position'[l] = Settled(l, 0)
      BY <1>1, <2>1, <2>3 DEF Open
    <3>2. Settled(l, 0).settled
      BY <2>1 DEF Settled, Held
    <3> QED BY <3>1, <3>2
  <2> QED BY <2>2, <2>3
<1>9. LosersClosed'
  BY <1>0, <1>4, <1>8 DEF LosersClosed
<1> QED BY <1>0, <1>2, <1>4, <1>6, <1>7, <1>9 DEF DueInv

LEMMA PublishDue ==
  ASSUME VInv, faults \subseteq {"refuse"}, PublishSettlements
  PROVE  DueInv'
<1>0. /\ TypeOK /\ EarlyInv /\ UNCHANGED <<status, winner, trades>>
      /\ Of(winner)' = Of(winner) /\ Of(winner) \subseteq Holders /\ Losing' = Losing
  BY DueFrame DEF Settle
<1>1. /\ con.pc = "publish" /\ UNCHANGED <<position, paid>> /\ fanout' = fanout \cup con.out
  BY DEF PublishSettlements, books
<1>2. status = "RESOLVED"
  BY <1>0, <1>1 DEF EarlyInv
<1>3. /\ con'.pc = "done" /\ con'.shares = con.shares /\ con'.pot = con.pot
      /\ con'.before = con.before /\ con'.out = con.out
  BY <1>0, Finishes DEF Turns
<1>4. /\ ~Idle /\ ~Idle' /\ Counted' /\ CountedAreDue /\ SentIsDue /\ LosersClosed
      /\ \A x : payoutKes(x)' = payoutKes(x) /\ Message(x)' = Message(x)
      /\ \A h : StakeAtVerdict(h)' = StakeAtVerdict(h)
  BY <1>1, <1>2, <1>3, CountedStays DEF Settle, Afterwards
<1>5. CountedAreDue'
  <2>1. ASSUME NEW x \in Of(winner), con.shares[x] > 0 PROVE Due(x)'
    <3>1. Marked(x) /\ Message(x) \in con.out
      BY <1>1, <1>4, <2>1 DEF CountedAreDue, Due
    <3>2. Marked(x)' /\ Message(x)' \in fanout'
      BY <1>1, <1>4, <3>1 DEF Marked
    <3> QED BY <1>3, <3>2 DEF Due
  <2> QED BY <1>0, <1>3, <2>1 DEF CountedAreDue
<1>6. SentIsDue'
  BY <1>0, <1>1, <1>3, <1>4 DEF SentIsDue
<1>7. LosersClosed'
  BY <1>0, <1>1, <1>3, <1>4 DEF LosersClosed
<1> QED BY <1>0, <1>2, <1>4, <1>5, <1>6, <1>7 DEF DueInv

LEMMA RefundDue ==
  ASSUME VInv, faults \subseteq {"refuse"}, RefundMarket
  PROVE  DueInv'
<1>0. TypeOK /\ DueInv /\ UNCHANGED <<status, winner, trades>>
  BY DueFrame DEF Settle
<1>1. con.pc = "pools" /\ status = "CANCELLED" /\ UNCHANGED <<position, fanout, paid>>
  BY DEF RefundMarket, books
<1>2. con'.pc = "done" /\ con'.shares = con.shares /\ con'.out = con.out
  BY <1>0, Finishes DEF Turns
<1>3. Unpaid'
  BY <1>0, <1>1, <1>2 DEF DueInv, Idle, Unpaid, Holders
<1> QED BY <1>0, <1>1, <1>3 DEF DueInv

(* The wallet pays a winner what is due, once.                             *)
LEMMA PayWinnerDue ==
  ASSUME VInv, faults \subseteq {"refuse"}, PayWinner
  PROVE  DueInv'
<1>0. /\ TypeOK /\ DueInv /\ UNCHANGED <<status, winner, trades>>
      /\ Of(winner)' = Of(winner) /\ Of(winner) \subseteq Holders /\ Losing' = Losing
  BY DueFrame
<1>1. UNCHANGED <<position, con>>
  BY DEF PayWinner, books
<1>2. PICK m \in fanout :
        /\ paid' = [paid EXCEPT ![m.holder] = IF paid[m.holder] = None THEN m.amount
                                              ELSE paid[m.holder]]
        /\ fanout' = fanout \ {m}
  BY DEF PayWinner
<1>3. /\ paid \in [Holders -> Nat \cup {None}] /\ m \in Payouts /\ m.holder \in Holders
  BY <1>0, Facts DEF Payouts
<1>4. /\ \A h \in Holders \ {m.holder} : paid'[h] = paid[h]
      /\ paid[m.holder] = None => paid'[m.holder] = m.amount
      /\ paid[m.holder] # None => paid'[m.holder] = paid[m.holder]
  BY <1>2, <1>3
<1>5. status = "RESOLVED" /\ ~Idle
  BY <1>0, <1>2 DEF DueInv, Unpaid
<1>6. con.pc \in Afterwards \cup {"done"}
  BY <1>0, <1>5, ConFacts DEF Idle, Afterwards, ConPcs
<1>7. /\ ~Idle' /\ Counted' /\ CountedAreDue /\ SentIsDue /\ LosersClosed
      /\ \A x : payoutKes(x)' = payoutKes(x) /\ Message(x)' = Message(x)
      /\ \A h : StakeAtVerdict(h)' = StakeAtVerdict(h)
  BY <1>1, <1>5, <1>6, CountedStays
<1>8. ASSUME NEW x \in Of(winner), paid'[x] # None PROVE paid'[x] = payoutKes(x)
  <2>1. CASE x = m.holder /\ paid[x] = None
    BY <1>2, <1>4, <1>7, <2>1 DEF SentIsDue
  <2>2. CASE x # m.holder \/ paid[x] # None
    <3>1. paid'[x] = paid[x]
      BY <1>0, <1>4, <2>2
    <3> QED BY <1>7, <1>8, <3>1 DEF SentIsDue
  <2> QED BY <2>1, <2>2
<1>9. SentIsDue'
  <2>1. \A y \in con'.out \cup fanout' : y.holder \in Of(winner) => y.amount = payoutKes(y.holder)
    BY <1>1, <1>2, <1>7 DEF SentIsDue
  <2> QED BY <1>0, <1>7, <1>8, <2>1 DEF SentIsDue
<1>10. ASSUME NEW x \in Of(winner), con.shares[x] > 0 PROVE Due(x)'
  <2>0. x \in Holders /\ Due(x) /\ (Marked(x)' <=> Marked(x))
    BY <1>0, <1>1, <1>5, <1>7, <1>10 DEF CountedAreDue, Marked
  <2>1. CASE con.pc # "done"
    BY <1>1, <1>7, <2>0, <2>1 DEF Due
  <2>2. CASE con.pc = "done" /\ Message(x) \in fanout /\ Message(x) # m
    <3>1. Message(x)' \in fanout' /\ Marked(x)' /\ con'.pc = "done"
      BY <1>1, <1>2, <1>7, <2>0, <2>2 DEF Due
    <3> QED BY <3>1 DEF Due
  <2>3. CASE con.pc = "done" /\ Message(x) = m
    <3>1. m.holder = x /\ m.amount = payoutKes(x)
      BY <2>3 DEF Message
    <3>2. paid'[x] = payoutKes(x)
      BY <1>4, <1>7, <3>1 DEF SentIsDue
    <3>3. Marked(x)' /\ con'.pc = "done"
      BY <1>1, <2>0, <2>3 DEF Due
    <3> QED BY <1>7, <3>2, <3>3 DEF Due
  <2>4. CASE con.pc = "done" /\ paid[x] = payoutKes(x)
    <3>1. paid'[x] = payoutKes(x)
      <4>1. CASE x = m.holder /\ paid[x] = None
        BY <1>2, <1>4, <1>7, <4>1 DEF SentIsDue
      <4>2. CASE x # m.holder \/ paid[x] # None
        BY <1>4, <2>0, <2>4, <4>2
      <4> QED BY <4>1, <4>2
    <3>2. Marked(x)' /\ con'.pc = "done"
      BY <1>1, <2>0, <2>4 DEF Due
    <3> QED BY <1>7, <3>1, <3>2 DEF Due
  <2> QED BY <2>0, <2>1, <2>2, <2>3, <2>4 DEF Due
<1>11. CountedAreDue'
  BY <1>0, <1>1, <1>10 DEF CountedAreDue
<1>12. LosersClosed'
  BY <1>0, <1>1, <1>7 DEF LosersClosed
<1> QED BY <1>0, <1>5, <1>7, <1>9, <1>11, <1>12 DEF DueInv

(* When the verdict comes nothing has been done.                           *)
LEMMA VerdictDue ==
  ASSUME VInv, faults \subseteq {"refuse"}, Verdict
  PROVE  DueInv'
<1>0. TypeOK /\ EarlyInv /\ DueInv
  BY DEF VInv, PayInv, BInv, TInv
<1>1. status = "ACTIVE" /\ winner' \in Options /\ UNCHANGED <<position, fanout, paid>>
  BY <1>0, Facts DEF Verdict, books
<1>2. con.pc = "pools" /\ Unpaid
  BY <1>0, <1>1 DEF EarlyInv, DueInv
<1>3. con'.pc = "pools" /\ con'.shares = con.shares /\ con'.out = con.out
  BY <1>0, <1>2, VerdictTurns DEF Turns
<1>4. Unpaid'
  BY <1>1, <1>2, <1>3 DEF Unpaid, Holders
<1>5. Idle'
  BY <1>3 DEF Idle
<1>6. Counted' /\ CountedAreDue' /\ LosersClosed'
  BY <1>3, <1>5 DEF Counted, CountedAreDue, LosersClosed
<1>7. SentIsDue'
  BY <1>1, <1>4 DEF SentIsDue, Unpaid, Of, Holders
<1> QED BY <1>4, <1>6, <1>7 DEF DueInv

(* The steps outside of settlement and wallet.                             *)
LEMMA OutsideDue ==
  ASSUME VInv, faults \subseteq {"refuse"}, UNCHANGED <<winner, con, fanout, paid>>,
         status' = "RESOLVED" => status = "RESOLVED",
         status = "RESOLVED" => status' = "RESOLVED",
         \A h \in Holders : position'[h].settled = position[h].settled
                            /\ position'[h].payout = position[h].payout,
         UNCHANGED trades \/ \E n, t : Appends(n, t)
  PROVE  DueInv'
<1>1. TypeOK /\ SteadyInv /\ DueInv
  BY DEF VInv, PayInv, BInv, TInv
<1>2. winner \in Options /\ con.before <= Len(trades) /\ con'.before = con.before
  BY <1>1, Facts DEF SteadyInv
<1>3. StakesAtVerdict' = StakesAtVerdict /\ \A h : StakeAtVerdict(h)' = StakeAtVerdict(h)
  BY <1>1, <1>2, VerdictStakesStay
<1> QED BY <1>1, <1>2, <1>3, DueStays

LEMMA NextVInv == VInv /\ [Next]_vars => VInv'
<1> SUFFICES ASSUME VInv, [Next]_vars PROVE VInv'
  OBVIOUS
<1>0. PayInv /\ PayInv' /\ TypeOK /\ OfferedInv
  BY NextPayInv DEF VInv, PayInv, BInv, TInv
<1>1. faults' = faults
  <2>1. ASSUME NEW r \in Requests, Handle(r) PROVE faults' = faults
    BY <2>1 DEF Handle, Lookup, FindPool, assertMarketActive, ReserveWalletFunds, ReadPool,
       ReadPot, CommitTrade, CommitFails, ConfirmWalletDebit, ReleaseWalletReserve, Announce, Aside
  <2>2. ASSUME Settle \/ Crash \/ PayWinner PROVE faults' = faults
    BY <1>0, <2>2, SettleSame
  <2> QED BY <2>1, <2>2 DEF Next, Activate, Verdict, initOptionPools, vars
<1> SUFFICES ASSUME faults \subseteq {"refuse"} PROVE DueInv'
  BY <1>0, <1>1 DEF VInv
<1>2. CASE UNCHANGED vars
  BY <1>2, OutsideDue DEF vars, market, books, end
<1>3. ASSUME NEW r \in Requests, Handle(r), ~CommitTrade(r) PROVE DueInv'
  <2>1. UNCHANGED <<market, books, end>>
    BY <1>0, <1>3, HandlerSteps
  <2> QED BY <2>1, OutsideDue DEF market, books, end
<1>4. ASSUME NEW r \in Requests, CommitTrade(r) PROVE DueInv'
  <2>1. PICK o, h, n : Commits(r, o, h) /\ Appends(n, TradeOf(r))
    BY <1>0, <1>4, CommitSteps
  <2>2. /\ UNCHANGED <<market, end>> /\ h \in Holders
        /\ position'[h].settled = position[h].settled
        /\ position'[h].payout = position[h].payout
        /\ \A x \in Holders \ {h} : position'[x] = position[x]
    BY <2>1 DEF Commits
  <2>3. \A x \in Holders : position'[x].settled = position[x].settled
                           /\ position'[x].payout = position[x].payout
    BY <2>2
  <2> QED BY <2>1, <2>2, <2>3, OutsideDue DEF market, end
<1>5. CASE Activate
  BY <1>5, OutsideDue DEF Activate, books, end
<1>6. CASE initOptionPools
  BY <1>6, OutsideDue DEF initOptionPools, market, end
<1>7. CASE Crash
  BY <1>7 DEF Crash
<1> QED BY <1>2, <1>3, <1>4, <1>5, <1>6, <1>7, VerdictDue, ReadPoolsDue, FindWinnersDue,
           MarkDue, FindLosersDue, CloseDue, PublishDue, RefundDue, PayWinnerDue DEF Next, Settle

(* Once a settlement that was not stopped and could publish is done and    *)
(* its messages are consumed, everybody who held the winning option at the *)
(* verdict is paid as the position shows, for at least the shares held     *)
(* then and out of at least the stakes of that time, and every losing      *)
(* position of that time is closed, however trades and settlement overlap. *)
THEOREM VerdictWinnersArePaidHolds == Spec => []VerdictWinnersArePaid
<1>1. VInv => VerdictWinnersArePaid
  <2> SUFFICES ASSUME VInv, status = "RESOLVED", Done, faults \subseteq {"refuse"},
                      NEW h \in Of(winner), HeldAtVerdict(h)
               PROVE  /\ paid[h] = payoutKes(h) /\ paid[h] = position[h].payout
                      /\ con.shares[h] >= StakeAtVerdict(h) /\ con.pot >= StakesAtVerdict
                      /\ \A l \in Losing : HeldAtVerdict(l) => position[l].settled
    BY DEF VerdictWinnersArePaid
  <2>1. TypeOK /\ con.before <= Len(trades) /\ DueInv
    BY DEF VInv, PayInv, BInv, TInv, SteadyInv
  <2>2. con.pc = "done" /\ ~Idle /\ fanout = {}
    BY DEF Done, Idle
  <2>3. Counted /\ CountedAreDue /\ LosersClosed
    BY <2>1 DEF DueInv
  <2>4. \A x : StakeAtVerdict(x) \in Nat /\ (HeldAtVerdict(x) => StakeAtVerdict(x) > 0)
    BY <2>1, VerdictStakes
  <2>5. con.shares[h] >= StakeAtVerdict(h) /\ con.pot >= StakesAtVerdict
    BY <2>2, <2>3 DEF Counted
  <2>6. con.shares[h] > 0
    <3>1. h \in Holders
      BY <2>1, Facts DEF Of, Holders
    <3>2. con.shares[h] \in Nat
      BY <2>1, <3>1, ConFacts
    <3> QED BY <2>4, <2>5, <3>2
  <2>7. paid[h] = payoutKes(h) /\ paid[h] = position[h].payout
    BY <2>2, <2>3, <2>6 DEF CountedAreDue, Due, Marked
  <2>8. \A l \in Losing : HeldAtVerdict(l) => position[l].settled
    BY <2>2, <2>3, <2>4, <2>6 DEF LosersClosed
  <2> QED BY <2>5, <2>7, <2>8
<1> QED BY <1>1, InitVInv, NextVInv, PTL DEF Spec
=============================================================================
