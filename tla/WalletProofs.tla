---------------------------- MODULE WalletProofs ----------------------------
(***************************************************************************)
(* What holds of the wallet service for every number of users, handlers,   *)
(* amounts, messages and retries.                                          *)
(***************************************************************************)
EXTENDS Wallet, SumProofs, TLAPS

-----------------------------------------------------------------------------
(* Types.                                                                  *)

LEMMA RowFacts == NoRow \in Row /\ NewRow \in Row /\ FundedRow \in Row
<1>1. NoRow \in Row
  BY DEF NoRow, Row
<1>2. NewRow \in Row
  BY <1>1 DEF NewRow, NoRow, Row
<1>3. FundedRow \in Row
  BY WalletAssumption DEF FundedRow, Row
<1> QED BY <1>1, <1>2, <1>3

LEMMA UnusedIsCall == Unused \in Call /\ AnyRef \in Refs
BY WalletAssumption, RowFacts
   DEF Unused, Call, AnyRef, AllOps, Versioned, Credits, Spends, Consumed

LEMMA CallFacts ==
  ASSUME TypeOK, NEW c \in Calls
  PROVE  /\ call[c] \in Call
         /\ call[c].user \in Users
         /\ call[c].op \in AllOps
         /\ call[c].amount \in Nat
         /\ call[c].snap \in Row
         /\ call[c].attempt \in Nat
         /\ call[c].since \in Nat
         /\ call[c].deliveries \in Nat
         /\ RowOf(c) \in Row
<1>1. call[c] \in Call
  BY DEF TypeOK
<1>2. /\ call[c].user \in Users /\ call[c].amount \in Amounts
      /\ call[c].snap \in Row /\ call[c].attempt \in Nat /\ call[c].op \in AllOps
      /\ call[c].deliveries \in Nat /\ call[c].since \in Nat
  BY <1>1 DEF Call
<1> QED BY <1>1, <1>2, WalletAssumption DEF TypeOK, RowOf

LEMMA RowUpdate ==
  ASSUME NEW w \in Row, NEW x \in Int, NEW v \in Nat
  PROVE  /\ [w EXCEPT !.balance = x, !.version = v] \in Row
         /\ [w EXCEPT !.reserved = x, !.version = v] \in Row
         /\ [w EXCEPT !.balance = x] \in Row
BY DEF Row

LEMMA CallUpdate ==
  ASSUME NEW k \in Call, NEW pc \in Active, NEW n \in Nat, NEW d \in Nat
  PROVE  /\ [k EXCEPT !.pc = pc, !.snap = NoRow, !.attempt = n] \in Call
         /\ [k EXCEPT !.pc = pc, !.snap = NoRow, !.attempt = n, !.since = 0,
                      !.deliveries = d] \in Call
BY RowFacts DEF Call

LEMMA RowFields ==
  ASSUME NEW w \in Row, NEW x, NEW n
  PROVE  /\ [w EXCEPT !.balance = x, !.version = n].exists = w.exists
         /\ [w EXCEPT !.balance = x, !.version = n].version = n
         /\ [w EXCEPT !.balance = x, !.version = n].balance = x
         /\ [w EXCEPT !.balance = x, !.version = n].reserved = w.reserved
         /\ [w EXCEPT !.reserved = x, !.version = n].exists = w.exists
         /\ [w EXCEPT !.reserved = x, !.version = n].version = n
         /\ [w EXCEPT !.reserved = x, !.version = n].balance = w.balance
         /\ [w EXCEPT !.reserved = x, !.version = n].reserved = x
         /\ [w EXCEPT !.balance = x].exists = w.exists
         /\ [w EXCEPT !.balance = x].version = w.version
         /\ [w EXCEPT !.balance = x].balance = x
         /\ [w EXCEPT !.balance = x].reserved = w.reserved
BY DEF Row

LEMMA SetCallType ==
  ASSUME TypeOK, NEW c \in Calls, NEW k \in Call, SetCall(c, k)
  PROVE  call' \in [Calls -> Call]
BY DEF TypeOK, SetCall

LEMMA GotoType ==
  ASSUME TypeOK, NEW c \in Calls, NEW pc \in Active, Goto(c, pc)
  PROVE  call' \in [Calls -> Call]
<1>1. [call[c] EXCEPT !.pc = pc] \in Call
  BY CallFacts DEF Call
<1> QED BY <1>1, SetCallType DEF Goto

LEMMA FinishType ==
  ASSUME TypeOK, NEW c \in Calls, NEW o \in Terminal, Finish(c, o)
  PROVE  call' \in [Calls -> Call]
<1> DEFINE s == IF o = "gaveup" THEN call[c].since ELSE 0
<1>1. call[c] \in Call /\ s \in Nat
  BY CallFacts
<1> HIDE DEF s
<1>2. [call[c] EXCEPT !.pc = o, !.snap = NoRow, !.attempt = 0, !.since = s] \in Call
  BY <1>1, RowFacts DEF Call
<1> QED BY <1>2, SetCallType DEF Finish, s

LEMMA SetRowType ==
  ASSUME TypeOK, NEW c \in Calls, NEW w \in Row, SetRow(c, w)
  PROVE  wallet' \in [Users -> Row]
BY CallFacts DEF TypeOK, SetRow

LEMMA PostType ==
  ASSUME TypeOK, NEW c \in Calls, NEW b \in Int, NEW a \in Int, Post(c, b, a)
  PROVE  ledger' \in [Users -> Seq(Entry)]
<1> DEFINE e == [op |-> call[c].op, amount |-> call[c].amount,
                 ref |-> call[c].ref, before |-> b, after |-> a]
<1>1. call[c].user \in Users /\ e \in Entry
  BY CallFacts DEF Call, Entry
<1>2. Append(ledger[call[c].user], e) \in Seq(Entry)
  BY <1>1 DEF TypeOK
<1> QED BY <1>1, <1>2 DEF Post, TypeOK

LEMMA AfterEnsureType ==
  ASSUME TypeOK, NEW c \in Calls, AfterEnsure(c)
  PROVE  call' \in [Calls -> Call]
BY GotoType, FinishType DEF AfterEnsure, Terminal, Active

LEMMA EntranceType == \A op \in AllOps : Entrance(op) \in Active
BY DEF Entrance, Active

LEMMA InitType == Init => TypeOK
<1> SUFFICES ASSUME Init PROVE TypeOK
  OBVIOUS
<1>1. wallet \in [Users -> Row]
  BY RowFacts DEF Init
<1>2. ledger \in [Users -> Seq(Entry)]
  <2>1. Funding \in Entry
    BY UnusedIsCall, WalletAssumption
       DEF Funding, Entry, AllOps, Versioned, Credits, Spends, Consumed
  <2>2. <<Funding>> \in Seq(Entry) /\ << >> \in Seq(Entry)
    BY <2>1
  <2> QED BY <2>2 DEF Init
<1>3. call \in [Calls -> Call]
  BY UnusedIsCall DEF Init
<1> QED BY <1>1, <1>2, <1>3 DEF TypeOK

LEMMA NextType == TypeOK /\ [Next]_vars => TypeOK'
<1> SUFFICES ASSUME TypeOK, [Next]_vars PROVE TypeOK'
  OBVIOUS
<1> DEFINE WT == wallet' \in [Users -> Row]
           LT == ledger' \in [Users -> Seq(Entry)]
           CT == call' \in [Calls -> Call]
<1>1. ASSUME NEW c \in Calls, Receive(c) PROVE TypeOK'
  <2>1. PICK op \in Ops, u \in Users, a \in Amounts,
             ref \in Refs :
               SetCall(c, [pc |-> Entrance(op), op |-> op, user |-> u, amount |-> a,
                           ref |-> ref, snap |-> NoRow, attempt |-> 0,
                           since |-> 0, deliveries |-> 1])
    BY <1>1, UnusedIsCall DEF Receive
  <2>2. [pc |-> Entrance(op), op |-> op, user |-> u, amount |-> a, ref |-> ref,
         snap |-> NoRow, attempt |-> 0, since |-> 0, deliveries |-> 1] \in Call
    BY EntranceType, RowFacts, UnusedIsCall, WalletAssumption DEF Call
  <2>3. CT
    BY <2>1, <2>2, SetCallType
  <2> QED BY <1>1, <2>3 DEF Receive, TypeOK
<1>2. ASSUME NEW c \in Calls, Redeliver(c) PROVE TypeOK'
  <2>1. [call[c] EXCEPT !.pc = Entrance(call[c].op), !.snap = NoRow,
                        !.attempt = 0, !.since = 0, !.deliveries = @ + 1] \in Call
    <3> DEFINE d == call[c].deliveries + 1
    <3>1. d \in Nat /\ Entrance(call[c].op) \in Active /\ call[c] \in Call
      BY CallFacts, EntranceType
    <3> HIDE DEF d
    <3>2. [call[c] EXCEPT !.pc = Entrance(call[c].op), !.snap = NoRow,
                          !.attempt = 0, !.since = 0, !.deliveries = d] \in Call
      BY <3>1, CallUpdate
    <3> QED BY <3>2 DEF d
  <2>2. CT
    BY <1>2, <2>1, SetCallType DEF Redeliver
  <2> QED BY <1>2, <2>2 DEF Redeliver, TypeOK
<1>3. ASSUME NEW c \in Calls, Dedup(c) PROVE TypeOK'
  BY <1>3, GotoType, FinishType DEF Dedup, TypeOK, Terminal, Active
<1>4. ASSUME NEW c \in Calls, EnsureFind(c) PROVE TypeOK'
  BY <1>4, GotoType, AfterEnsureType DEF EnsureFind, TypeOK, Active
<1>5. ASSUME NEW c \in Calls, EnsureCreate(c) PROVE TypeOK'
  <2>1. WT
    BY <1>5, SetRowType, RowFacts DEF EnsureCreate, TypeOK
  <2>2. CT
    BY <1>5, FinishType, AfterEnsureType DEF EnsureCreate, Terminal
  <2> QED BY <1>5, <2>1, <2>2 DEF EnsureCreate, TypeOK
<1>6. ASSUME NEW c \in Calls, TxRead(c) PROVE TypeOK'
  <2> DEFINE s == IF call[c].attempt = 0 THEN RowOf(c).version ELSE call[c].since
  <2>1. call[c] \in Call /\ RowOf(c) \in Row /\ s \in Nat
    BY CallFacts DEF Row
  <2>3. [call[c] EXCEPT !.pc = "write", !.snap = RowOf(c), !.since = s] \in Call
    <3> HIDE DEF s
    <3> QED BY <2>1 DEF Call, Active
  <2>2. CT
    BY <1>6, <2>3, SetCallType, FinishType DEF TxRead, Terminal
  <2> QED BY <1>6, <2>2 DEF TxRead, TypeOK
<1>7. ASSUME NEW c \in Calls,
             \/ CommitCredit(c) \/ CommitDebit(c) \/ CommitReserve(c)
             \/ CommitRelease(c) \/ CommitPayout(c)
      PROVE  TypeOK'
  <2> DEFINE b == call[c].snap.balance
             a == call[c].amount
             w == RowOf(c)
  <2>1. a \in Int /\ b \in Int /\ w \in Row
    BY CallFacts DEF Row
  <2>2. /\ [w EXCEPT !.balance = b + a, !.version = @ + 1] \in Row
        /\ [w EXCEPT !.balance = b - a, !.version = @ + 1] \in Row
        /\ [w EXCEPT !.reserved = @ + a, !.version = @ + 1] \in Row
        /\ [w EXCEPT !.reserved = @ - a, !.version = @ + 1] \in Row
        /\ [w EXCEPT !.balance = @ + a] \in Row
    <3> DEFINE v == w.version + 1
               r == w.reserved + a
               q == w.reserved - a
               p == w.balance + a
               x == b + a
               y == b - a
    <3>1. w.balance \in Int /\ w.reserved \in Int /\ w.version \in Nat
      BY <2>1 DEF Row
    <3>2. /\ v \in Nat /\ r \in Int /\ q \in Int /\ p \in Int
          /\ x \in Int /\ y \in Int /\ w \in Row
      BY <2>1, <3>1
    <3> HIDE DEF v, r, q, p, x, y
    <3>3. /\ [w EXCEPT !.balance = x, !.version = v] \in Row
          /\ [w EXCEPT !.balance = y, !.version = v] \in Row
          /\ [w EXCEPT !.reserved = r, !.version = v] \in Row
          /\ [w EXCEPT !.reserved = q, !.version = v] \in Row
          /\ [w EXCEPT !.balance = p] \in Row
      BY <3>2, RowUpdate
    <3> QED BY <3>3 DEF v, r, q, p, x, y
  <2>3. WT
    BY <1>7, <2>2, SetRowType
       DEF CommitCredit, CommitDebit, CommitReserve, CommitRelease, CommitPayout
  <2>4. LT
    BY <1>7, <2>1, PostType
       DEF CommitCredit, CommitDebit, CommitReserve, CommitRelease, CommitPayout
  <2>5. CT
    BY <1>7, FinishType
       DEF CommitCredit, CommitDebit, CommitReserve, CommitRelease, CommitPayout,
           Terminal
  <2> QED BY <2>3, <2>4, <2>5 DEF TypeOK
<1>8. ASSUME NEW c \in Calls, Retry(c) PROVE TypeOK'
  <2>1. [call[c] EXCEPT !.pc = "read", !.snap = NoRow, !.attempt = @ + 1] \in Call
    <3> DEFINE n == call[c].attempt + 1
    <3>1. n \in Nat /\ "read" \in Active /\ call[c] \in Call
      BY CallFacts DEF Active
    <3> HIDE DEF n
    <3>2. [call[c] EXCEPT !.pc = "read", !.snap = NoRow, !.attempt = n] \in Call
      BY <3>1, CallUpdate
    <3> QED BY <3>2 DEF n
  <2>2. CT
    BY <1>8, <2>1, SetCallType, FinishType DEF Retry, Terminal
  <2> QED BY <1>8, <2>2 DEF Retry, TypeOK
<1>9. CASE UNCHANGED vars
  BY <1>9 DEF vars, TypeOK
<1> QED
  BY <1>1, <1>2, <1>3, <1>4, <1>5, <1>6, <1>7, <1>8, <1>9 DEF Next, Step

(* Every state the service reaches is well typed. *)
THEOREM TypeCorrect == Spec => []TypeOK
BY InitType, NextType, PTL DEF Spec

-----------------------------------------------------------------------------
(* Safety.  The argument: a row changes by creation, by a versioned write  *)
(* (which moves the version) or by a payout (which only adds to the        *)
(* balance), so a snapshot whose version still matches has the reserved    *)
(* part of the row and at most its balance.                                *)

Evolves(w, v) ==
  \/ v = w
  \/ ~w.exists /\ v = NewRow
  \/ w.exists /\ v.exists /\ v.version = w.version + 1
  \/ /\ w.exists /\ v.exists /\ v.version = w.version
     /\ v.reserved = w.reserved /\ v.balance >= w.balance

Fresh(k, w) == k.snap.version = w.version

SoundSnapshot(k, w) ==
  k.pc = "write" =>
    /\ w.exists
    /\ k.snap.version <= w.version
    /\ k.since + k.attempt <= k.snap.version
    /\ Available(k.snap) >= 0
    /\ k.op \in Spends => Available(k.snap) >= k.amount
    /\ Fresh(k, w) => k.snap.reserved = w.reserved /\ k.snap.balance <= w.balance

OwedAttempts(k, w) ==
  /\ k.pc \notin {"read", "write"} => k.attempt = 0
  /\ k.pc \notin {"read", "write", "gaveup"} => k.since = 0
  /\ k.since + k.attempt <= w.version
  /\ k.pc = "gaveup" => k.since + MAX_OPTIMISTIC_LOCK_RETRIES <= w.version

IInv ==
  /\ TypeOK
  /\ \A u \in Users : ~wallet[u].exists => wallet[u].version = 0
  /\ \A c \in Calls : SoundSnapshot(call[c], RowOf(c))
  /\ \A c \in Calls : OwedAttempts(call[c], RowOf(c))
  /\ NeverOverspent

(* The row after a commit, field by field. *)
LEMMA CommitRow ==
  ASSUME IInv, NEW c \in Calls,
         \/ CommitCredit(c) \/ CommitDebit(c) \/ CommitReserve(c)
         \/ CommitRelease(c) \/ CommitPayout(c)
  PROVE  /\ \A u \in Users : u # call[c].user => wallet'[u] = wallet[u]
         /\ Evolves(RowOf(c), wallet'[call[c].user])
         /\ Available(wallet'[call[c].user]) >= 0
<1> DEFINE w == RowOf(c)
           v == wallet'[call[c].user]
           k == call[c]
<1>1. /\ k.user \in Users /\ k.amount \in Nat /\ k.snap \in Row /\ w \in Row
      /\ wallet \in [Users -> Row]
  BY CallFacts DEF IInv, TypeOK
<1>2. /\ w.balance \in Int /\ w.reserved \in Int /\ w.version \in Nat
      /\ k.snap.balance \in Int /\ k.snap.reserved \in Int
  BY <1>1 DEF Row
<1>3. Available(w) >= 0
  BY <1>1 DEF IInv, NeverOverspent, RowOf
<1>4. k.pc = "write" /\ SoundSnapshot(k, w)
  BY DEF IInv, CommitCredit, CommitDebit, CommitReserve, CommitRelease,
         CommitPayout, AtWrite
<1>5. \A x : SetRow(c, x) => /\ \A u \in Users : u # k.user => wallet'[u] = wallet[u]
                             /\ v = x
  BY <1>1 DEF SetRow
<1> HIDE DEF w, v, k
<1>6. w.exists
  BY <1>4 DEF SoundSnapshot
<1>7. CASE CommitCredit(c)
  <2>1. v = [w EXCEPT !.balance = k.snap.balance + k.amount,
                      !.version = w.version + 1]
    BY <1>5, <1>7 DEF CommitCredit, w, k
  <2>2. /\ v.exists = w.exists /\ v.version = w.version + 1
        /\ v.balance = k.snap.balance + k.amount /\ v.reserved = w.reserved
    BY <1>1, <2>1, RowFields
  <2>3. Fresh(k, w)
    BY <1>7 DEF CommitCredit, VersionMatches, Fresh, w, k
  <2>4. Available(v) >= 0
    BY <1>1, <1>2, <1>4, <2>2, <2>3 DEF SoundSnapshot, Available
  <2> QED BY <1>5, <1>6, <1>7, <2>2, <2>4 DEF CommitCredit, Evolves, w, v, k
<1>8. CASE CommitDebit(c)
  <2>1. v = [w EXCEPT !.balance = k.snap.balance - k.amount,
                      !.version = w.version + 1]
    BY <1>5, <1>8 DEF CommitDebit, w, k
  <2>2. /\ v.exists = w.exists /\ v.version = w.version + 1
        /\ v.balance = k.snap.balance - k.amount /\ v.reserved = w.reserved
    BY <1>1, <2>1, RowFields
  <2>3. Fresh(k, w) /\ k.op \in Spends
    BY <1>8 DEF CommitDebit, VersionMatches, AtWrite, Fresh, Spends, w, k
  <2>4. Available(v) >= 0
    BY <1>1, <1>2, <1>4, <2>2, <2>3 DEF SoundSnapshot, Available
  <2> QED BY <1>5, <1>6, <1>8, <2>2, <2>4 DEF CommitDebit, Evolves, w, v, k
<1>9. CASE CommitReserve(c)
  <2>1. v = [w EXCEPT !.reserved = w.reserved + k.amount,
                      !.version = w.version + 1]
    BY <1>5, <1>9 DEF CommitReserve, w, k
  <2>2. /\ v.exists = w.exists /\ v.version = w.version + 1
        /\ v.balance = w.balance /\ v.reserved = w.reserved + k.amount
    BY <1>1, <2>1, RowFields
  <2>3. Fresh(k, w) /\ k.op \in Spends
    BY <1>9 DEF CommitReserve, VersionMatches, AtWrite, Fresh, Spends, w, k
  <2>4. Available(v) >= 0
    BY <1>1, <1>2, <1>4, <2>2, <2>3 DEF SoundSnapshot, Available
  <2> QED BY <1>5, <1>6, <1>9, <2>2, <2>4 DEF CommitReserve, Evolves, w, v, k
<1>10. CASE CommitRelease(c)
  <2>1. v = [w EXCEPT !.reserved = w.reserved - k.amount,
                      !.version = w.version + 1]
    BY <1>5, <1>10 DEF CommitRelease, w, k
  <2>2. /\ v.exists = w.exists /\ v.version = w.version + 1
        /\ v.balance = w.balance /\ v.reserved = w.reserved - k.amount
    BY <1>1, <2>1, RowFields
  <2>3. Available(v) >= 0
    BY <1>1, <1>2, <1>3, <2>2 DEF Available, w
  <2> QED BY <1>5, <1>6, <1>10, <2>2, <2>3 DEF CommitRelease, Evolves, w, v, k
<1>11. CASE CommitPayout(c)
  <2>1. v = [w EXCEPT !.balance = w.balance + k.amount]
    BY <1>5, <1>11 DEF CommitPayout, w, k
  <2>2. /\ v.exists = w.exists /\ v.version = w.version
        /\ v.balance = w.balance + k.amount /\ v.reserved = w.reserved
    BY <1>1, <2>1, RowFields
  <2>3. Available(v) >= 0 /\ v.balance >= w.balance
    BY <1>1, <1>2, <1>3, <2>2 DEF Available, w
  <2> QED BY <1>5, <1>6, <2>2, <2>3, <1>11 DEF Evolves, w, v, k, CommitPayout
<1> QED BY <1>7, <1>8, <1>9, <1>10, <1>11 DEF w, v, k

(* What a step of one call does to the rows ...                            *)
LEMMA StepRows ==
  ASSUME IInv, NEW c \in Calls, Step(c)
  PROVE  \A u \in Users : /\ Evolves(wallet[u], wallet'[u])
                          /\ Available(wallet'[u]) >= 0
<1>1. \A u \in Users : Available(wallet[u]) >= 0 /\ wallet[u] \in Row
  BY DEF IInv, TypeOK, NeverOverspent
<1>2. CASE UNCHANGED wallet
  BY <1>1, <1>2 DEF Evolves
<1>3. CASE EnsureCreate(c) /\ ~UNCHANGED wallet
  <2>1. /\ ~RowOf(c).exists /\ call[c].user \in Users
        /\ wallet' = [wallet EXCEPT ![call[c].user] = NewRow]
    BY <1>3, CallFacts DEF EnsureCreate, SetRow, IInv
  <2>2. Available(NewRow) >= 0
    BY DEF Available, NewRow, NoRow
  <2> QED BY <1>1, <2>1, <2>2 DEF IInv, TypeOK, Evolves, RowOf
<1>4. CASE \/ CommitCredit(c) \/ CommitDebit(c) \/ CommitReserve(c)
           \/ CommitRelease(c) \/ CommitPayout(c)
  BY <1>1, <1>4, CommitRow DEF Evolves, RowOf
<1> QED BY <1>2, <1>3, <1>4
        DEF Step, Receive, Redeliver, Dedup, EnsureFind, TxRead, Retry

(* ... and to the calls. *)
Moves(k, k2, w) ==
  \/ k2.pc \notin {"write", "gaveup"} /\ k2.attempt = 0 /\ k2.since = 0
  \/ /\ w.exists
     /\ k2.pc = "write" /\ k2.snap = w /\ k2.user = k.user /\ k2.op = k.op
     /\ k2.amount = k.amount /\ k2.attempt = k.attempt
     /\ k2.since = IF k.attempt = 0 THEN w.version ELSE k.since
     /\ k.op \in Spends => Available(w) >= k.amount
  \/ /\ k.pc = "write" /\ ~Fresh(k, w) /\ k2.user = k.user /\ k2.since = k.since
     /\ \/ /\ k2.pc = "gaveup" /\ k2.attempt = 0
           /\ k.attempt >= MAX_OPTIMISTIC_LOCK_RETRIES - 1
        \/ k2.pc = "read" /\ k2.attempt = k.attempt + 1

LEMMA StepCalls ==
  ASSUME IInv, NEW c \in Calls, Step(c)
  PROVE  /\ \A d \in Calls : d # c => call'[d] = call[d]
         /\ Moves(call[c], call'[c], RowOf(c))
         /\ call'[c].pc = "write" \/ call'[c].attempt > 0 \/ call'[c].pc = "gaveup"
              => UNCHANGED wallet
<1> DEFINE k == call[c]
           k2 == call'[c]
<1>1. /\ call \in [Calls -> Call] /\ k \in Call /\ RowOf(c) \in Row
      /\ k.attempt \in Nat
      /\ k.pc \notin {"read", "write"} => k.attempt = 0
      /\ k.pc \notin {"read", "write", "gaveup"} => k.since = 0
  BY CallFacts DEF IInv, TypeOK, OwedAttempts
<1>2. \A x : SetCall(c, x) => k2 = x /\ \A d \in Calls : d # c => call'[d] = call[d]
  BY <1>1 DEF SetCall
<1>3. \A o : Finish(c, o) => /\ \A d \in Calls : d # c => call'[d] = call[d]
                             /\ k2.pc = o /\ k2.attempt = 0 /\ k2.user = k.user
                             /\ k2.since = IF o = "gaveup" THEN k.since ELSE 0
  <2> TAKE o
  <2> DEFINE x == [k EXCEPT !.pc = o, !.snap = NoRow, !.attempt = 0,
                            !.since = IF o = "gaveup" THEN k.since ELSE 0]
  <2>1. /\ x.pc = o /\ x.attempt = 0 /\ x.user = k.user
        /\ x.since = IF o = "gaveup" THEN k.since ELSE 0
    BY <1>1 DEF Call
  <2> HIDE DEF x
  <2>2. Finish(c, o) => SetCall(c, x)
    BY DEF Finish, x
  <2> QED BY <1>2, <2>1, <2>2
<1>4. \A p : Goto(c, p) => /\ \A d \in Calls : d # c => call'[d] = call[d]
                           /\ k2.pc = p /\ k2.attempt = k.attempt
                           /\ k2.user = k.user /\ k2.since = k.since
  <2> TAKE p
  <2> DEFINE x == [k EXCEPT !.pc = p]
  <2>1. x.pc = p /\ x.attempt = k.attempt /\ x.user = k.user /\ x.since = k.since
    BY <1>1 DEF Call
  <2> HIDE DEF x
  <2>2. Goto(c, p) => SetCall(c, x)
    BY DEF Goto, x
  <2> QED BY <1>2, <2>1, <2>2
<1>5. \A op : Entrance(op) \in {"dedup", "ensure", "read"}
  BY DEF Entrance
<1> HIDE DEF k, k2
<1>6. CASE Receive(c)
  <2>1. PICK x : /\ SetCall(c, x) /\ x.pc \in {"dedup", "ensure", "read"}
                 /\ x.attempt = 0 /\ x.since = 0
    BY <1>5, <1>6 DEF Receive
  <2> QED BY <1>2, <1>6, <2>1 DEF Moves, Receive, k, k2
<1>7. CASE Redeliver(c)
  <2> DEFINE x == [k EXCEPT !.pc = Entrance(k.op), !.snap = NoRow,
                            !.attempt = 0, !.since = 0,
                            !.deliveries = k.deliveries + 1]
  <2>1. x.pc \in {"dedup", "ensure", "read"} /\ x.attempt = 0 /\ x.since = 0
    BY <1>1, <1>5 DEF Call
  <2>2. SetCall(c, x)
    BY <1>7 DEF Redeliver, k
  <2> HIDE DEF x
  <2> QED BY <1>2, <1>7, <2>1, <2>2 DEF Moves, Redeliver, k, k2
<1>8. CASE Dedup(c)
  BY <1>1, <1>3, <1>4, <1>8 DEF Dedup, Moves, k, k2
<1>9. CASE EnsureFind(c)
  BY <1>1, <1>3, <1>4, <1>9 DEF EnsureFind, AfterEnsure, Moves, k, k2
<1>10. CASE EnsureCreate(c)
  BY <1>1, <1>3, <1>4, <1>10 DEF EnsureCreate, AfterEnsure, Moves, k, k2
<1>11. CASE TxRead(c)
  <2> DEFINE s == IF k.attempt = 0 THEN RowOf(c).version ELSE k.since
  <2>1. CASE Finish(c, "done") \/ Finish(c, "rejected")
    BY <1>3, <1>11, <2>1 DEF TxRead, Moves, k, k2
  <2>2. CASE /\ RowOf(c).exists /\ Affords(c, RowOf(c))
             /\ SetCall(c, [k EXCEPT !.pc = "write", !.snap = RowOf(c), !.since = s])
    <3> DEFINE x == [k EXCEPT !.pc = "write", !.snap = RowOf(c), !.since = s]
    <3>1. /\ x.pc = "write" /\ x.snap = RowOf(c) /\ x.user = k.user /\ x.op = k.op
          /\ x.amount = k.amount /\ x.attempt = k.attempt /\ x.since = s
      BY <1>1 DEF Call
    <3> HIDE DEF x
    <3>2. SetCall(c, x)
      BY <2>2 DEF x
    <3> QED BY <1>2, <1>11, <2>2, <3>1, <3>2 DEF TxRead, Moves, Affords, k, k2
  <2> QED BY <1>11, <2>1, <2>2 DEF TxRead, k
<1>12. CASE \/ CommitCredit(c) \/ CommitDebit(c) \/ CommitReserve(c)
            \/ CommitRelease(c) \/ CommitPayout(c)
  <2>1. Finish(c, "done")
    BY <1>12 DEF CommitCredit, CommitDebit, CommitReserve, CommitRelease,
                 CommitPayout
  <2> QED BY <1>3, <2>1 DEF Moves, k2, k
<1>13. CASE Retry(c)
  <2>1. k.pc = "write" /\ ~Fresh(k, RowOf(c))
    BY <1>13 DEF Retry, AtWrite, VersionMatches, Fresh, k
  <2>2. UNCHANGED wallet
    BY <1>13 DEF Retry
  <2>3. CASE /\ Finish(c, "gaveup")
             /\ k.attempt >= MAX_OPTIMISTIC_LOCK_RETRIES - 1
    BY <1>3, <2>1, <2>2, <2>3 DEF Moves, k, k2
  <2>4. CASE SetCall(c, [k EXCEPT !.pc = "read", !.snap = NoRow,
                                  !.attempt = k.attempt + 1])
    <3> DEFINE x == [k EXCEPT !.pc = "read", !.snap = NoRow,
                              !.attempt = k.attempt + 1]
    <3>1. /\ x.pc = "read" /\ x.user = k.user /\ x.attempt = k.attempt + 1
          /\ x.since = k.since
      BY <1>1 DEF Call
    <3> HIDE DEF x
    <3>2. SetCall(c, x)
      BY <2>4 DEF x
    <3> QED BY <1>2, <2>1, <2>2, <3>1, <3>2 DEF Moves, k, k2
  <2> QED BY <1>13, <2>3, <2>4 DEF Retry, k, k2
<1> QED
  BY <1>6, <1>7, <1>8, <1>9, <1>10, <1>11, <1>12, <1>13 DEF Step, k, k2

LEMMA InitInv == Init => IInv
<1> SUFFICES ASSUME Init PROVE IInv
  OBVIOUS
<1>1. TypeOK
  BY InitType
<1>2. \A c \in Calls : call[c].pc = "idle" /\ call[c].attempt = 0 /\ call[c].since = 0
  BY DEF Init, Unused
<1>3. \A u \in Users : wallet[u] = FundedRow \/ wallet[u] = NoRow
  BY DEF Init
<1>4. \A u \in Users : /\ ~wallet[u].exists => wallet[u].version = 0
                       /\ Available(wallet[u]) >= 0
  BY <1>3, WalletAssumption DEF FundedRow, NoRow, Available
<1>5. \A c \in Calls : RowOf(c).version \in Nat
  BY <1>1, CallFacts DEF Row
<1> QED BY <1>1, <1>2, <1>4, <1>5
        DEF IInv, NeverOverspent, SoundSnapshot, OwedAttempts

(* Another call's commit leaves a snapshot sound: stale, or still equal to  *)
(* the row where it matters.                                               *)
LEMMA SnapshotSurvives ==
  ASSUME NEW k, NEW w, NEW v, SoundSnapshot(k, w), Evolves(w, v),
         w.version \in Nat, v.version \in Nat, v.version >= w.version,
         w.balance \in Int, v.balance \in Int, w.exists => v.exists,
         k.snap.version \in Nat, k.snap.balance \in Int
  PROVE  SoundSnapshot(k, v)
<1> SUFFICES ASSUME k.pc = "write" PROVE SoundSnapshot(k, v)
  BY DEF SoundSnapshot
<1>1. /\ w.exists /\ v.exists /\ k.snap.version <= w.version
      /\ k.since + k.attempt <= k.snap.version /\ Available(k.snap) >= 0
      /\ k.op \in Spends => Available(k.snap) >= k.amount
  BY DEF SoundSnapshot
<1>2. ASSUME Fresh(k, v)
      PROVE  k.snap.reserved = v.reserved /\ k.snap.balance <= v.balance
  <2>1. v.version = w.version /\ Fresh(k, w)
    BY <1>1, <1>2 DEF Fresh
  <2>2. v.version # w.version + 1
    BY <2>1
  <2>3. v.reserved = w.reserved /\ v.balance >= w.balance
    <3>1. CASE v = w
      BY <3>1
    <3>2. CASE v # w
      BY <1>1, <2>2, <3>2 DEF Evolves
    <3> QED BY <3>1, <3>2
  <2>4. k.snap.reserved = w.reserved /\ k.snap.balance <= w.balance
    BY <2>1 DEF SoundSnapshot
  <2> QED BY <2>3, <2>4
<1>3. k.snap.version <= v.version
  BY <1>1
<1> QED BY <1>1, <1>2, <1>3 DEF SoundSnapshot

LEMMA StepInv ==
  ASSUME IInv, NEW c \in Calls, Step(c)
  PROVE  IInv'
<1> USE StepRows, StepCalls
<1>1. TypeOK'
  BY NextType DEF IInv, Next
<1>2. \A u \in Users : /\ wallet[u] \in Row /\ wallet'[u] \in Row
                       /\ wallet[u].version \in Nat /\ wallet'[u].version \in Nat
                       /\ wallet[u].balance \in Int /\ wallet'[u].balance \in Int
  BY <1>1 DEF IInv, TypeOK, Row
<1>3. \A u \in Users : ~wallet'[u].exists => wallet'[u].version = 0
  BY <1>2 DEF IInv, Evolves, NewRow, NoRow
<1>4. \A u \in Users : /\ wallet'[u].version >= wallet[u].version
                       /\ wallet[u].exists => wallet'[u].exists
  BY <1>2 DEF IInv, Evolves, NewRow, NoRow
<1>5. ASSUME NEW d \in Calls, d # c
      PROVE  /\ SoundSnapshot(call'[d], wallet'[call'[d].user])
             /\ OwedAttempts(call'[d], wallet'[call'[d].user])
  <2> DEFINE k == call[d]
             w == wallet[k.user]
             v == wallet'[k.user]
  <2>1. /\ call'[d] = k /\ k.user \in Users /\ k.attempt \in Nat /\ k.snap \in Row
        /\ k.since \in Nat
        /\ SoundSnapshot(k, w) /\ OwedAttempts(k, w) /\ Evolves(w, v)
    BY <1>5, CallFacts DEF IInv, RowOf
  <2>2. /\ w.version \in Nat /\ v.version \in Nat /\ v.version >= w.version
        /\ w.balance \in Int /\ v.balance \in Int
        /\ w.exists => v.exists
        /\ k.snap.version \in Nat /\ k.snap.balance \in Int
    BY <1>2, <1>4, <2>1 DEF Row
  <2> HIDE DEF k, w, v
  <2>3. OwedAttempts(k, v)
    BY <2>1, <2>2, WalletAssumption DEF OwedAttempts
  <2>4. SoundSnapshot(k, v)
    BY <2>1, <2>2, SnapshotSurvives
  <2> QED BY <2>1, <2>3, <2>4 DEF k, v
<1>6. /\ SoundSnapshot(call'[c], wallet'[call'[c].user])
      /\ OwedAttempts(call'[c], wallet'[call'[c].user])
  <2> DEFINE k == call[c]
             k2 == call'[c]
             w == RowOf(c)
  <2>1. /\ k2.user \in Users /\ k2.attempt \in Nat /\ k.attempt \in Nat
        /\ wallet'[k2.user].version \in Nat /\ w \in Row /\ k.user \in Users
        /\ k.snap \in Row /\ SoundSnapshot(k, w) /\ OwedAttempts(k, w)
        /\ w.version \in Nat /\ w.balance \in Int /\ k.snap.version \in Nat
        /\ k.since \in Nat /\ k2.since \in Nat
    <3>1. k2 \in Call
      BY <1>1 DEF TypeOK
    <3>2. k2.user \in Users /\ k2.attempt \in Nat /\ k2.since \in Nat
      BY <3>1 DEF Call
    <3> QED BY <1>2, <3>2, CallFacts DEF IInv, Row
  <2>4. Moves(k, k2, w)
    OBVIOUS
  <2>2. CASE k2.pc \notin {"write", "gaveup"} /\ k2.attempt = 0 /\ k2.since = 0
    BY <2>1, <2>2 DEF SoundSnapshot, OwedAttempts
  <2>3. CASE ~(k2.pc \notin {"write", "gaveup"} /\ k2.attempt = 0 /\ k2.since = 0)
    <3>1. UNCHANGED wallet /\ k2.user = k.user /\ wallet'[k2.user] = w
      BY <2>1, <2>3 DEF Moves, RowOf
    <3>2. CASE k2.pc = "write"
      <4>1. /\ w.exists /\ k2.snap = w /\ k2.attempt = k.attempt
            /\ k2.since = IF k.attempt = 0 THEN w.version ELSE k.since
            /\ k2.op \in Spends => Available(w) >= k2.amount
        BY <2>1, <3>2 DEF Moves
      <4>2. Available(w) >= 0 /\ k.since + k.attempt <= w.version
        BY <2>1 DEF IInv, NeverOverspent, OwedAttempts, RowOf
      <4>3. k2.since + k2.attempt <= w.version
        BY <2>1, <4>1, <4>2
      <4> QED BY <2>1, <3>1, <3>2, <4>1, <4>2, <4>3 DEF SoundSnapshot, OwedAttempts
    <3>3. CASE k2.pc # "write"
      <4>1. /\ k.pc = "write" /\ ~Fresh(k, w) /\ k2.since = k.since
            /\ \/ /\ k2.pc = "gaveup" /\ k2.attempt = 0
                  /\ k.attempt >= MAX_OPTIMISTIC_LOCK_RETRIES - 1
               \/ k2.pc = "read" /\ k2.attempt = k.attempt + 1
        <5> HIDE DEF k, k2, w
        <5> QED BY <2>4, <2>3, <3>3 DEF Moves
      <4>2. k.since + k.attempt + 1 <= w.version
        <5> HIDE DEF k, k2, w
        <5> QED BY <2>1, <4>1 DEF SoundSnapshot, Fresh
      <4>3. SoundSnapshot(k2, w) /\ OwedAttempts(k2, w)
        <5> HIDE DEF k, k2, w
        <5> QED BY <2>1, <3>3, <4>1, <4>2, WalletAssumption
                DEF SoundSnapshot, OwedAttempts
      <4> QED BY <3>1, <4>3
    <3> QED BY <3>2, <3>3
  <2>5. SoundSnapshot(k2, wallet'[k2.user]) /\ OwedAttempts(k2, wallet'[k2.user])
    BY <2>2, <2>3
  <2> HIDE StepRows, StepCalls
  <2> QED BY <2>5
<1> QED BY <1>1, <1>3, <1>5, <1>6 DEF IInv, NeverOverspent, RowOf

LEMMA NextInv == IInv /\ [Next]_vars => IInv'
<1>1. ASSUME IInv, UNCHANGED vars PROVE IInv'
  BY <1>1 DEF vars, IInv, TypeOK, NeverOverspent, RowOf
<1> QED BY <1>1, StepInv DEF Next

(* The inductive invariant: a read whose version is still current has the  *)
(* row's reserved part and no more than its balance.                       *)
THEOREM InductiveInvariant == Spec => []IInv
BY InitInv, NextInv, PTL DEF Spec

(* No interleaving of debits, reservations, credits, releases and payouts  *)
(* on any wallet makes the reserved part exceed the balance.               *)
THEOREM NeverOverspentHolds == Spec => []NeverOverspent
<1>1. IInv => NeverOverspent
  BY DEF IInv
<1> QED BY <1>1, InductiveInvariant, PTL

(* A handler gives up on the optimistic lock only if, since its first read *)
(* of the row, others have committed to it at least as often as it is      *)
(* allowed attempts.                                                       *)
THEOREM GivesUpOnlyUnderContentionHolds == Spec => []GivesUpOnlyUnderContention
<1>1. IInv => GivesUpOnlyUnderContention
  <2> SUFFICES ASSUME IInv, NEW c \in Calls, call[c].pc = "gaveup"
               PROVE  CommitsSinceFirstRead(c) >= MAX_OPTIMISTIC_LOCK_RETRIES
    BY DEF GivesUpOnlyUnderContention
  <2>1. call[c].since + MAX_OPTIMISTIC_LOCK_RETRIES <= RowOf(c).version
    BY DEF IInv, OwedAttempts
  <2>2. call[c].since \in Nat /\ RowOf(c).version \in Nat
    BY CallFacts DEF IInv, Row
  <2> QED BY <2>1, <2>2, WalletAssumption DEF CommitsSinceFirstRead
<1> QED BY <1>1, InductiveInvariant, PTL

-----------------------------------------------------------------------------
(* Payouts.  No settlement id is paid twice.                               *)
(*                                                                         *)
(* The argument: settleMarket looks for an earlier entry long before it    *)
(* writes its own.  What makes the answer still true at the write is that  *)
(* the consumer group handles one payout at a time: the handler between    *)
(* its lookup and its write is the only one that adds a payout.            *)

Past == {"ensure", "create", "read", "write"}

PInv ==
  /\ TypeOK
  /\ \A c, d \in Calls : /\ call[c].op = "settle" /\ call[c].pc \in Active
                         /\ call[d].op = "settle" /\ call[d].pc \in Active
                         => c = d
  /\ \A c \in Calls : call[c].op = "settle" /\ call[c].pc \in Past => ~PaidOut(c)
  /\ PaidOnce

(* What a step does to its call: a payout under way was let in while no     *)
(* other was under way, or has looked for an earlier entry.                 *)
EntersAlone(c) == call'[c].pc = "dedup" /\ GroupIsFree(c, "settle")
GoesOn(c) ==
  /\ call[c].op = "settle" /\ call[c].pc \in Active
  /\ call'[c].user = call[c].user /\ call'[c].ref = call[c].ref
  /\ call'[c].pc \in Past
  /\ call[c].pc \in Past \/ ~PaidOut(c)

Posts(c) ==
  /\ call[c].pc = "write" /\ call'[c].pc = "done"
  /\ \E b, a \in Int : Post(c, b, a)

LEMMA PayoutStep ==
  ASSUME TypeOK, NEW c \in Calls, Step(c)
  PROVE  /\ \A d \in Calls : d # c => call'[d] = call[d]
         /\ call'[c].op = "settle" /\ call'[c].pc \in Active
              => EntersAlone(c) \/ GoesOn(c)
         /\ UNCHANGED ledger \/ Posts(c)
<1> DEFINE k == call[c]
           k2 == call'[c]
<1>1. k \in Call /\ call \in [Calls -> Call]
  BY DEF TypeOK
<1>2. \A x : SetCall(c, x) => k2 = x /\ \A d \in Calls : d # c => call'[d] = call[d]
  BY <1>1 DEF SetCall
<1>3. \A o : Finish(c, o) => /\ \A d \in Calls : d # c => call'[d] = call[d]
                             /\ k2.pc = o
  <2> TAKE o
  <2> DEFINE x == [k EXCEPT !.pc = o, !.snap = NoRow, !.attempt = 0,
                            !.since = IF o = "gaveup" THEN k.since ELSE 0]
  <2>1. x.pc = o
    BY <1>1 DEF Call
  <2> HIDE DEF x
  <2>2. Finish(c, o) => SetCall(c, x)
    BY DEF Finish, x
  <2> QED BY <1>2, <2>1, <2>2
<1>4. \A p : Goto(c, p) => /\ \A d \in Calls : d # c => call'[d] = call[d]
                           /\ k2.pc = p /\ k2.op = k.op /\ k2.user = k.user
                           /\ k2.ref = k.ref
  <2> TAKE p
  <2> DEFINE x == [k EXCEPT !.pc = p]
  <2>1. x.pc = p /\ x.op = k.op /\ x.user = k.user /\ x.ref = k.ref
    BY <1>1 DEF Call
  <2> HIDE DEF x
  <2>2. Goto(c, p) => SetCall(c, x)
    BY DEF Goto, x
  <2> QED BY <1>2, <2>1, <2>2
<1> HIDE DEF k, k2
<1>5. CASE Receive(c)
  <2>0. PICK op \in Ops, u \in Users, a \in Amounts :
               /\ GroupIsFree(c, op)
               /\ \E ref : SetCall(c, [pc |-> Entrance(op), op |-> op, user |-> u,
                                       amount |-> a, ref |-> ref, snap |-> NoRow,
                                       attempt |-> 0, since |-> 0,
                                       deliveries |-> 1])
    BY <1>5 DEF Receive
  <2>1. PICK ref : SetCall(c, [pc |-> Entrance(op), op |-> op, user |-> u, amount |-> a,
                               ref |-> ref, snap |-> NoRow, attempt |-> 0,
                               since |-> 0, deliveries |-> 1])
    BY <2>0
  <2>2. k2.op = op /\ k2.pc = Entrance(op)
        /\ \A d \in Calls : d # c => call'[d] = call[d]
    BY <1>2, <2>1
  <2> QED BY <1>5, <2>0, <2>2 DEF Receive, EntersAlone, Entrance, k2
<1>6. CASE Redeliver(c)
  <2> DEFINE x == [k EXCEPT !.pc = Entrance(k.op), !.snap = NoRow,
                            !.attempt = 0, !.since = 0,
                            !.deliveries = k.deliveries + 1]
  <2>1. x.pc = Entrance(k.op) /\ x.op = k.op
    BY <1>1 DEF Call
  <2>2. SetCall(c, x) /\ GroupIsFree(c, k.op)
    BY <1>6 DEF Redeliver, k
  <2> HIDE DEF x
  <2> QED BY <1>2, <1>6, <2>1, <2>2 DEF Redeliver, EntersAlone, Entrance, k2
<1>7. CASE Dedup(c)
  <2>1. CASE Finish(c, "done")
    BY <1>3, <1>7, <2>1 DEF Dedup, Active, k2
  <2>2. CASE ~PaidOut(c) /\ Goto(c, "ensure")
    BY <1>4, <1>7, <2>2 DEF Dedup, GoesOn, Active, Past, k, k2
  <2> QED BY <1>7, <2>1, <2>2 DEF Dedup
<1>8. CASE EnsureFind(c) \/ EnsureCreate(c)
  <2>1. k.pc \in {"ensure", "create"} /\ UNCHANGED ledger
    BY <1>8 DEF EnsureFind, EnsureCreate, k
  <2>2. \/ Finish(c, "done") \/ Finish(c, "rejected")
        \/ Goto(c, "read") \/ Goto(c, "create")
    BY <1>8 DEF EnsureFind, EnsureCreate, AfterEnsure
  <2>3. CASE Finish(c, "done") \/ Finish(c, "rejected")
    BY <1>3, <2>1, <2>3 DEF Active, k2
  <2>4. CASE Goto(c, "read") \/ Goto(c, "create")
    BY <1>4, <2>1, <2>4 DEF GoesOn, Active, Past, k, k2
  <2> QED BY <2>2, <2>3, <2>4
<1>9. CASE TxRead(c)
  <2>1. k.pc = "read" /\ UNCHANGED ledger
    BY <1>9 DEF TxRead, k
  <2>2. CASE Finish(c, "done") \/ Finish(c, "rejected")
    BY <1>3, <2>1, <2>2 DEF Active, k2
  <2> DEFINE s == IF k.attempt = 0 THEN RowOf(c).version ELSE k.since
  <2>3. CASE SetCall(c, [k EXCEPT !.pc = "write", !.snap = RowOf(c), !.since = s])
    <3> DEFINE x == [k EXCEPT !.pc = "write", !.snap = RowOf(c), !.since = s]
    <3>1. x.pc = "write" /\ x.op = k.op /\ x.user = k.user /\ x.ref = k.ref
      BY <1>1 DEF Call
    <3> HIDE DEF x
    <3>2. SetCall(c, x)
      BY <2>3 DEF x
    <3> QED BY <1>2, <2>1, <3>1, <3>2 DEF GoesOn, Active, Past, k, k2
  <2> QED BY <1>9, <2>2, <2>3 DEF TxRead, k
<1>10. CASE Retry(c)
  <2>1. k.op # "settle" /\ UNCHANGED ledger
    BY <1>10 DEF Retry, AtWrite, Versioned, Credits, Spends, k
  <2>2. CASE Finish(c, "gaveup")
    BY <1>3, <2>1, <2>2 DEF Active, k2
  <2>3. CASE SetCall(c, [k EXCEPT !.pc = "read", !.snap = NoRow,
                                  !.attempt = k.attempt + 1])
    <3> DEFINE x == [k EXCEPT !.pc = "read", !.snap = NoRow,
                              !.attempt = k.attempt + 1]
    <3>1. x.op = k.op
      BY <1>1 DEF Call
    <3> HIDE DEF x
    <3>2. SetCall(c, x)
      BY <2>3 DEF x
    <3> QED BY <1>2, <2>1, <3>1, <3>2 DEF k2
  <2> QED BY <1>10, <2>2, <2>3 DEF Retry, k
<1>11. CASE \/ CommitCredit(c) \/ CommitDebit(c) \/ CommitReserve(c)
            \/ CommitRelease(c) \/ CommitPayout(c)
  <2>1. Finish(c, "done") /\ k.pc = "write"
    BY <1>11 DEF CommitCredit, CommitDebit, CommitReserve, CommitRelease,
                 CommitPayout, AtWrite, k
  <2>2. k.snap.balance \in Int /\ k.amount \in Int
    BY CallFacts DEF Row, k
  <2>3. \E b, a \in Int : Post(c, b, a)
    BY <1>11, <2>2 DEF CommitCredit, CommitDebit, CommitReserve, CommitRelease,
                       CommitPayout, k
  <2> QED BY <1>3, <2>1, <2>3 DEF Posts, Active, k, k2
<1> QED BY <1>5, <1>6, <1>7, <1>8, <1>9, <1>10, <1>11 DEF Step, k2

LEMMA StepPInv ==
  ASSUME PInv, NEW c \in Calls, Step(c)
  PROVE  PInv'
<1>1. TypeOK /\ TypeOK'
  BY NextType DEF PInv, Next
<1>2. /\ \A d \in Calls : d # c => call'[d] = call[d]
      /\ call'[c].op = "settle" /\ call'[c].pc \in Active
           => EntersAlone(c) \/ GoesOn(c)
      /\ UNCHANGED ledger \/ Posts(c)
  BY <1>1, PayoutStep
<1>3. \A d, e \in Calls : /\ call'[d].op = "settle" /\ call'[d].pc \in Active
                          /\ call'[e].op = "settle" /\ call'[e].pc \in Active
                          => d = e
  <2> SUFFICES ASSUME NEW e \in Calls, e # c,
                      call[e].op = "settle", call[e].pc \in Active,
                      call'[c].op = "settle", call'[c].pc \in Active
               PROVE  FALSE
    BY <1>2 DEF PInv
  <2>1. CASE GoesOn(c)
    BY <2>1 DEF GoesOn, PInv
  <2>2. CASE EntersAlone(c)
    BY <2>2 DEF EntersAlone, GroupIsFree, Consumed
  <2> QED BY <1>2, <2>1, <2>2
<1>4. CASE UNCHANGED ledger
  <2>1. PaidOnce'
    BY <1>4 DEF PInv, PaidOnce
  <2>2. ASSUME NEW d \in Calls, call'[d].op = "settle", call'[d].pc \in Past
        PROVE  ~PaidOut(d)'
    <3>1. CASE d # c
      BY <1>2, <1>4, <2>2, <3>1 DEF PInv, PaidOut
    <3>2. CASE d = c
      <4>1. GoesOn(c)
        BY <1>2, <2>2, <3>2 DEF EntersAlone, Past, Active
      <4>2. ~PaidOut(c)
        BY <4>1 DEF GoesOn, PInv
      <4> QED BY <1>4, <3>2, <4>1, <4>2 DEF GoesOn, PaidOut
    <3> QED BY <3>1, <3>2
  <2> QED BY <1>1, <1>3, <2>1, <2>2 DEF PInv
<1>5. CASE Posts(c)
  <2> DEFINE u0 == call[c].user
             l == ledger[u0]
  <2>1. PICK b \in Int, a \in Int : Post(c, b, a)
    BY <1>5 DEF Posts
  <2> DEFINE e == [op |-> call[c].op, amount |-> call[c].amount, ref |-> call[c].ref,
                   before |-> b, after |-> a]
  <2>2. u0 \in Users /\ l \in Seq(Entry) /\ e \in Entry
    BY <1>1, CallFacts DEF TypeOK, Call, Entry
  <2>3. PICK n \in Nat : n = Len(l)
    BY <2>2
  <2>4. /\ ledger'[u0] = Append(l, e)
        /\ \A u \in Users : u # u0 => ledger'[u] = ledger[u]
    BY <1>1, <2>1, <2>2 DEF Post, TypeOK
  <2>5. /\ Len(ledger'[u0]) = n + 1 /\ ledger'[u0][n + 1] = e
        /\ \A i \in 1..n : ledger'[u0][i] = l[i]
    BY <2>2, <2>3, <2>4
  <2>6. ASSUME e.op = "settle", NEW i \in 1..n, l[i].op = "settle"
        PROVE  l[i].ref # e.ref
    <3>1. ~PaidOut(c)
      BY <1>5, <2>6 DEF Posts, PInv, Past
    <3> QED BY <2>3, <2>6, <3>1 DEF PaidOut
  <2>7. ASSUME NEW u \in Users, NEW i \in 1..Len(ledger'[u]), NEW j \in 1..Len(ledger'[u]),
               ledger'[u][i].op = "settle", ledger'[u][j].op = "settle",
               ledger'[u][i].ref = ledger'[u][j].ref
        PROVE  i = j
    <3>1. CASE u # u0
      BY <2>4, <2>7, <3>1 DEF PInv, PaidOnce
    <3>2. CASE u = u0
      <4>1. i \in 1..(n + 1) /\ j \in 1..(n + 1)
        BY <2>5, <3>2
      <4>2. CASE i \in 1..n /\ j \in 1..n
        <5>1. \A x, y \in 1..n : l[x].op = "settle" /\ l[y].op = "settle"
                                 /\ l[x].ref = l[y].ref => x = y
          BY <2>2, <2>3 DEF PInv, PaidOnce
        <5>2. ledger'[u][i] = l[i] /\ ledger'[u][j] = l[j]
          BY <2>5, <3>2, <4>2
        <5> HIDE DEF l
        <5> QED BY <2>7, <4>2, <5>1, <5>2
      <4>3. CASE i = n + 1 /\ j \in 1..n
        BY <2>5, <2>6, <2>7, <3>2, <4>3
      <4>4. CASE i \in 1..n /\ j = n + 1
        BY <2>5, <2>6, <2>7, <3>2, <4>4
      <4> QED BY <2>3, <4>1, <4>2, <4>3, <4>4
    <3> QED BY <3>1, <3>2
  <2>8. PaidOnce'
    BY <2>7 DEF PaidOnce
  <2>9. ASSUME NEW d \in Calls, call'[d].op = "settle", call'[d].pc \in Past
        PROVE  ~PaidOut(d)'
    <3>1. d # c /\ call'[d] = call[d]
      BY <1>2, <1>5, <2>9 DEF Posts, Past
    <3>2. call[c].op # "settle"
      BY <1>5, <2>9, <3>1 DEF Posts, PInv, Past, Active
    <3>3. ~PaidOut(d) /\ call[d].user \in Users
      BY <1>1, <2>9, <3>1, CallFacts DEF PInv
    <3>4. CASE call[d].user # u0
      BY <2>4, <3>1, <3>3, <3>4 DEF PaidOut
    <3>5. CASE call[d].user = u0
      <4>1. \A i \in 1..n : ~(l[i].op = "settle" /\ l[i].ref = call[d].ref)
        BY <2>3, <3>3, <3>5 DEF PaidOut
      <4>2. \A i \in 1..(n + 1) :
              ~(ledger'[u0][i].op = "settle" /\ ledger'[u0][i].ref = call[d].ref)
        <5>1. e.op # "settle"
          BY <3>2
        <5> HIDE DEF e, l
        <5> QED BY <2>3, <2>5, <4>1, <5>1
      <4> HIDE DEF u0
      <4> QED BY <2>5, <3>1, <3>5, <4>2 DEF PaidOut
    <3> QED BY <3>4, <3>5
  <2> QED BY <1>1, <1>3, <2>8, <2>9 DEF PInv
<1> QED BY <1>2, <1>4, <1>5

LEMMA InitPInv == Init => PInv
<1> SUFFICES ASSUME Init PROVE PInv
  OBVIOUS
<1>1. \A c \in Calls : call[c].pc = "idle"
  BY DEF Init, Unused
<1>2. \A u \in Users : ledger[u] = <<Funding>> \/ ledger[u] = << >>
  BY DEF Init
<1>3. PaidOnce
  BY <1>2 DEF PaidOnce
<1> QED BY <1>1, <1>3, InitType DEF PInv, Active, Past

LEMMA NextPInv == PInv /\ [Next]_vars => PInv'
<1>1. ASSUME PInv, UNCHANGED vars PROVE PInv'
  BY <1>1 DEF vars, PInv, TypeOK, PaidOnce, PaidOut
<1> QED BY <1>1, StepPInv DEF Next

(* A settlement id is paid at most once, also when its message is handled   *)
(* again or published again.                                                *)
THEOREM PaidOnceHolds == Spec => []PaidOnce
<1>1. PInv => PaidOnce
  BY DEF PInv
<1> QED BY <1>1, InitPInv, NextPInv, PTL DEF Spec

-----------------------------------------------------------------------------
(* Money.  No race creates any: the balance is at most what the ledger     *)
(* adds up to, payouts included.                                           *)
(*                                                                         *)
(* The argument: a payout adds its amount to the row as it is; any other   *)
(* write computes from a read whose version still matches, and since then  *)
(* only payouts can have come in between, so it read no more than the row  *)
(* has.                                                                    *)

LEMMA EntryAmounts ==
  ASSUME NEW e \in Entry
  PROVE  Signed(e) \in Int /\ Held(e) \in Int
<1>1. e.amount \in Int
  <2>1. e.amount \in Amounts \cup {OpeningBalance}
    BY DEF Entry
  <2>2. \A a \in Amounts \cup {OpeningBalance} : a \in Int
    BY WalletAssumption
  <2> QED BY <2>1, <2>2
<1> DEFINE a == e.amount
           op == e.op
<1>2. /\ Signed(e) = CASE op \in Credits \cup {"settle"} -> a
                      [] op = "debit"                   -> -a
                      [] OTHER                          -> 0
      /\ Held(e) = CASE op = "reserve" -> a
                    [] op = "release" -> -a
                    [] OTHER          -> 0
  BY DEF Signed, Held
<1>3. a \in Int
  BY <1>1
<1> HIDE DEF a, op
<1> QED BY <1>2, <1>3 DEF Credits

(* An entry at the end of a ledger adds its amount to the sums. *)
Adds(l, e) == /\ Earned(Append(l, e)) = Earned(l) + Signed(e)
              /\ Aside(Append(l, e)) = Aside(l) + Held(e)

LEMMA EntryAdds ==
  ASSUME NEW l \in Seq(Entry), NEW e \in Entry
  PROVE  Adds(l, e)
<1>1. PICK n \in Nat : n = Len(l)
  OBVIOUS
<1> DEFINE m == Append(l, e)
<1>2. /\ DOMAIN l = 1..n /\ DOMAIN m = 1..(n + 1) /\ m[n + 1] = e
      /\ \A i \in 1..n : m[i] = l[i] /\ l[i] \in Entry
  BY <1>1
<1> HIDE DEF m
<1>3. Earned(m) = Earned(l) + Signed(e)
  <2> DEFINE f == [i \in 1..n |-> Signed(l[i])]
             g == [i \in 1..(n + 1) |-> Signed(m[i])]
  <2>1. Earned(l) = SumFunctionOnSet(f, 1..n) /\ Earned(m) = SumFunctionOnSet(g, 1..(n + 1))
    BY <1>2 DEF Earned
  <2>2. g[n + 1] = Signed(e) /\ g[n + 1] \in Int
    BY <1>2, EntryAmounts
  <2>3. \A i \in 1..n : f[i] \in Int /\ g[i] = f[i]
    BY <1>2, EntryAmounts
  <2> HIDE DEF f, g
  <2>4. SumFunctionOnSet(g, 1..(n + 1)) = SumFunctionOnSet(f, 1..n) + g[n + 1]
    BY <2>2, <2>3, SumAppend
  <2> QED BY <2>1, <2>2, <2>4
<1>4. Aside(m) = Aside(l) + Held(e)
  <2> DEFINE f == [i \in 1..n |-> Held(l[i])]
             g == [i \in 1..(n + 1) |-> Held(m[i])]
  <2>1. Aside(l) = SumFunctionOnSet(f, 1..n) /\ Aside(m) = SumFunctionOnSet(g, 1..(n + 1))
    BY <1>2 DEF Aside
  <2>2. g[n + 1] = Held(e) /\ g[n + 1] \in Int
    BY <1>2, EntryAmounts
  <2>3. \A i \in 1..n : f[i] \in Int /\ g[i] = f[i]
    BY <1>2, EntryAmounts
  <2> HIDE DEF f, g
  <2>4. SumFunctionOnSet(g, 1..(n + 1)) = SumFunctionOnSet(f, 1..n) + g[n + 1]
    BY <2>2, <2>3, SumAppend
  <2> QED BY <2>1, <2>2, <2>4
<1> QED BY <1>3, <1>4 DEF Adds, m

LEMMA LedgerSums ==
  ASSUME NEW l \in Seq(Entry)
  PROVE  Earned(l) \in Int /\ Aside(l) \in Int
<1>1. PICK n \in Nat : n = Len(l)
  OBVIOUS
<1>2. DOMAIN l = 1..n /\ IsFiniteSet(1..n) /\ \A i \in 1..n : l[i] \in Entry
  BY <1>1, FS_Interval
<1> DEFINE f == [i \in 1..n |-> Signed(l[i])]
           g == [i \in 1..n |-> Held(l[i])]
<1>3. Earned(l) = SumFunctionOnSet(f, 1..n) /\ Aside(l) = SumFunctionOnSet(g, 1..n)
  BY <1>2 DEF Earned, Aside
<1>4. Sums(f, 1..n) /\ Sums(g, 1..n)
  BY <1>2, EntryAmounts DEF Sums
<1> HIDE DEF f, g
<1> QED BY <1>3, <1>4, SumInt

(* The ledgers the service starts with. *)
LEMMA FirstLedgers ==
  /\ Earned(<< >>) = 0 /\ Aside(<< >>) = 0
  /\ Earned(<<Funding>>) = OpeningBalance /\ Aside(<<Funding>>) = 0
<1>1. Funding \in Entry /\ Signed(Funding) = OpeningBalance /\ Held(Funding) = 0
  BY UnusedIsCall, WalletAssumption
     DEF Funding, Entry, AllOps, Versioned, Credits, Spends, Consumed, Signed, Held
<1>2. Earned(<< >>) = 0 /\ Aside(<< >>) = 0
  BY SumEmpty DEF Earned, Aside
<1>3. << >> \in Seq(Entry) /\ Append(<< >>, Funding) = <<Funding>>
  BY <1>1
<1>4. Adds(<< >>, Funding)
  BY <1>1, <1>3, EntryAdds
<1> QED BY <1>1, <1>2, <1>3, <1>4, WalletAssumption DEF Adds

MInv ==
  /\ IInv
  /\ \A u \in Users : ~wallet[u].exists => wallet[u] = NoRow
  /\ NoMoneyCreated

Commit(c) == \/ CommitCredit(c) \/ CommitDebit(c) \/ CommitReserve(c)
             \/ CommitRelease(c) \/ CommitPayout(c)

(* What a write adds to the ledger, and that it adds no more to the row. *)
LEMMA CommitMoney ==
  ASSUME IInv, NEW c \in Calls, Commit(c)
  PROVE  \E e \in Entry :
           /\ ledger' = [ledger EXCEPT ![call[c].user] = Append(@, e)]
           /\ wallet'[call[c].user].balance <= RowOf(c).balance + Signed(e)
<1> DEFINE w == RowOf(c)
           v == wallet'[call[c].user]
           k == call[c]
           a == call[c].amount
           s == call[c].snap.balance
           E(x, y) == [op |-> call[c].op, amount |-> call[c].amount,
                       ref |-> call[c].ref, before |-> x, after |-> y]
<1>1. /\ k \in Call /\ k.user \in Users /\ a \in Nat /\ k.snap \in Row /\ w \in Row
      /\ wallet \in [Users -> Row] /\ k.op \in AllOps
  BY CallFacts DEF IInv, TypeOK
<1>2. w.balance \in Int /\ s \in Int
  BY <1>1 DEF Row
<1>3. \A x : SetRow(c, x) => v = x
  BY <1>1 DEF SetRow
<1>4. ASSUME NEW x \in Int, NEW y \in Int
      PROVE  /\ E(x, y) \in Entry
             /\ Post(c, x, y) => ledger' = [ledger EXCEPT ![k.user] = Append(@, E(x, y))]
             /\ Signed(E(x, y)) = CASE k.op \in Credits \cup {"settle"} -> a
                                    [] k.op = "debit"                   -> -a
                                    [] OTHER                            -> 0
  BY <1>1 DEF Call, Entry, Post, Signed
<1>5. k.pc = "write" /\ (VersionMatches(c) => s <= w.balance)
  BY DEF IInv, SoundSnapshot, Fresh, VersionMatches, Commit, CommitCredit, CommitDebit,
         CommitReserve, CommitRelease, CommitPayout, AtWrite
<1>6. CASE CommitCredit(c)
  <2>1. v = [w EXCEPT !.balance = s + a, !.version = w.version + 1]
    BY <1>3, <1>6 DEF CommitCredit
  <2>2. v.balance = s + a
    <3> HIDE DEF w, v, s, a
    <3> QED BY <1>1, <2>1, RowFields
  <2>3. k.op \in Credits /\ VersionMatches(c) /\ Post(c, s, s + a)
    BY <1>6 DEF CommitCredit, AtWrite
  <2>4. Signed(E(s, s + a)) = a
    BY <1>1, <1>2, <1>4, <2>3 DEF Credits
  <2> QED BY <1>1, <1>2, <1>4, <1>5, <2>2, <2>3, <2>4
<1>7. CASE CommitDebit(c)
  <2>1. v = [w EXCEPT !.balance = s - a, !.version = w.version + 1]
    BY <1>3, <1>7 DEF CommitDebit
  <2>2. v.balance = s - a
    <3> HIDE DEF w, v, s, a
    <3> QED BY <1>1, <2>1, RowFields
  <2>3. k.op = "debit" /\ VersionMatches(c) /\ Post(c, s, s - a)
    BY <1>7 DEF CommitDebit, AtWrite
  <2>4. Signed(E(s, s - a)) = -a
    BY <1>1, <1>2, <1>4, <2>3 DEF Credits
  <2> QED BY <1>1, <1>2, <1>4, <1>5, <2>2, <2>3, <2>4
<1>8. CASE CommitReserve(c) \/ CommitRelease(c)
  <2>1. \E r : v = [w EXCEPT !.reserved = r, !.version = w.version + 1]
    BY <1>3, <1>8 DEF CommitReserve, CommitRelease
  <2>2. v.balance = w.balance
    <3> HIDE DEF w, v, s, a
    <3> QED BY <1>1, <2>1, RowFields
  <2>3. k.op \in {"reserve", "release"} /\ Post(c, s, s)
    BY <1>8 DEF CommitReserve, CommitRelease, AtWrite
  <2>4. Signed(E(s, s)) = 0
    BY <1>2, <1>4, <2>3 DEF Credits
  <2> QED BY <1>1, <1>2, <1>4, <2>2, <2>3, <2>4
<1>9. CASE CommitPayout(c)
  <2>1. v = [w EXCEPT !.balance = w.balance + a]
    BY <1>3, <1>9 DEF CommitPayout
  <2>2. v.balance = w.balance + a
    <3> HIDE DEF w, v, s, a
    <3> QED BY <1>1, <2>1, RowFields
  <2>3. k.op = "settle" /\ Post(c, s, s + a)
    BY <1>9 DEF CommitPayout, AtWrite
  <2>4. Signed(E(s, s + a)) = a
    BY <1>1, <1>2, <1>4, <2>3
  <2> QED BY <1>1, <1>2, <1>4, <2>2, <2>3, <2>4
<1> QED BY <1>6, <1>7, <1>8, <1>9 DEF Commit

LEMMA StepMInv ==
  ASSUME MInv, NEW c \in Calls, Step(c)
  PROVE  MInv'
<1>1. IInv /\ IInv' /\ TypeOK /\ TypeOK'
  BY StepInv DEF MInv, IInv
<1>2. call[c].user \in Users /\ wallet \in [Users -> Row] /\ ledger \in [Users -> Seq(Entry)]
  BY <1>1, CallFacts DEF TypeOK
<1>3. \A u \in Users : /\ wallet[u].balance \in Int /\ wallet'[u].balance \in Int
                       /\ Earned(ledger[u]) \in Int
  BY <1>1, LedgerSums DEF TypeOK, Row
<1>4. \A u \in Users : ~wallet'[u].exists => wallet'[u] = NoRow
  BY <1>1, StepRows DEF MInv, Evolves, NewRow, NoRow
<1>5. CASE UNCHANGED <<wallet, ledger>>
  BY <1>1, <1>4, <1>5 DEF MInv, NoMoneyCreated
<1>6. CASE EnsureCreate(c) /\ ~UNCHANGED wallet
  <2>1. /\ ~RowOf(c).exists /\ wallet' = [wallet EXCEPT ![call[c].user] = NewRow]
        /\ UNCHANGED ledger
    BY <1>6 DEF EnsureCreate, SetRow
  <2>2. \A u \in Users : wallet'[u].balance = wallet[u].balance
    BY <1>2, <2>1 DEF MInv, RowOf, NewRow, NoRow
  <2> QED BY <1>1, <1>4, <2>1, <2>2 DEF MInv, NoMoneyCreated
<1>7. CASE Commit(c)
  <2>1. PICK e \in Entry :
           /\ ledger' = [ledger EXCEPT ![call[c].user] = Append(@, e)]
           /\ wallet'[call[c].user].balance <= RowOf(c).balance + Signed(e)
    BY <1>1, <1>7, CommitMoney
  <2> DEFINE u0 == call[c].user
  <2>2. ledger'[u0] = Append(ledger[u0], e) /\ \A u \in Users : u # u0 => ledger'[u] = ledger[u]
    BY <1>2, <2>1
  <2>3. \A u \in Users : u # u0 => wallet'[u] = wallet[u]
    BY <1>1, <1>7, CommitRow DEF Commit
  <2>4. wallet'[u0].balance <= Earned(ledger'[u0])
    <3> DEFINE x == wallet'[u0].balance
               y == wallet[u0].balance
               t == Earned(ledger[u0])
               d == Signed(e)
    <3>1. x \in Int /\ y \in Int /\ t \in Int /\ d \in Int /\ y <= t /\ x <= y + d
      BY <1>2, <1>3, <2>1, EntryAmounts DEF MInv, NoMoneyCreated, RowOf
    <3>2. ledger[u0] \in Seq(Entry)
      BY <1>2
    <3>3. Earned(ledger'[u0]) = t + d
      BY <2>2, <3>2, EntryAdds DEF Adds
    <3> HIDE DEF x, y, t, d
    <3>4. x <= t + d
      BY <3>1
    <3> QED BY <3>3, <3>4 DEF x
  <2>5. NoMoneyCreated'
    BY <2>2, <2>3, <2>4 DEF MInv, NoMoneyCreated
  <2> QED BY <1>1, <1>4, <2>5 DEF MInv
<1>8. EnsureCreate(c) => UNCHANGED ledger
  BY DEF EnsureCreate
<1> QED BY <1>5, <1>6, <1>7, <1>8
        DEF Step, Commit, Receive, Redeliver, Dedup, EnsureFind, TxRead, Retry

(* What the entries of a ledger add up to is never less than the balance:   *)
(* no interleaving of payouts and versioned writes creates money.           *)
THEOREM NoMoneyCreatedHolds == Spec => []NoMoneyCreated
<1>1. Init => MInv
  <2> SUFFICES ASSUME Init PROVE MInv
    OBVIOUS
  <2>1. \A u \in Users : \/ wallet[u] = FundedRow /\ ledger[u] = <<Funding>>
                         \/ wallet[u] = NoRow /\ ledger[u] = << >>
    BY DEF Init
  <2>2. NoMoneyCreated
    <3>1. FundedRow.balance = OpeningBalance /\ NoRow.balance = 0 /\ OpeningBalance \in Nat
      BY WalletAssumption DEF FundedRow, NoRow
    <3> QED BY <2>1, <3>1, FirstLedgers DEF NoMoneyCreated
  <2>3. FundedRow.exists
    BY DEF FundedRow
  <2> QED BY <2>1, <2>2, <2>3, InitInv DEF MInv
<1>2. MInv /\ [Next]_vars => MInv'
  <2>1. ASSUME MInv, UNCHANGED vars PROVE MInv'
    <3>1. IInv'
      BY <2>1, NextInv DEF MInv
    <3> QED BY <2>1, <3>1 DEF vars, MInv, NoMoneyCreated
  <2> QED BY <2>1, StepMInv DEF Next
<1>3. MInv => NoMoneyCreated
  BY DEF MInv
<1> QED BY <1>1, <1>2, <1>3, PTL DEF Spec

-----------------------------------------------------------------------------
(* The optimistic lock.  Without payouts, which write without it, the      *)
(* wallet service is an atomic wallet and its ledger explains every        *)
(* balance.                                                                *)
(*                                                                         *)
(* The argument: every change of a row but its creation moves the version, *)
(* so a read whose version still matches is the row itself, and what is    *)
(* computed from the read is computed from the row.                        *)

NoPayouts == "settle" \notin Ops

(* A read that is still current is the row. *)
ExactRead(k, w) == k.pc = "write" /\ Fresh(k, w) => k.snap = w

RInv ==
  /\ IInv
  /\ \A c \in Calls : call[c].op # "settle"
  /\ \A c \in Calls : ExactRead(call[c], RowOf(c))
  /\ \A u \in Users : ~wallet[u].exists => wallet[u] = NoRow
  /\ LedgerExplainsBalance

(* The accounts before and after one versioned write. *)
Commits(c) == CommitCredit(c) \/ CommitDebit(c) \/ CommitReserve(c) \/ CommitRelease(c)

LEMMA LedgerAppend ==
  ASSUME TypeOK, LedgerExplainsBalance, NEW c \in Calls, NEW b \in Int, NEW a \in Int,
         Post(c, b, a), b = RowOf(c).balance, wallet'[call[c].user].balance = a,
         \A u \in Users : u # call[c].user => wallet'[u] = wallet[u]
  PROVE  LedgerExplainsBalance'
<1> DEFINE u0 == call[c].user
           l == ledger[u0]
           e == [op |-> call[c].op, amount |-> call[c].amount, ref |-> call[c].ref,
                 before |-> b, after |-> a]
<1>1. u0 \in Users /\ l \in Seq(Entry) /\ e \in Entry
  BY CallFacts DEF TypeOK, Call, Entry
<1>2. /\ ledger'[u0] = Append(l, e)
      /\ \A u \in Users : u # u0 => ledger'[u] = ledger[u]
  BY <1>1 DEF Post, TypeOK
<1>3. PICK n \in Nat : n = Len(l)
  BY <1>1
<1>4. /\ Len(ledger'[u0]) = n + 1 /\ ledger'[u0][n + 1] = e
      /\ \A i \in 1..n : ledger'[u0][i] = l[i]
      /\ l = << >> <=> n = 0
  BY <1>1, <1>2, <1>3
<1>5. ASSUME NEW i \in 1..(n + 1)
      PROVE  ledger'[u0][i].before = IF i = 1 THEN 0 ELSE ledger'[u0][i - 1].after
  <2>1. CASE i \in 1..n
    <3>1. i = 1 \/ i - 1 \in 1..n
      BY <1>3, <2>1
    <3>2. l[i].before = IF i = 1 THEN 0 ELSE l[i - 1].after
      BY <1>1, <1>3, <2>1 DEF LedgerExplainsBalance
    <3> QED BY <1>4, <2>1, <3>1, <3>2
  <2>2. CASE i = n + 1
    <3>1. b = IF n = 0 THEN 0 ELSE l[n].after
      BY <1>1, <1>3, <1>4 DEF LedgerExplainsBalance, EndOf, RowOf
    <3> QED BY <1>3, <1>4, <2>2, <3>1
  <2> QED BY <1>3, <2>1, <2>2
<1>6. EndOf(ledger'[u0]) = a
  BY <1>2, <1>3, <1>4 DEF EndOf
<1>7. ASSUME NEW u \in Users
      PROVE  /\ \A i \in 1..Len(ledger'[u]) :
                  ledger'[u][i].before = IF i = 1 THEN 0 ELSE ledger'[u][i - 1].after
             /\ wallet'[u].balance = EndOf(ledger'[u])
  <2>1. CASE u = u0
    BY <1>4, <1>5, <1>6, <2>1
  <2>2. CASE u # u0
    BY <1>2, <2>2 DEF LedgerExplainsBalance
  <2> QED BY <2>1, <2>2
<1> QED BY <1>7 DEF LedgerExplainsBalance, EndOf

(* A versioned write computes from the row, whichever read it used. *)
LEMMA CommitIsExact ==
  ASSUME RInv, NEW c \in Calls, Commits(c)
  PROVE  /\ call[c].snap = RowOf(c) /\ RowOf(c).exists
         /\ call[c].op \in Spends => Available(RowOf(c)) >= call[c].amount
         /\ \A u \in Users : u # call[c].user => wallet'[u] = wallet[u]
<1>1. call[c].pc = "write" /\ Fresh(call[c], RowOf(c))
  BY DEF Commits, CommitCredit, CommitDebit, CommitReserve, CommitRelease, AtWrite,
         VersionMatches, Fresh
<1>2. call[c].snap = RowOf(c)
  BY <1>1 DEF RInv, ExactRead
<1>3. SoundSnapshot(call[c], RowOf(c))
  BY DEF RInv, IInv
<1>4. \A u \in Users : u # call[c].user => wallet'[u] = wallet[u]
  BY CommitRow DEF RInv, Commits
<1> QED BY <1>1, <1>2, <1>3, <1>4 DEF SoundSnapshot

(* What a versioned write leaves in the row and adds to the ledger. *)
LEMMA CommitResult ==
  ASSUME RInv, NEW c \in Calls, Commits(c)
  PROVE  LET w == RowOf(c)
             v == wallet'[call[c].user]
             a == call[c].amount
         IN  /\ v.exists /\ v.version = w.version + 1
             /\ Post(c, w.balance, v.balance)
             /\ \/ /\ call[c].op \in Credits
                   /\ v.balance = w.balance + a /\ v.reserved = w.reserved
                \/ /\ call[c].op = "debit" /\ Available(w) >= a
                   /\ v.balance = w.balance - a /\ v.reserved = w.reserved
                \/ /\ call[c].op = "reserve" /\ Available(w) >= a
                   /\ v.balance = w.balance /\ v.reserved = w.reserved + a
                \/ /\ call[c].op = "release"
                   /\ v.balance = w.balance /\ v.reserved = w.reserved - a
<1> DEFINE w == RowOf(c)
           v == wallet'[call[c].user]
           a == call[c].amount
<1>1. w \in Row /\ call[c].user \in Users /\ wallet \in [Users -> Row]
  BY CallFacts DEF RInv, IInv, TypeOK
<1>2. /\ call[c].snap = w /\ w.exists
      /\ call[c].op \in Spends => Available(w) >= a
  BY CommitIsExact
<1>3. \A x : SetRow(c, x) => v = x
  BY <1>1 DEF SetRow
<1> HIDE DEF w, v, a
<1>4. CASE CommitCredit(c)
  <2>1. v = [w EXCEPT !.balance = w.balance + a, !.version = w.version + 1]
        /\ Post(c, w.balance, w.balance + a) /\ call[c].op \in Credits
    BY <1>2, <1>3, <1>4 DEF CommitCredit, AtWrite, w, a
  <2> QED BY <1>1, <1>2, <2>1, RowFields DEF w, v, a
<1>5. CASE CommitDebit(c)
  <2>1. v = [w EXCEPT !.balance = w.balance - a, !.version = w.version + 1]
        /\ Post(c, w.balance, w.balance - a) /\ call[c].op = "debit"
    BY <1>2, <1>3, <1>5 DEF CommitDebit, AtWrite, w, a
  <2> QED BY <1>1, <1>2, <2>1, RowFields DEF w, v, a, Spends
<1>6. CASE CommitReserve(c)
  <2>1. v = [w EXCEPT !.reserved = w.reserved + a, !.version = w.version + 1]
        /\ Post(c, w.balance, w.balance) /\ call[c].op = "reserve"
    BY <1>2, <1>3, <1>6 DEF CommitReserve, AtWrite, w, a
  <2> QED BY <1>1, <1>2, <2>1, RowFields DEF w, v, a, Spends
<1>7. CASE CommitRelease(c)
  <2>1. v = [w EXCEPT !.reserved = w.reserved - a, !.version = w.version + 1]
        /\ Post(c, w.balance, w.balance) /\ call[c].op = "release"
    BY <1>2, <1>3, <1>7 DEF CommitRelease, AtWrite, w, a
  <2> QED BY <1>1, <1>2, <2>1, RowFields DEF w, v, a
<1> QED BY <1>4, <1>5, <1>6, <1>7 DEF Commits, w, v, a

(* The three things a step can do to the tables. *)
Creates(c) == /\ ~RowOf(c).exists
              /\ wallet' = [wallet EXCEPT ![call[c].user] = NewRow]
              /\ UNCHANGED ledger

LEMMA StepTables ==
  ASSUME RInv, NEW c \in Calls, Step(c)
  PROVE  UNCHANGED <<wallet, ledger>> \/ Creates(c) \/ Commits(c)
<1>1. ~CommitPayout(c)
  BY DEF RInv, CommitPayout, AtWrite
<1>2. EnsureCreate(c) => UNCHANGED <<wallet, ledger>> \/ Creates(c)
  BY DEF EnsureCreate, Creates, SetRow
<1> QED BY <1>1, <1>2 DEF Step, Commits, Receive, Redeliver, Dedup, EnsureFind,
                          TxRead, Retry

LEMMA StepOp ==
  ASSUME RInv, NoPayouts, NEW c \in Calls, Step(c)
  PROVE  call'[c].op # "settle"
<1>1. /\ call[c].op # "settle" /\ call[c] \in Call /\ call \in [Calls -> Call]
      /\ "settle" \notin Ops
  BY DEF RInv, IInv, TypeOK, NoPayouts
<1>2. \A x : SetCall(c, x) => call'[c] = x
  BY <1>1 DEF SetCall
<1>3. \A o : Finish(c, o) \/ Goto(c, o) => call'[c].op # "settle"
  BY <1>1 DEF Finish, Goto, SetCall, Call
<1>4. CASE Receive(c)
  BY <1>1, <1>2, <1>4 DEF Receive
<1>5. CASE Redeliver(c)
  BY <1>1, <1>2, <1>5 DEF Redeliver, Call
<1>6. CASE TxRead(c) \/ Retry(c)
  BY <1>1, <1>2, <1>3, <1>6 DEF TxRead, Retry, Call
<1>7. CASE Dedup(c) \/ EnsureFind(c) \/ EnsureCreate(c)
  BY <1>3, <1>7 DEF Dedup, EnsureFind, EnsureCreate, AfterEnsure
<1>8. CASE \/ CommitCredit(c) \/ CommitDebit(c) \/ CommitReserve(c)
           \/ CommitRelease(c) \/ CommitPayout(c)
  BY <1>3, <1>8 DEF CommitCredit, CommitDebit, CommitReserve, CommitRelease,
                    CommitPayout
<1> QED BY <1>4, <1>5, <1>6, <1>7, <1>8 DEF Step

LEMMA StepRInv ==
  ASSUME RInv, NoPayouts, NEW c \in Calls, Step(c)
  PROVE  RInv'
<1>1. IInv' /\ IInv /\ TypeOK /\ TypeOK'
  BY StepInv DEF RInv, IInv
<1>2. \A d \in Calls : d # c => call'[d] = call[d]
  BY <1>1, StepCalls
<1>3. \A d \in Calls : call'[d].op # "settle"
  BY <1>2, StepOp DEF RInv
<1>4. ASSUME NEW u \in Users
      PROVE  \/ wallet'[u] = wallet[u]
             \/ ~wallet[u].exists /\ wallet'[u] = NewRow
             \/ wallet'[u].exists /\ wallet'[u].version = wallet[u].version + 1
  <2>1. CASE Creates(c)
    BY <1>1, <2>1, CallFacts DEF Creates, RowOf, TypeOK
  <2>2. CASE Commits(c)
    BY <2>2, CommitIsExact, CommitResult DEF RowOf
  <2> QED BY <2>1, <2>2, StepTables
<1>5. \A u \in Users : ~wallet'[u].exists => wallet'[u] = NoRow
  BY <1>4 DEF RInv, NewRow, NoRow
<1>6. ASSUME NEW d \in Calls
      PROVE  ExactRead(call'[d], wallet'[call'[d].user])
  <2>1. CASE d # c
    <3> DEFINE k == call[d]
               w == wallet[k.user]
               v == wallet'[k.user]
    <3>1. /\ call'[d] = k /\ k.user \in Users /\ SoundSnapshot(k, w) /\ ExactRead(k, w)
          /\ w.version \in Nat /\ k.snap.version \in Nat
      BY <1>1, <1>2, <2>1, CallFacts DEF RInv, IInv, RowOf, Row
    <3>2. \/ v = w
          \/ ~w.exists /\ v = NewRow
          \/ v.version = w.version + 1
      BY <1>4, <3>1
    <3> HIDE DEF k, w, v
    <3>3. ExactRead(k, v)
      BY <3>1, <3>2 DEF ExactRead, SoundSnapshot, Fresh
    <3> QED BY <3>1, <3>3 DEF k, v
  <2>2. CASE d = c
    <3>1. SUFFICES ASSUME call'[c].pc = "write"
                   PROVE  call'[c].snap = wallet'[call'[c].user]
      BY <2>2 DEF ExactRead
    <3>2. Moves(call[c], call'[c], RowOf(c)) /\ UNCHANGED wallet
      BY <1>1, <3>1, StepCalls
    <3>3. call'[c].snap = RowOf(c) /\ call'[c].user = call[c].user
      BY <3>1, <3>2 DEF Moves
    <3> QED BY <3>2, <3>3 DEF RowOf
  <2> QED BY <2>1, <2>2
<1>7. LedgerExplainsBalance'
  <2>1. CASE UNCHANGED <<wallet, ledger>>
    BY <2>1 DEF RInv, LedgerExplainsBalance, EndOf
  <2>2. CASE Creates(c)
    <3>1. \A u \in Users : wallet'[u].balance = wallet[u].balance /\ ledger' = ledger
      BY <1>1, <2>2, CallFacts DEF Creates, RInv, RowOf, TypeOK, NewRow, NoRow
    <3> QED BY <3>1 DEF RInv, LedgerExplainsBalance, EndOf
  <2>3. CASE Commits(c)
    <3>1. /\ RowOf(c).balance \in Int /\ wallet'[call[c].user].balance \in Int
          /\ Post(c, RowOf(c).balance, wallet'[call[c].user].balance)
      BY <1>1, <2>3, CommitResult, CallFacts DEF TypeOK, Row
    <3> QED BY <1>1, <2>3, <3>1, CommitIsExact, LedgerAppend DEF RInv
  <2> QED BY <2>1, <2>2, <2>3, StepTables
<1> QED BY <1>1, <1>3, <1>5, <1>6, <1>7 DEF RInv, RowOf

LEMMA NextRInv == NoPayouts /\ RInv /\ [Next]_vars => RInv'
<1>1. ASSUME RInv, UNCHANGED vars PROVE RInv'
  <2>1. IInv'
    BY <1>1, NextInv DEF RInv
  <2> QED BY <1>1, <2>1 DEF vars, RInv, LedgerExplainsBalance, EndOf, RowOf
<1> QED BY <1>1, StepRInv DEF Next

LEMMA InitRInv == Init => RInv
<1> SUFFICES ASSUME Init PROVE RInv
  OBVIOUS
<1>1. IInv
  BY InitInv
<1>2. \A c \in Calls : call[c].op = "release" /\ call[c].pc = "idle"
  BY DEF Init, Unused
<1>3. \A u \in Users : \/ wallet[u] = FundedRow /\ ledger[u] = <<Funding>>
                       \/ wallet[u] = NoRow /\ ledger[u] = << >>
  BY DEF Init
<1>4. LedgerExplainsBalance
  BY <1>3 DEF LedgerExplainsBalance, EndOf, FundedRow, Funding, NoRow
<1> QED BY <1>1, <1>2, <1>3, <1>4 DEF RInv, ExactRead, FundedRow

(* In a service without payouts the ledger of every user is an unbroken     *)
(* chain that starts at 0 and ends at the balance of the row.               *)
THEOREM LedgerExplainsBalanceHolds ==
  ASSUME NoPayouts
  PROVE  Spec => []LedgerExplainsBalance
<1>1. RInv => LedgerExplainsBalance
  BY DEF RInv
<1>2. RInv /\ [Next]_vars => RInv'
  BY NextRInv
<1> QED BY <1>1, <1>2, InitRInv, PTL DEF Spec

-----------------------------------------------------------------------------
(* The sums: with the optimistic lock alone, balance and reserved part are *)
(* exactly what the ledger adds up to.                                     *)
LInv ==
  /\ RInv
  /\ \A u \in Users : /\ wallet[u].balance = Earned(ledger[u])
                      /\ wallet[u].reserved = Aside(ledger[u])

LEMMA StepLInv ==
  ASSUME LInv, NoPayouts, NEW c \in Calls, Step(c)
  PROVE  LInv'
<1>1. RInv /\ RInv' /\ TypeOK
  BY StepRInv DEF LInv, RInv, IInv
<1>2. call[c].user \in Users /\ wallet \in [Users -> Row] /\ ledger \in [Users -> Seq(Entry)]
  BY <1>1, CallFacts DEF TypeOK
<1>3. CASE UNCHANGED <<wallet, ledger>>
  BY <1>1, <1>3 DEF LInv
<1>4. CASE Creates(c)
  <2>1. \A u \in Users : /\ wallet'[u].balance = wallet[u].balance
                         /\ wallet'[u].reserved = wallet[u].reserved
    BY <1>1, <1>2, <1>4 DEF Creates, RInv, RowOf, NewRow, NoRow
  <2> QED BY <1>1, <1>4, <2>1 DEF LInv, Creates
<1>5. CASE Commits(c)
  <2> DEFINE u0 == call[c].user
             w == wallet[u0]
             v == wallet'[u0]
             l == ledger[u0]
             a == call[c].amount
             e == [op |-> call[c].op, amount |-> call[c].amount, ref |-> call[c].ref,
                   before |-> w.balance, after |-> v.balance]
  <2>0. call[c] \in Call /\ a \in Nat /\ w \in Row /\ v \in Row /\ l \in Seq(Entry)
    BY <1>1, <1>2, CallFacts DEF RInv, IInv, TypeOK
  <2>1. /\ w.balance \in Int /\ w.reserved \in Int /\ v.balance \in Int
        /\ Earned(l) = w.balance /\ Aside(l) = w.reserved
    BY <1>2, <2>0 DEF Row, LInv
  <2>2. /\ Post(c, w.balance, v.balance)
        /\ \/ /\ call[c].op \in Credits
              /\ v.balance = w.balance + a /\ v.reserved = w.reserved
           \/ /\ call[c].op = "debit"
              /\ v.balance = w.balance - a /\ v.reserved = w.reserved
           \/ /\ call[c].op = "reserve"
              /\ v.balance = w.balance /\ v.reserved = w.reserved + a
           \/ /\ call[c].op = "release"
              /\ v.balance = w.balance /\ v.reserved = w.reserved - a
    BY <1>1, <1>5, CommitResult DEF RowOf
  <2>3. e \in Entry /\ e.op = call[c].op /\ e.amount = a
    BY <2>0, <2>1 DEF Call, Entry
  <2>4. /\ ledger'[u0] = Append(l, e)
        /\ \A u \in Users : u # u0 => ledger'[u] = ledger[u] /\ wallet'[u] = wallet[u]
    BY <1>1, <1>2, <1>5, <2>2, CommitIsExact DEF Post
  <2>5. Adds(l, e)
    BY <2>0, <2>3, EntryAdds
  <2> HIDE DEF e, u0, w, v, l, a
  <2>6. v.balance = w.balance + Signed(e) /\ v.reserved = w.reserved + Held(e)
    BY <2>0, <2>1, <2>2, <2>3 DEF Signed, Held, Credits
  <2>7. v.balance = Earned(ledger'[u0]) /\ v.reserved = Aside(ledger'[u0])
    BY <2>1, <2>4, <2>5, <2>6 DEF Adds
  <2> QED BY <1>1, <2>4, <2>7 DEF LInv, u0, v
<1> QED BY <1>1, <1>3, <1>4, <1>5, StepTables

(* In a service without payouts what a user is shown as available is what   *)
(* the entries of the ledger add up to, and the ledger is an unbroken chain *)
(* that ends at the balance.                                                *)
THEOREM LedgerExplainsWalletHolds ==
  ASSUME NoPayouts
  PROVE  Spec => []LedgerExplainsWallet
<1>1. Init => LInv
  <2> SUFFICES ASSUME Init PROVE LInv
    OBVIOUS
  <2>1. \A u \in Users : \/ wallet[u] = FundedRow /\ ledger[u] = <<Funding>>
                         \/ wallet[u] = NoRow /\ ledger[u] = << >>
    BY DEF Init
  <2>2. /\ FundedRow.balance = OpeningBalance /\ NoRow.balance = 0
        /\ FundedRow.reserved = 0 /\ NoRow.reserved = 0
    BY DEF FundedRow, NoRow
  <2> QED BY <2>1, <2>2, FirstLedgers, InitRInv DEF LInv
<1>2. LInv /\ [Next]_vars => LInv'
  <2>1. ASSUME LInv, UNCHANGED vars PROVE LInv'
    <3>1. RInv'
      BY <2>1, NextRInv DEF LInv
    <3> QED BY <2>1, <3>1 DEF vars, LInv
  <2> QED BY <2>1, StepLInv DEF Next
<1>3. LInv => LedgerExplainsWallet
  <2> SUFFICES ASSUME LInv PROVE LedgerExplainsWallet
    OBVIOUS
  <2>1. \A u \in Users : getWallet(u).availableBalance = wallet[u].balance - wallet[u].reserved
    BY DEF getWallet, Available
  <2> QED BY <2>1 DEF LInv, RInv, LedgerExplainsWallet, ReservedMatchesLedger, getLedger
<1> QED BY <1>1, <1>2, <1>3, PTL DEF Spec

-----------------------------------------------------------------------------
(* The refinement.                                                         *)

Account(w) == [open |-> w.exists, balance |-> w.balance, held |-> w.reserved]

LEMMA AccountOf ==
  ASSUME NEW u \in Users
  PROVE  Accounts[u] = Account(wallet[u]) /\ Accounts'[u] = Account(wallet'[u])
BY DEF Accounts, Account

LEMMA AccountFields ==
  ASSUME NEW u \in Users
  PROVE  /\ Accounts[u].open = wallet[u].exists
         /\ Accounts[u].balance = wallet[u].balance
         /\ Accounts[u].held = wallet[u].reserved
BY DEF Accounts

LEMMA InitRefines == Init => Atomic!Init
<1> SUFFICES ASSUME Init PROVE Atomic!Init
  OBVIOUS
<1>1. \A u \in Users : wallet[u] = FundedRow \/ wallet[u] = NoRow
  BY DEF Init
<1> DEFINE A == {Atomic!Closed, [open |-> TRUE, balance |-> OpeningBalance, held |-> 0]}
<1>2. ASSUME NEW u \in Users PROVE Account(wallet[u]) \in A
  <2>1. CASE wallet[u] = FundedRow
    BY <2>1 DEF FundedRow, Account
  <2>2. CASE wallet[u] = NoRow
    BY <2>2 DEF NoRow, Account, Atomic!Closed
  <2> QED BY <1>1, <2>1, <2>2
<1> HIDE DEF A
<1>3. Accounts \in [Users -> A]
  BY <1>2 DEF Accounts, Account
<1> QED BY <1>3 DEF Atomic!Init, A

(* One row changes: in the abstract wallet one account does. *)
LEMMA OneAccountChanges ==
  ASSUME NEW u \in Users, wallet'[u].exists,
         \A o \in Users : o # u => wallet'[o] = wallet[o]
  PROVE  Atomic!Becomes(u, wallet'[u].balance, wallet'[u].reserved)
<1> DEFINE x == [open |-> TRUE, balance |-> wallet'[u].balance,
                 held |-> wallet'[u].reserved]
<1>0. wallet'[u].exists = TRUE
  OBVIOUS
<1>1. Accounts'[u] = x
  BY <1>0, AccountOf DEF Account
<1>2. \A o \in Users : o # u => Accounts'[o] = Accounts[o]
  BY AccountOf
<1>3. Accounts' = [Accounts EXCEPT ![u] = x]
  <2> HIDE DEF x
  <2> QED BY <1>1, <1>2 DEF Accounts
<1> QED BY <1>3 DEF Atomic!Becomes

LEMMA StepRefines == RInv /\ [Next]_vars => [Atomic!Next]_Accounts
<1> SUFFICES ASSUME RInv, [Next]_vars PROVE [Atomic!Next]_Accounts
  OBVIOUS
<1>1. ASSUME UNCHANGED wallet PROVE UNCHANGED Accounts
  BY <1>1 DEF Accounts
<1>2. ASSUME NEW c \in Calls, Creates(c) PROVE Atomic!Next
  <2>1. PICK u \in Users : u = call[c].user
    BY CallFacts DEF RInv, IInv
  <2>2. /\ ~wallet[u].exists /\ wallet[u] = NoRow
        /\ wallet'[u] = NewRow /\ \A o \in Users : o # u => wallet'[o] = wallet[o]
    BY <1>2, <2>1 DEF Creates, RInv, IInv, TypeOK, RowOf
  <2>3. /\ ~Accounts[u].open
        /\ Accounts[u].balance = wallet'[u].balance
        /\ Accounts[u].held = wallet'[u].reserved
        /\ wallet'[u].exists
    <3>1. wallet'[u].exists = TRUE /\ wallet'[u].balance = 0 /\ wallet'[u].reserved = 0
      BY <2>2 DEF NewRow, NoRow
    <3>2. wallet[u].exists = FALSE /\ wallet[u].balance = 0 /\ wallet[u].reserved = 0
      BY <2>2 DEF NoRow
    <3> QED BY <3>1, <3>2, AccountFields
  <2>4. Atomic!Becomes(u, Accounts[u].balance, Accounts[u].held)
    BY <2>2, <2>3, OneAccountChanges
  <2> QED BY <2>3, <2>4 DEF Atomic!Open, Atomic!Next
<1>3. ASSUME NEW c \in Calls, Commits(c) PROVE Atomic!Next
  <2>1. PICK u \in Users, a \in Amounts : u = call[c].user /\ a = call[c].amount
    BY CallFacts DEF RInv, IInv, TypeOK, Call
  <2> DEFINE w == wallet[u]
             v == wallet'[u]
             x == Accounts[u]
  <2>2. /\ w.exists /\ v.exists
        /\ \A o \in Users : o # u => wallet'[o] = wallet[o]
    BY <1>3, <2>1, CommitIsExact, CommitResult DEF RowOf
  <2>3. \/ v.balance = w.balance + a /\ v.reserved = w.reserved
        \/ Available(w) >= a /\ v.balance = w.balance - a /\ v.reserved = w.reserved
        \/ Available(w) >= a /\ v.balance = w.balance /\ v.reserved = w.reserved + a
        \/ v.balance = w.balance /\ v.reserved = w.reserved - a
    BY <1>3, <2>1, CommitResult DEF RowOf
  <2>4. /\ x.open /\ x.balance = w.balance /\ x.held = w.reserved
        /\ Atomic!Free(u) = Available(w)
    <3>1. x.open
      BY <2>2, AccountFields, Zenon
    <3> QED BY <3>1, AccountFields DEF Atomic!Free, Available
  <2>5. Atomic!Becomes(u, v.balance, v.reserved)
    BY <2>2, OneAccountChanges
  <2>6. \/ Atomic!Credit(u, a) \/ Atomic!Debit(u, a)
        \/ Atomic!Reserve(u, a) \/ Atomic!Release(u, a)
    BY <2>3, <2>4, <2>5
       DEF Atomic!Credit, Atomic!Debit, Atomic!Reserve, Atomic!Release
  <2> QED BY <2>6 DEF Atomic!Next
<1>4. CASE UNCHANGED vars
  BY <1>1, <1>4 DEF vars
<1> QED BY <1>1, <1>2, <1>3, <1>4, StepTables DEF Next

(* Without payouts every operation takes effect on the account as it is     *)
(* at that moment, at once and in full: the service, with its reads, late   *)
(* writes, retries and redeliveries, implements the atomic wallet.          *)
THEOREM Refines ==
  ASSUME NoPayouts
  PROVE  Spec => ImplementsAtomicWallet
<1>1. RInv /\ [Next]_vars => RInv'
  BY NextRInv
<1> QED BY <1>1, InitRInv, InitRefines, StepRefines, PTL
        DEF Spec, ImplementsAtomicWallet, Atomic!Spec

=============================================================================
