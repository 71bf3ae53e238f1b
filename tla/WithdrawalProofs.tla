-------------------------- MODULE WithdrawalProofs --------------------------
(***************************************************************************)
(* The phone is paid at most once for a withdrawal, for every number of    *)
(* withdrawals, transfers and callbacks, and whatever is lost, refused,    *)
(* doubled or late, as long as callbacks are handled one after the other.  *)
(*                                                                         *)
(* The argument: a second transfer is asked by a timeout that has counted  *)
(* the one retry, and only for a first transfer that M-Pesa has given up.  *)
(* A retry that no callback handler has counted has not been made.         *)
(***************************************************************************)
EXTENDS Withdrawal, FiniteSetTheorems, SequenceTheorems, TLAPS

OneHandler == \A c, d \in Callbacks : c = d

Outcome  == {"pending", "timeout", "paid", "refused", "late"}
GivenUp  == {"timeout", "late"}
InitPC   == {"idle", "limit", "reserve", "create", "transfer", "record", "publish",
             "release", "fail", "done", "rejected", "failed"}
CallPC   == {"idle", "find", "store", "complete", "debit", "count", "publish",
             "count_retry", "transfer", "record", "fail", "release"}
NotAsked == {"idle", "limit", "reserve", "create", "transfer"}

-----------------------------------------------------------------------------
(* Types.                                                                  *)

TInv == TypeOK /\ \A w \in Withdrawals : Len(transfers[w]) <= MaxTransfers

LEMMA IdleType == Idle \in Callback
<1>1. (CHOOSE w \in Withdrawals : TRUE) \in Withdrawals
  BY WithdrawalAssumption
<1> QED BY <1>1 DEF Idle, Callback, Payment, Statuses, NoId

LEMMA PaymentUpdate ==
  ASSUME NEW p \in Payment, NEW s \in Statuses, NEW i \in {NoId} \cup Ids, NEW n \in Nat
  PROVE  /\ [p EXCEPT !.status = s] \in Payment
         /\ [p EXCEPT !.status = s, !.conversationId = i] \in Payment
         /\ [p EXCEPT !.retryCount = n] \in Payment
BY DEF Payment

LEMMA CallbackUpdate ==
  ASSUME NEW k \in Callback, NEW pc \in CallPC, NEW p \in Payment, NEW i \in {NoId} \cup Ids
  PROVE  /\ [k EXCEPT !.pc = pc] \in Callback
         /\ [k EXCEPT !.pc = pc, !.row = p] \in Callback
         /\ [k EXCEPT !.pc = pc, !.id = i] \in Callback
BY DEF Callback, CallPC

LEMMA CallbackFields ==
  ASSUME TypeOK, NEW c \in Callbacks
  PROVE  /\ callback[c] \in Callback /\ Of(c) \in Withdrawals
         /\ payment[Of(c)] \in Payment /\ payment[Of(c)].retryCount + 1 \in Nat
         /\ transfers[Of(c)] \in Seq(Transfer)
         /\ callback[c].id \in {NoId} \cup Ids
<1>1. callback[c] \in Callback
  BY DEF TypeOK
<1>2. Of(c) \in Withdrawals /\ callback[c].id \in {NoId} \cup Ids
  BY <1>1 DEF Callback, Of
<1>3. payment[Of(c)] \in Payment
  BY <1>2 DEF TypeOK
<1>4. payment[Of(c)].retryCount + 1 \in Nat
  BY <1>3 DEF Payment
<1> QED BY <1>1, <1>2, <1>3, <1>4 DEF TypeOK

LEMMA SetCallback ==
  ASSUME TypeOK, NEW c \in Callbacks, NEW k \in Callback,
         callback' = [callback EXCEPT ![c] = k]
  PROVE  callback' \in [Callbacks -> Callback]
BY DEF TypeOK

LEMMA ContinueType ==
  ASSUME TypeOK, NEW c \in Callbacks
  PROVE  /\ \A pc \in CallPC : Continue(c, pc) => callback' \in [Callbacks -> Callback]
         /\ End(c) => callback' \in [Callbacks -> Callback]
<1>1. \A pc \in CallPC : [callback[c] EXCEPT !.pc = pc] \in Callback
  BY CallbackFields, CallbackUpdate, IdleType
<1> QED BY <1>1, SetCallback, IdleType DEF Continue, End

LEMMA GotoType ==
  ASSUME TypeOK, NEW w \in Withdrawals, NEW pc \in InitPC, Goto(w, pc)
  PROVE  init' \in [Withdrawals -> InitPC]
BY DEF TypeOK, Goto, InitPC

LEMMA SetRowType ==
  ASSUME TypeOK, NEW w \in Withdrawals, NEW p \in Payment, SetRow(w, p)
  PROVE  payment' \in [Withdrawals -> Payment]
BY DEF TypeOK, SetRow

LEMMA PurseType ==
  ASSUME TypeOK, Reserve \/ Release \/ Debit \/ ReleaseWalletFunds \/ UNCHANGED purse
  PROVE  purse' \in [balance: Int, reserved: Int]
<1>1. purse \in [balance: Int, reserved: Int] /\ Amount \in Int
  BY WithdrawalAssumption DEF TypeOK
<1>2. /\ purse.reserved + Amount \in Int /\ purse.reserved - Amount \in Int
      /\ purse.balance - Amount \in Int
  BY <1>1
<1>3. \A n \in Int : /\ [purse EXCEPT !.reserved = n] \in [balance: Int, reserved: Int]
                     /\ [purse EXCEPT !.balance = n] \in [balance: Int, reserved: Int]
  BY <1>1
<1> QED BY <1>1, <1>2, <1>3 DEF Reserve, Release, Debit, ReleaseWalletFunds

(* A new transfer: the sequence of the withdrawal grows by a pending one. *)
LEMMA AskStep ==
  ASSUME TInv, NEW w \in Withdrawals, AskTransfer(w)
  PROVE  /\ transfers' \in [Withdrawals -> Seq(Transfer)]
         /\ \A v \in Withdrawals : v # w => transfers'[v] = transfers[v]
         /\ Len(transfers'[w]) = Len(transfers[w]) + 1
         /\ Len(transfers'[w]) <= MaxTransfers
         /\ transfers'[w][Len(transfers[w]) + 1].outcome = "pending"
         /\ \A i \in 1..Len(transfers[w]) : transfers'[w][i] = transfers[w][i]
<1> DEFINE t == [outcome |-> "pending", sent |-> 0]
<1>1. t \in Transfer /\ t.outcome = "pending" /\ transfers[w] \in Seq(Transfer)
      /\ Len(transfers[w]) \in Nat /\ MaxTransfers \in Nat
  <2>1. t \in Transfer
    BY WithdrawalAssumption DEF Transfer
  <2>2. transfers[w] \in Seq(Transfer)
    BY DEF TInv, TypeOK
  <2> QED BY <2>1, <2>2, WithdrawalAssumption
<1>2. transfers' = [transfers EXCEPT ![w] = Append(transfers[w], t)]
  BY DEF AskTransfer
<1> HIDE DEF t
<1>3. Append(transfers[w], t) \in Seq(Transfer)
  BY <1>1
<1>4. /\ transfers' \in [Withdrawals -> Seq(Transfer)]
      /\ transfers'[w] = Append(transfers[w], t)
      /\ \A v \in Withdrawals : v # w => transfers'[v] = transfers[v]
  BY <1>2, <1>3 DEF TInv, TypeOK
<1> QED BY <1>1, <1>4 DEF AskTransfer

(* A change of one transfer in its place. *)
LEMMA SetTransferStep ==
  ASSUME TInv, NEW w \in Withdrawals, NEW i \in 1..Len(transfers[w]),
         NEW t \in Transfer, SetTransfer(w, i, t)
  PROVE  /\ transfers' \in [Withdrawals -> Seq(Transfer)]
         /\ \A v \in Withdrawals : v # w => transfers'[v] = transfers[v]
         /\ \A v \in Withdrawals : Len(transfers'[v]) = Len(transfers[v])
         /\ transfers'[w][i] = t
         /\ \A j \in 1..Len(transfers[w]) : j # i => transfers'[w][j] = transfers[w][j]
<1> DEFINE x == [transfers[w] EXCEPT ![i] = t]
<1>1. transfers[w] \in Seq(Transfer)
  BY DEF TInv, TypeOK
<1>2. /\ x \in Seq(Transfer) /\ Len(x) = Len(transfers[w]) /\ x[i] = t
      /\ \A j \in 1..Len(transfers[w]) : j # i => x[j] = transfers[w][j]
  BY <1>1, ExceptSeq
<1>3. transfers' = [transfers EXCEPT ![w] = x]
  BY DEF SetTransfer
<1> HIDE DEF x
<1> QED BY <1>2, <1>3 DEF TInv, TypeOK

LEMMA InitiateType ==
  ASSUME TInv, NEW w \in Withdrawals, Initiate(w)
  PROVE  TInv'
<1>1. TypeOK /\ payment[w] \in Payment
  BY DEF TInv, TypeOK
<1> DEFINE IT == init' \in [Withdrawals -> InitPC]
<1>2. \A pc \in InitPC : Goto(w, pc) => IT
  BY <1>1, GotoType
<1>3. ASSUME IT, payment' \in [Withdrawals -> Payment], purse' \in [balance: Int, reserved: Int],
             transfers' \in [Withdrawals -> Seq(Transfer)],
             \A v \in Withdrawals : Len(transfers'[v]) <= MaxTransfers,
             UNCHANGED <<faults, callback, withdrawn>>
      PROVE  TInv'
  BY <1>3 DEF TInv, TypeOK, InitPC
<1>4. /\ payment \in [Withdrawals -> Payment] /\ purse \in [balance: Int, reserved: Int]
      /\ transfers \in [Withdrawals -> Seq(Transfer)]
      /\ \A v \in Withdrawals : Len(transfers[v]) <= MaxTransfers
  BY DEF TInv, TypeOK
<1>5. CASE VerifyWithdrawalOtp(w) \/ CheckDailyLimit(w) \/ PublishInitiated(w)
  <2>1. IT
    BY <1>2, <1>5 DEF VerifyWithdrawalOtp, CheckDailyLimit, PublishInitiated, InitPC
  <2> QED BY <1>3, <1>4, <1>5, <2>1
          DEF VerifyWithdrawalOtp, CheckDailyLimit, PublishInitiated
<1>6. CASE ReserveWalletFunds(w) \/ ReleaseOnFailure(w)
  <2>1. IT
    BY <1>2, <1>6 DEF ReserveWalletFunds, ReleaseOnFailure, InitPC
  <2>2. purse' \in [balance: Int, reserved: Int]
    BY <1>1, <1>6, PurseType DEF ReserveWalletFunds, ReleaseOnFailure
  <2> QED BY <1>3, <1>4, <1>6, <2>1, <2>2 DEF ReserveWalletFunds, ReleaseOnFailure
<1>7. CASE CreatePayment(w) \/ RecordConversation(w) \/ InitiationFails(w)
  <2>1. IT
    BY <1>2, <1>7 DEF CreatePayment, RecordConversation, InitiationFails, InitPC
  <2>2. /\ [payment[w] EXCEPT !.status = "INITIATED"] \in Payment
        /\ [payment[w] EXCEPT !.status = "FAILED"] \in Payment
        /\ [payment[w] EXCEPT !.status = "PROCESSING", !.conversationId = 1] \in Payment
    <3>1. 1 \in {NoId} \cup Ids /\ 0 \in Nat
      BY WithdrawalAssumption DEF Ids
    <3>2. "INITIATED" \in Statuses /\ "FAILED" \in Statuses /\ "PROCESSING" \in Statuses
      BY DEF Statuses, Final
    <3> QED BY <1>1, <3>1, <3>2, PaymentUpdate
  <2>3. payment' \in [Withdrawals -> Payment]
    BY <1>1, <1>7, <2>2, SetRowType, <1>4
       DEF CreatePayment, RecordConversation, InitiationFails
  <2> QED BY <1>3, <1>4, <1>7, <2>1, <2>3
          DEF CreatePayment, RecordConversation, InitiationFails
<1>8. CASE B2cTransfer(w)
  <2>1. IT
    BY <1>2, <1>8 DEF B2cTransfer, InitPC
  <2>2. /\ transfers' \in [Withdrawals -> Seq(Transfer)]
        /\ \A v \in Withdrawals : Len(transfers'[v]) <= MaxTransfers
    BY <1>4, <1>8, AskStep DEF B2cTransfer
  <2> QED BY <1>3, <1>4, <1>8, <2>1, <2>2 DEF B2cTransfer
<1> QED BY <1>5, <1>6, <1>7, <1>8 DEF Initiate

LEMMA DecideStep ==
  ASSUME TInv, NEW w \in Withdrawals, NEW i \in 1..Len(transfers[w]), Decide(w, i)
  PROVE  /\ TInv'
         /\ \A v \in Withdrawals : Len(transfers'[v]) = Len(transfers[v])
         /\ \A v \in Withdrawals : v # w => transfers'[v] = transfers[v]
         /\ \A j \in 1..Len(transfers[w]) : j # i => transfers'[w][j] = transfers[w][j]
         /\ transfers[w][i].outcome \in GivenUp => transfers'[w][i].outcome \in GivenUp
         /\ transfers[w][i].outcome \in {"pending", "timeout"}
<1>1. transfers[w] \in Seq(Transfer) /\ transfers[w][i] \in Transfer
  BY DEF TInv, TypeOK
<1>2. PICK o \in Outcome : /\ SetTransfer(w, i, [transfers[w][i] EXCEPT !.outcome = o])
                           /\ transfers[w][i].outcome = "timeout" => o = "late"
                           /\ transfers[w][i].outcome \in {"pending", "timeout"}
  BY DEF Decide, Outcome
<1> DEFINE t == [transfers[w][i] EXCEPT !.outcome = o]
<1>3. t \in Transfer /\ t.outcome = o
  BY <1>1 DEF Transfer, Outcome
<1> HIDE DEF t
<1>4. SetTransfer(w, i, t)
  BY <1>2 DEF t
<1>5. /\ transfers' \in [Withdrawals -> Seq(Transfer)]
      /\ \A v \in Withdrawals : v # w => transfers'[v] = transfers[v]
      /\ \A v \in Withdrawals : Len(transfers'[v]) = Len(transfers[v])
      /\ transfers'[w][i] = t
      /\ \A j \in 1..Len(transfers[w]) : j # i => transfers'[w][j] = transfers[w][j]
  BY <1>3, <1>4, SetTransferStep
<1>6. TInv'
  BY <1>5 DEF Decide, TInv, TypeOK
<1> QED BY <1>2, <1>3, <1>5, <1>6 DEF GivenUp

LEMMA CallBackStep ==
  ASSUME TInv, NEW w \in Withdrawals, NEW i \in 1..Len(transfers[w]), NEW c \in Callbacks,
         CallBack(c, w, i)
  PROVE  /\ TInv'
         /\ \A v \in Withdrawals : Len(transfers'[v]) = Len(transfers[v])
         /\ \A v \in Withdrawals : \A j \in 1..Len(transfers[v]) :
              transfers'[v][j].outcome = transfers[v][j].outcome
         /\ callback'[c].pc = "find" /\ callback'[c].of = w /\ callback'[c].id = i
         /\ callback'[c].kind = "timeout" => transfers[w][i].outcome = "timeout"
<1> DEFINE t == transfers[w][i]
           n == t.sent + 1
           kind == IF t.outcome = "timeout" THEN "timeout" ELSE "result"
           paid == t.outcome \in {"paid", "late"}
           k == [Idle EXCEPT !.pc = "find", !.of = w, !.id = i, !.kind = kind, !.paid = paid]
           t2 == [t EXCEPT !.sent = n]
<1>1. /\ TypeOK /\ transfers[w] \in Seq(Transfer) /\ t \in Transfer
      /\ i \in Ids /\ MaxCallbacks \in Nat
  BY WithdrawalAssumption DEF TInv, TypeOK, Ids
<1>2. n \in 0..MaxCallbacks
  BY <1>1 DEF CallBack, Transfer
<1>3. t2 \in Transfer /\ t2.outcome = t.outcome
  <2> HIDE DEF n
  <2> QED BY <1>1, <1>2 DEF Transfer
<1>4. kind \in {"result", "timeout"} /\ paid \in BOOLEAN
  OBVIOUS
<1>5. /\ k \in Callback /\ k.pc = "find" /\ k.of = w /\ k.id = i /\ k.kind = kind
  <2> HIDE DEF kind, paid
  <2> QED BY <1>1, <1>4, IdleType DEF Callback
<1>6. SetTransfer(w, i, t2) /\ callback' = [callback EXCEPT ![c] = k]
  BY DEF CallBack
<1> HIDE DEF t2, k
<1>7. /\ transfers' \in [Withdrawals -> Seq(Transfer)]
      /\ \A v \in Withdrawals : v # w => transfers'[v] = transfers[v]
      /\ \A v \in Withdrawals : Len(transfers'[v]) = Len(transfers[v])
      /\ transfers'[w][i] = t2
      /\ \A j \in 1..Len(transfers[w]) : j # i => transfers'[w][j] = transfers[w][j]
  BY <1>3, <1>6, SetTransferStep
<1>8. callback' \in [Callbacks -> Callback] /\ callback'[c] = k
  BY <1>1, <1>5, <1>6, SetCallback DEF TypeOK
<1>9. TInv'
  BY <1>7, <1>8 DEF CallBack, TInv, TypeOK
<1> QED BY <1>3, <1>5, <1>7, <1>8, <1>9

LEMMA HandleType ==
  ASSUME TInv, NEW c \in Callbacks, HandleCallback(c)
  PROVE  TInv'
<1>1. TypeOK
  BY DEF TInv
<1> DEFINE k == callback[c]
           p == payment[Of(c)]
           CT == callback' \in [Callbacks -> Callback]
<1>2. /\ k \in Callback /\ Of(c) \in Withdrawals /\ p \in Payment
      /\ p.retryCount + 1 \in Nat /\ k.id \in {NoId} \cup Ids /\ Amount \in Nat
      /\ withdrawn \in Nat
  BY <1>1, CallbackFields, WithdrawalAssumption DEF TypeOK
<1>3. /\ \A pc \in CallPC : Continue(c, pc) => CT
      /\ End(c) => CT
  BY <1>1, ContinueType
<1>4. CASE \/ StoreCallback(c) \/ DebitWalletFunds(c) \/ IncrementDailyLimit(c)
           \/ PublishOutcome(c) \/ ReleaseAfterFailure(c)
  <2>1. CT
    BY <1>3, <1>4 DEF StoreCallback, DebitWalletFunds, IncrementDailyLimit,
                      PublishOutcome, ReleaseAfterFailure, CallPC
  <2>2. purse' \in [balance: Int, reserved: Int] /\ withdrawn' \in Nat
    BY <1>1, <1>2, <1>4, PurseType
       DEF StoreCallback, DebitWalletFunds, IncrementDailyLimit, PublishOutcome,
           ReleaseAfterFailure
  <2> QED BY <1>4, <2>1, <2>2
          DEF StoreCallback, DebitWalletFunds, IncrementDailyLimit, PublishOutcome,
              ReleaseAfterFailure, TInv, TypeOK
<1>5. CASE FindPayment(c)
  <2>1. [k EXCEPT !.pc = "find", !.row = p] \in Callback
        /\ [k EXCEPT !.pc = "store", !.row = p] \in Callback
    BY <1>2, CallbackUpdate DEF CallPC
  <2>2. CT
    BY <1>1, <1>3, <1>5, <2>1, SetCallback DEF FindPayment
  <2> QED BY <1>5, <2>2 DEF FindPayment, TInv, TypeOK
<1>6. CASE Complete(c) \/ Fail(c) \/ CountRetry(c) \/ RecordRetry(c)
  <2>1. CT
    BY <1>3, <1>6 DEF Complete, Fail, CountRetry, RecordRetry, CallPC
  <2>2. /\ [p EXCEPT !.status = "COMPLETED"] \in Payment
        /\ [p EXCEPT !.status = "FAILED"] \in Payment
        /\ [p EXCEPT !.status = "PROCESSING", !.conversationId = k.id] \in Payment
        /\ [p EXCEPT !.retryCount = p.retryCount + 1] \in Payment
    <3> DEFINE n == p.retryCount + 1
    <3>1. "COMPLETED" \in Statuses /\ "FAILED" \in Statuses /\ "PROCESSING" \in Statuses
      BY DEF Statuses, Final
    <3>2. n \in Nat
      BY <1>2
    <3> HIDE DEF n
    <3>3. [p EXCEPT !.retryCount = n] \in Payment
      BY <1>2, <3>1, <3>2, PaymentUpdate
    <3> QED BY <1>2, <3>1, <3>2, <3>3, PaymentUpdate DEF n
  <2>3. payment' \in [Withdrawals -> Payment]
    BY <1>1, <1>2, <1>6, <2>2, SetRowType DEF Complete, Fail, CountRetry, RecordRetry
  <2> QED BY <1>6, <2>1, <2>3 DEF Complete, Fail, CountRetry, RecordRetry, TInv, TypeOK
<1>7. CASE RetryTransfer(c)
  <2> DEFINE n == Len(transfers[Of(c)]) + 1
  <2>1. AskTransfer(Of(c)) => n \in {NoId} \cup Ids
    BY <1>1, <1>2, CallbackFields, WithdrawalAssumption DEF AskTransfer, Ids, NoId
  <2>2. n \in {NoId} \cup Ids => [k EXCEPT !.pc = "record", !.id = n] \in Callback
    <3> HIDE DEF n
    <3> QED BY <1>2, CallbackUpdate DEF CallPC
  <2>3. CT
    BY <1>1, <1>3, <1>7, <2>1, <2>2, SetCallback DEF RetryTransfer, CallPC
  <2>4. /\ transfers' \in [Withdrawals -> Seq(Transfer)]
        /\ \A v \in Withdrawals : Len(transfers'[v]) <= MaxTransfers
    BY <1>2, <1>7, AskStep DEF RetryTransfer, TInv, TypeOK
  <2> QED BY <1>7, <2>3, <2>4 DEF RetryTransfer, TInv, TypeOK
<1> QED BY <1>4, <1>5, <1>6, <1>7 DEF HandleCallback

LEMMA InitType == Init => TInv
<1> SUFFICES ASSUME Init PROVE TInv
  OBVIOUS
<1>1. Idle \in Callback /\ Idle.row \in Payment
  BY IdleType DEF Callback
<1>2. << >> \in Seq(Transfer) /\ Len(<< >>) = 0
  OBVIOUS
<1> QED BY <1>1, <1>2, WithdrawalAssumption DEF Init, TInv, TypeOK

LEMMA NextType == TInv /\ [Next]_vars => TInv'
<1> SUFFICES ASSUME TInv, [Next]_vars PROVE TInv'
  OBVIOUS
<1>1. CASE UNCHANGED vars
  BY <1>1 DEF vars, TInv, TypeOK
<1> QED BY <1>1, InitiateType, DecideStep, CallBackStep, HandleType DEF Next

(* Every state a withdrawal reaches is well typed: no callback names a      *)
(* transfer beyond those that were asked for, and no row an unknown id.     *)
THEOREM TypeCorrect == Spec => []TypeOK
<1>1. TInv => TypeOK
  BY DEF TInv
<1> QED BY <1>1, InitType, NextType, PTL DEF Spec

-----------------------------------------------------------------------------
(* Safety.  How the row p, the transfers l and the initiation at pc of one  *)
(* withdrawal belong together, and a callback handler k with them.          *)

Consistent(pc, p, l) ==
  /\ pc \in NotAsked => Len(l) = 0 /\ p.conversationId = NoId
  /\ pc = "record" => Len(l) = 1 /\ p.conversationId = NoId
  /\ p.conversationId <= Len(l)
  /\ p.conversationId = NoId \/ p.retryCount = 0 => Len(l) <= 1
  /\ Len(l) <= 2
  /\ Len(l) = 2 => l[1].outcome \in GivenUp

Informed(k, p, l) ==
  /\ k.pc # "idle" => k.id \in 1..Len(l)
  /\ k.pc \in {"find", "store"} /\ k.kind = "timeout" => l[k.id].outcome \in GivenUp
  /\ k.pc = "store" => k.row.retryCount = p.retryCount
  /\ k.pc \in {"store", "count_retry", "transfer", "record"} => p.conversationId # NoId
  /\ k.pc \in {"count_retry", "transfer"} => Len(l) = 1 /\ l[1].outcome \in GivenUp
  /\ k.pc \in {"transfer", "record"} => p.retryCount > 0

IInv ==
  /\ TInv
  /\ \A w \in Withdrawals : Consistent(init[w], payment[w], transfers[w])
  /\ \A c \in Callbacks : Informed(callback[c], payment[Of(c)], transfers[Of(c)])

(* What is known of one withdrawal and one handler in every state. *)
LEMMA StateFacts ==
  ASSUME IInv
  PROVE  /\ TypeOK
         /\ \A w \in Withdrawals : /\ payment[w] \in Payment
                                   /\ payment[w].retryCount \in Nat
                                   /\ payment[w].conversationId \in Nat
                                   /\ transfers[w] \in Seq(Transfer)
                                   /\ Len(transfers[w]) \in Nat
         /\ \A c \in Callbacks : Of(c) \in Withdrawals /\ callback[c] \in Callback
<1>1. TypeOK
  BY DEF IInv, TInv
<1>2. \A w \in Withdrawals : payment[w] \in Payment /\ transfers[w] \in Seq(Transfer)
  BY <1>1 DEF TypeOK
<1>3. \A p \in Payment : p.retryCount \in Nat /\ p.conversationId \in Nat
  BY WithdrawalAssumption DEF Payment, Ids, NoId
<1> QED BY <1>1, <1>2, <1>3, CallbackFields

LEMMA InitiateInv ==
  ASSUME IInv, NEW w \in Withdrawals, Initiate(w)
  PROVE  IInv'
<1>0. TInv
  BY DEF IInv
<1>1. TInv'
  BY <1>0, InitiateType
<1>2. /\ TypeOK /\ payment[w] \in Payment /\ payment[w].conversationId \in Nat
      /\ payment[w].retryCount \in Nat /\ Len(transfers[w]) \in Nat
      /\ transfers[w] \in Seq(Transfer) /\ \A c \in Callbacks : Of(c) \in Withdrawals
  BY StateFacts
<1>3. Consistent(init[w], payment[w], transfers[w])
  BY DEF IInv
<1>4. /\ \A pc : Goto(w, pc) => /\ init'[w] = pc
                                /\ \A v \in Withdrawals : v # w => init'[v] = init[v]
      /\ \A p : SetRow(w, p) =>
           /\ payment'[w] = p
           /\ \A v \in Withdrawals : v # w => payment'[v] = payment[v]
  BY <1>2 DEF TypeOK, Goto, SetRow
<1>5. ASSUME \A v \in Withdrawals : v # w =>
               /\ init'[v] = init[v] /\ payment'[v] = payment[v]
               /\ transfers'[v] = transfers[v],
             UNCHANGED callback,
             Consistent(init'[w], payment'[w], transfers'[w]),
             \A c \in Callbacks : Of(c) = w /\ Informed(callback[c], payment[w], transfers[w])
                => Informed(callback[c], payment'[w], transfers'[w])
      PROVE  IInv'
  BY <1>1, <1>2, <1>5 DEF IInv, Of
<1>6. CASE /\ VerifyWithdrawalOtp(w) \/ CheckDailyLimit(w) \/ ReserveWalletFunds(w)
              \/ PublishInitiated(w) \/ ReleaseOnFailure(w)
  <2>1. /\ UNCHANGED <<payment, transfers, callback>>
        /\ \/ init'[w] \in NotAsked /\ init[w] \in NotAsked
           \/ init'[w] \notin NotAsked \cup {"record"}
        /\ \A v \in Withdrawals : v # w => init'[v] = init[v]
    BY <1>4, <1>6
       DEF VerifyWithdrawalOtp, CheckDailyLimit, ReserveWalletFunds, PublishInitiated,
           ReleaseOnFailure, At, NotAsked
  <2>2. Consistent(init'[w], payment'[w], transfers'[w])
    BY <1>3, <2>1 DEF Consistent, NotAsked
  <2> QED BY <1>5, <2>1, <2>2
<1>7. CASE CreatePayment(w) \/ InitiationFails(w)
  <2>1. /\ UNCHANGED <<transfers, callback>>
        /\ payment'[w].conversationId = payment[w].conversationId
        /\ payment'[w].retryCount = payment[w].retryCount
        /\ \/ init'[w] \in NotAsked /\ init[w] \in NotAsked
           \/ init'[w] \notin NotAsked \cup {"record"}
        /\ \A v \in Withdrawals : v # w => init'[v] = init[v] /\ payment'[v] = payment[v]
    <3>1. /\ \/ SetRow(w, [payment[w] EXCEPT !.status = "INITIATED"])
             \/ SetRow(w, [payment[w] EXCEPT !.status = "FAILED"])
             \/ UNCHANGED payment
          /\ \/ init'[w] \in NotAsked /\ init[w] \in NotAsked
             \/ init'[w] \notin NotAsked \cup {"record"}
          /\ UNCHANGED <<transfers, callback>>
          /\ \A v \in Withdrawals : v # w => init'[v] = init[v]
      BY <1>4, <1>7 DEF CreatePayment, InitiationFails, At, NotAsked
    <3>2. \/ payment'[w] = [payment[w] EXCEPT !.status = "INITIATED"]
          \/ payment'[w] = [payment[w] EXCEPT !.status = "FAILED"]
          \/ payment'[w] = payment[w]
      BY <1>4, <3>1
    <3>3. \A v \in Withdrawals : v # w => payment'[v] = payment[v]
      BY <1>4, <3>1
    <3>4. /\ payment'[w].conversationId = payment[w].conversationId
          /\ payment'[w].retryCount = payment[w].retryCount
      BY <1>2, <3>2 DEF Payment
    <3> QED BY <3>1, <3>3, <3>4
  <2>2. Consistent(init'[w], payment'[w], transfers'[w])
    BY <1>3, <2>1 DEF Consistent, NotAsked
  <2>3. \A k : Informed(k, payment[w], transfers[w])
                 => Informed(k, payment'[w], transfers'[w])
    BY <2>1 DEF Informed
  <2> QED BY <1>5, <2>1, <2>2, <2>3
<1>8. CASE B2cTransfer(w)
  <2>1. Len(transfers[w]) = 0 /\ payment[w].conversationId = NoId
    BY <1>3, <1>8 DEF B2cTransfer, At, Consistent, NotAsked
  <2>2. \A k : Informed(k, payment[w], transfers[w])
                 => Informed(k, payment'[w], transfers'[w])
    BY <2>1 DEF Informed
  <2>3. /\ UNCHANGED <<payment, callback>>
        /\ \A v \in Withdrawals : v # w => init'[v] = init[v]
        /\ \/ AskTransfer(w) /\ init'[w] \in {"record", "release"}
           \/ UNCHANGED transfers /\ init'[w] = "release"
    BY <1>4, <1>8 DEF B2cTransfer
  <2>4. \A v \in Withdrawals : v # w => transfers'[v] = transfers[v]
    BY <1>0, <2>3, AskStep
  <2>5. AskTransfer(w) => Len(transfers'[w]) = 1
    <3>1. AskTransfer(w) => Len(transfers'[w]) = Len(transfers[w]) + 1
      BY <1>0, AskStep
    <3> QED BY <2>1, <3>1
  <2>6. \/ Len(transfers'[w]) = 1 /\ init'[w] \in {"record", "release"}
        \/ Len(transfers'[w]) = 0 /\ init'[w] = "release"
    <3>1. CASE AskTransfer(w)
      BY <2>3, <2>5, <3>1
    <3>2. CASE UNCHANGED transfers /\ init'[w] = "release"
      BY <2>1, <2>3, <3>2
    <3> QED BY <2>3, <3>1, <3>2
  <2>7. payment'[w].conversationId = NoId
    BY <2>1, <2>3
  <2>8. Consistent(init'[w], payment'[w], transfers'[w])
    <3>1. CASE Len(transfers'[w]) = 1 /\ init'[w] \in {"record", "release"}
      BY <2>7, <3>1 DEF Consistent, NotAsked, NoId
    <3>2. CASE Len(transfers'[w]) = 0 /\ init'[w] = "release"
      BY <2>7, <3>2 DEF Consistent, NotAsked, NoId
    <3> QED BY <2>6, <3>1, <3>2
  <2> QED BY <1>5, <2>2, <2>3, <2>4, <2>8
<1>9. CASE RecordConversation(w)
  <2>1. /\ Len(transfers[w]) = 1 /\ payment[w].conversationId = NoId
    BY <1>3, <1>9 DEF RecordConversation, At, Consistent
  <2>2. /\ UNCHANGED <<transfers, callback>>
        /\ payment'[w].conversationId = 1
        /\ payment'[w].retryCount = payment[w].retryCount
        /\ init'[w] = "publish"
        /\ \A v \in Withdrawals : v # w => init'[v] = init[v] /\ payment'[v] = payment[v]
    <3>1. /\ SetRow(w, [payment[w] EXCEPT !.status = "PROCESSING", !.conversationId = 1])
          /\ Goto(w, "publish") /\ UNCHANGED <<transfers, callback>>
      BY <1>9 DEF RecordConversation
    <3>2. payment'[w] = [payment[w] EXCEPT !.status = "PROCESSING", !.conversationId = 1]
      BY <1>4, <3>1
    <3>3. payment'[w].conversationId = 1 /\ payment'[w].retryCount = payment[w].retryCount
      BY <1>2, <3>2 DEF Payment
    <3> QED BY <1>4, <3>1, <3>3
  <2>3. Consistent(init'[w], payment'[w], transfers'[w])
    <3>1. Len(transfers'[w]) = 1
      BY <2>1, <2>2
    <3> QED BY <2>2, <3>1 DEF Consistent, NotAsked, NoId
  <2>4. \A k : Informed(k, payment[w], transfers[w])
                 => Informed(k, payment'[w], transfers'[w])
    BY <2>1, <2>2 DEF Informed, NoId
  <2> QED BY <1>5, <2>2, <2>3, <2>4
<1> QED BY <1>6, <1>7, <1>8, <1>9 DEF Initiate

LEMMA DecideInv ==
  ASSUME IInv, NEW w \in Withdrawals, NEW i \in 1..Len(transfers[w]), Decide(w, i)
  PROVE  IInv'
<1>1. /\ TInv'
      /\ UNCHANGED <<init, payment, callback>>
      /\ \A v \in Withdrawals : Len(transfers'[v]) = Len(transfers[v])
  BY DecideStep DEF IInv, Decide
<1>2. \A v \in Withdrawals : \A j \in 1..Len(transfers[v]) :
        transfers[v][j].outcome \in GivenUp => transfers'[v][j].outcome \in GivenUp
  BY DecideStep DEF IInv
<1>3. \A v \in Withdrawals : Consistent(init'[v], payment'[v], transfers'[v])
  BY <1>1, <1>2, StateFacts DEF IInv, Consistent
<1>4. ASSUME NEW c \in Callbacks
      PROVE  Informed(callback'[c], payment'[Of(c)], transfers'[Of(c)])
  <2>1. Informed(callback[c], payment[Of(c)], transfers[Of(c)]) /\ Of(c) \in Withdrawals
    BY StateFacts DEF IInv
  <2> QED BY <1>1, <1>2, <2>1 DEF Informed
<1> QED BY <1>1, <1>3, <1>4 DEF IInv, Of

LEMMA CallBackInv ==
  ASSUME IInv, NEW w \in Withdrawals, NEW i \in 1..Len(transfers[w]), NEW c \in Callbacks,
         CallBack(c, w, i)
  PROVE  IInv'
<1>1. /\ TInv'
      /\ UNCHANGED <<init, payment>>
      /\ \A v \in Withdrawals : Len(transfers'[v]) = Len(transfers[v])
      /\ \A v \in Withdrawals : \A j \in 1..Len(transfers[v]) :
           transfers'[v][j].outcome = transfers[v][j].outcome
      /\ callback'[c].pc = "find" /\ callback'[c].of = w /\ callback'[c].id = i
      /\ callback'[c].kind = "timeout" => transfers[w][i].outcome = "timeout"
  <2>1. TInv
    BY DEF IInv
  <2>2. UNCHANGED <<init, payment>>
    BY DEF CallBack
  <2> QED BY <2>1, <2>2, CallBackStep
<1>2. \A d \in Callbacks : d # c => callback'[d] = callback[d]
  BY StateFacts DEF CallBack, TypeOK
<1>3. \A v \in Withdrawals : Consistent(init'[v], payment'[v], transfers'[v])
  BY <1>1, StateFacts DEF IInv, Consistent
<1>4. Informed(callback'[c], payment'[w], transfers'[w])
  BY <1>1 DEF Informed, GivenUp
<1>5. ASSUME NEW d \in Callbacks, d # c
      PROVE  Informed(callback'[d], payment'[Of(d)], transfers'[Of(d)])
  <2>1. Informed(callback[d], payment[Of(d)], transfers[Of(d)]) /\ Of(d) \in Withdrawals
    BY StateFacts DEF IInv
  <2> QED BY <1>1, <1>2, <1>5, <2>1 DEF Informed
<1> QED BY <1>1, <1>2, <1>3, <1>4, <1>5 DEF IInv, Of

(* Only one handler runs: what it holds in its variables is still true of   *)
(* the row and the transfers when it acts on it.                            *)
LEMMA HandleInv ==
  ASSUME OneHandler, IInv, NEW c \in Callbacks, HandleCallback(c)
  PROVE  IInv'
<1> DEFINE w == Of(c)
           k == callback[c]
           p == payment[w]
           l == transfers[w]
           k2 == callback'[c]
<1>0. TInv /\ TypeOK
  BY DEF IInv, TInv
<1>1. TInv'
  BY <1>0, HandleType
<1>2. /\ w \in Withdrawals /\ k \in Callback /\ p \in Payment
      /\ p.retryCount \in Nat /\ p.conversationId \in Nat /\ Len(l) \in Nat
      /\ k.of = w
  BY StateFacts DEF Of
<1>3. Consistent(init[w], p, l) /\ Informed(k, p, l) /\ \A d \in Callbacks : d = c
  BY <1>2 DEF IInv, OneHandler
<1>4. /\ \A pc : Continue(c, pc) => /\ k2.pc = pc /\ k2.of = w /\ k2.id = k.id
                                    /\ k2.kind = k.kind /\ k2.row = k.row
      /\ End(c) => k2.pc = "idle"
  BY <1>0, <1>2 DEF TypeOK, Continue, End, Callback, Idle
<1>5. \A r : SetRow(w, r) => /\ payment'[w] = r
                             /\ \A v \in Withdrawals : v # w => payment'[v] = payment[v]
  BY <1>0, <1>2 DEF TypeOK, SetRow
<1>6. ASSUME UNCHANGED init,
             \A v \in Withdrawals : v # w => payment'[v] = payment[v]
                                             /\ transfers'[v] = transfers[v],
             Consistent(init[w], payment'[w], transfers'[w]),
             \/ k2.pc = "idle"
             \/ k2.of = w /\ Informed(k2, payment'[w], transfers'[w])
      PROVE  IInv'
  <2>1. \A v \in Withdrawals : Consistent(init'[v], payment'[v], transfers'[v])
    BY <1>6 DEF IInv
  <2>2. Informed(k2, payment'[k2.of], transfers'[k2.of])
    BY <1>6 DEF Informed
  <2> QED BY <1>1, <1>3, <2>1, <2>2 DEF IInv, Of
<1>7. CASE \/ DebitWalletFunds(c) \/ IncrementDailyLimit(c) \/ PublishOutcome(c)
           \/ ReleaseAfterFailure(c)
  <2>1. /\ UNCHANGED <<init, payment, transfers>> /\ k.pc # "idle"
        /\ \/ End(c)
           \/ \E pc \in {"count", "publish"} : Continue(c, pc)
    BY <1>7 DEF DebitWalletFunds, IncrementDailyLimit, PublishOutcome,
                ReleaseAfterFailure, OnCall
  <2>2. \/ k2.pc = "idle"
        \/ k2.of = w /\ k2.id = k.id /\ k2.pc \in {"count", "publish"}
    BY <1>4, <2>1
  <2>3. k2.pc = "idle" \/ (k2.of = w /\ Informed(k2, p, l))
    BY <1>3, <2>1, <2>2 DEF Informed
  <2> QED BY <1>3, <1>6, <2>1, <2>3
<1>8. CASE FindPayment(c)
  <2>1. UNCHANGED <<init, payment, transfers>> /\ k.pc = "find"
    BY <1>8 DEF FindPayment, OnCall
  <2>2. CASE End(c)
    BY <1>3, <1>4, <1>6, <2>1, <2>2
  <2>3. CASE /\ p.conversationId = k.id
             /\ callback' = [callback EXCEPT ![c] = [k EXCEPT !.pc = "store", !.row = p]]
    <3>1. /\ k2.pc = "store" /\ k2.of = w /\ k2.id = k.id
          /\ k2.kind = k.kind /\ k2.row = p
      <4>1. k2 = [k EXCEPT !.pc = "store", !.row = p]
        BY <1>0, <2>3 DEF TypeOK
      <4> QED BY <1>2, <4>1 DEF Callback
    <3>2. Informed(k2, p, l)
      BY <1>2, <1>3, <2>1, <2>3, <3>1 DEF Informed, NoId
    <3> QED BY <1>3, <1>6, <2>1, <3>1, <3>2
  <2> QED BY <1>8, <2>2, <2>3 DEF FindPayment
<1>9. CASE StoreCallback(c)
  <2>1. UNCHANGED <<init, payment, transfers>> /\ k.pc = "store"
    BY <1>9 DEF StoreCallback, OnCall
  <2>2. CASE End(c)
    BY <1>3, <1>4, <1>6, <2>1, <2>2
  <2>3. CASE \E pc \in {"complete", "fail"} : Continue(c, pc)
    <3>1. k2.pc \in {"complete", "fail"} /\ k2.of = w /\ k2.id = k.id
      BY <1>4, <2>3
    <3>2. Informed(k2, p, l)
      BY <1>3, <2>1, <3>1 DEF Informed
    <3> QED BY <1>3, <1>6, <2>1, <3>1, <3>2
  <2>4. CASE k.kind = "timeout" /\ RetriesLeft(c) /\ Continue(c, "count_retry")
    <3>1. k2.pc = "count_retry" /\ k2.of = w /\ k2.id = k.id
      BY <1>4, <2>4
    <3>2. p.retryCount = 0
      BY <1>2, <1>3, <2>1, <2>4 DEF RetriesLeft, Informed
    <3>3. k.id \in 1..Len(l) /\ l[k.id].outcome \in GivenUp /\ p.conversationId # NoId
      BY <1>3, <2>1, <2>4 DEF Informed
    <3>4. Len(l) <= 1
      BY <1>3, <3>2 DEF Consistent
    <3>5. Len(l) = 1 /\ k.id = 1
      <4>1. PICK n \in Nat : n = Len(l)
        BY <1>2
      <4>2. k.id \in 1..n /\ n <= 1
        BY <3>3, <3>4, <4>1
      <4>3. n = 1 /\ k.id = 1
        BY <4>2
      <4> QED BY <4>1, <4>3
    <3>6. l[1].outcome \in GivenUp /\ k2.id \in 1..Len(l)
      BY <3>1, <3>3, <3>5
    <3>7. Informed(k2, p, l)
      BY <3>1, <3>3, <3>5, <3>6 DEF Informed
    <3> QED BY <1>3, <1>6, <2>1, <3>1, <3>7
  <2> QED BY <1>9, <2>2, <2>3, <2>4 DEF StoreCallback
<1>10. CASE Complete(c) \/ Fail(c)
  <2>1. /\ UNCHANGED <<init, transfers>> /\ k.pc # "idle"
        /\ \E pc \in {"debit", "release"} : Continue(c, pc)
        /\ \/ SetRow(w, [p EXCEPT !.status = "COMPLETED"])
           \/ SetRow(w, [p EXCEPT !.status = "FAILED"])
    BY <1>10 DEF Complete, Fail, OnCall
  <2>2. k2.pc \in {"debit", "release"} /\ k2.of = w /\ k2.id = k.id
    BY <1>4, <2>1
  <2>3. \/ payment'[w] = [p EXCEPT !.status = "COMPLETED"]
        \/ payment'[w] = [p EXCEPT !.status = "FAILED"]
    BY <1>5, <2>1
  <2>4. /\ payment'[w].conversationId = p.conversationId
        /\ payment'[w].retryCount = p.retryCount
    BY <1>2, <2>3 DEF Payment
  <2>5. Consistent(init[w], payment'[w], l)
    BY <1>3, <2>4 DEF Consistent
  <2>6. Informed(k2, payment'[w], l)
    BY <1>3, <2>1, <2>2 DEF Informed
  <2>7. \A v \in Withdrawals : v # w => payment'[v] = payment[v]
    BY <1>5, <2>1
  <2> QED BY <1>6, <2>1, <2>2, <2>5, <2>6, <2>7
<1>11. CASE CountRetry(c)
  <2> DEFINE n == p.retryCount + 1
  <2>1. /\ UNCHANGED <<init, transfers>> /\ k.pc = "count_retry"
        /\ Continue(c, "transfer") /\ SetRow(w, [p EXCEPT !.retryCount = n])
    BY <1>11 DEF CountRetry, OnCall
  <2>2. k2.pc = "transfer" /\ k2.of = w /\ k2.id = k.id
    BY <1>4, <2>1
  <2>3. payment'[w] = [p EXCEPT !.retryCount = n] /\ n > 0
    BY <1>2, <1>5, <2>1
  <2>4. payment'[w].conversationId = p.conversationId /\ payment'[w].retryCount = n
    <3> HIDE DEF n
    <3> QED BY <1>2, <2>3 DEF Payment
  <2>5. /\ Len(l) = 1 /\ l[1].outcome \in GivenUp /\ k.id \in 1..Len(l)
        /\ p.conversationId # NoId
    BY <1>3, <2>1 DEF Informed
  <2> HIDE DEF n
  <2>6. Consistent(init[w], payment'[w], l)
    BY <1>3, <2>4, <2>5 DEF Consistent
  <2>7. Informed(k2, payment'[w], l)
    BY <2>2, <2>3, <2>4, <2>5 DEF Informed
  <2>8. \A v \in Withdrawals : v # w => payment'[v] = payment[v]
    BY <1>5, <2>1
  <2> QED BY <1>6, <2>1, <2>2, <2>6, <2>7, <2>8
<1>12. CASE RetryTransfer(c)
  <2>1. /\ UNCHANGED <<init, payment>> /\ k.pc = "transfer"
        /\ Len(l) = 1 /\ l[1].outcome \in GivenUp /\ p.conversationId # NoId
        /\ p.retryCount > 0 /\ k.id \in 1..Len(l)
    BY <1>3, <1>12 DEF RetryTransfer, OnCall, Informed
  <2>2. CASE UNCHANGED transfers /\ Continue(c, "fail")
    <3>1. k2.pc = "fail" /\ k2.of = w /\ k2.id = k.id
      BY <1>4, <2>2
    <3>2. Informed(k2, p, l)
      BY <2>1, <3>1 DEF Informed
    <3> QED BY <1>3, <1>6, <2>1, <2>2, <3>1, <3>2
  <2>3. CASE AskTransfer(w) /\ k2.of = w
             /\ k2.pc \in {"record", "fail"} /\ k2.id \in 1..2
    <3>1. /\ Len(transfers'[w]) = Len(l) + 1
          /\ \A i \in 1..Len(l) : transfers'[w][i] = l[i]
          /\ \A v \in Withdrawals : v # w => transfers'[v] = transfers[v]
      BY <1>0, <1>2, <2>3, AskStep
    <3>2. Len(transfers'[w]) = 2 /\ transfers'[w][1] = l[1]
      BY <2>1, <3>1
    <3>3. init[w] \notin NotAsked /\ init[w] # "record"
      BY <1>3, <2>1 DEF Consistent
    <3>4. Consistent(init[w], p, transfers'[w])
      BY <1>2, <1>3, <2>1, <3>2, <3>3 DEF Consistent
    <3>5. Informed(k2, p, transfers'[w])
      BY <2>1, <2>3, <3>2 DEF Informed
    <3> QED BY <1>6, <2>1, <2>3, <3>1, <3>4, <3>5
  <2>4. CASE AskTransfer(w) /\ callback' =
               [callback EXCEPT ![c] = [k EXCEPT !.pc = "record", !.id = Len(l) + 1]]
    <3>1. k2 = [k EXCEPT !.pc = "record", !.id = 2]
      BY <1>0, <2>1, <2>4 DEF TypeOK
    <3>2. k2.pc = "record" /\ k2.id = 2 /\ k2.of = w
      BY <1>2, <3>1 DEF Callback
    <3> QED BY <2>3, <2>4, <3>2
  <2>5. CASE AskTransfer(w) /\ Continue(c, "fail")
    <3>1. k2.pc = "fail" /\ k2.of = w /\ k2.id = k.id /\ k.id \in 1..2
      BY <1>4, <2>1, <2>5
    <3> QED BY <2>3, <2>5, <3>1
  <2> QED BY <1>12, <2>2, <2>4, <2>5 DEF RetryTransfer
<1>13. CASE RecordRetry(c)
  <2>1. /\ UNCHANGED <<init, transfers>> /\ k.pc = "record" /\ End(c)
        /\ SetRow(w, [p EXCEPT !.status = "PROCESSING", !.conversationId = k.id])
    BY <1>13 DEF RecordRetry, OnCall
  <2>2. payment'[w] = [p EXCEPT !.status = "PROCESSING", !.conversationId = k.id]
    BY <1>5, <2>1
  <2>3. payment'[w].conversationId = k.id /\ payment'[w].retryCount = p.retryCount
    BY <1>2, <2>2 DEF Payment
  <2>4. p.conversationId # NoId /\ p.retryCount > 0 /\ k.id \in 1..Len(l)
    BY <1>3, <2>1 DEF Informed
  <2>5. Consistent(init[w], payment'[w], l)
    BY <1>2, <1>3, <2>3, <2>4 DEF Consistent, NoId
  <2>6. \A v \in Withdrawals : v # w => payment'[v] = payment[v]
    BY <1>5, <2>1
  <2> QED BY <1>4, <1>6, <2>1, <2>5, <2>6
<1> QED BY <1>7, <1>8, <1>9, <1>10, <1>11, <1>12, <1>13 DEF HandleCallback

LEMMA InitInv == Init => IInv
<1> SUFFICES ASSUME Init PROVE IInv
  OBVIOUS
<1>1. TInv
  BY InitType
<1>2. ASSUME NEW w \in Withdrawals
      PROVE  Consistent(init[w], payment[w], transfers[w])
  <2>1. /\ init[w] = "idle" /\ payment[w] = Idle.row /\ transfers[w] = << >>
    BY DEF Init
  <2>2. payment[w].conversationId = NoId /\ Len(transfers[w]) = 0
    BY <2>1 DEF Idle
  <2> QED BY <2>1, <2>2 DEF Consistent, NotAsked, NoId
<1>3. ASSUME NEW c \in Callbacks
      PROVE  Informed(callback[c], payment[Of(c)], transfers[Of(c)])
  <2>1. callback[c].pc = "idle"
    BY DEF Init, Idle
  <2> QED BY <2>1 DEF Informed
<1> QED BY <1>1, <1>2, <1>3 DEF IInv

LEMMA NextInv ==
  ASSUME OneHandler
  PROVE  IInv /\ [Next]_vars => IInv'
<1> SUFFICES ASSUME IInv, [Next]_vars PROVE IInv'
  OBVIOUS
<1>1. CASE UNCHANGED vars
  <2>1. UNCHANGED <<faults, payment, transfers, init, callback, purse, withdrawn>>
    BY <1>1 DEF vars
  <2>2. TInv'
    BY <2>1 DEF IInv, TInv, TypeOK
  <2> QED BY <2>1, <2>2 DEF IInv, Of
<1> QED BY <1>1, InitiateInv, DecideInv, CallBackInv, HandleInv DEF Next

(* A second transfer follows only one that was given up.                    *)
LEMMA PaidOnceOfIInv == IInv => PaidAtMostOnce
<1> SUFFICES ASSUME IInv, NEW w \in Withdrawals
             PROVE  Cardinality(WithOutcome(w, {"paid"})) <= 1
  BY DEF PaidAtMostOnce
<1> DEFINE l == transfers[w]
           S == WithOutcome(w, {"paid"})
<1>1. Len(l) \in Nat /\ Consistent(init[w], payment[w], l)
  BY StateFacts DEF IInv
<1>2. Len(l) <= 2 /\ (Len(l) = 2 => l[1].outcome \in GivenUp)
  BY <1>1 DEF Consistent
<1>3. \A i, j \in S : i = j
  <2>1. \A i \in S : i \in 1..Len(l) /\ l[i].outcome = "paid"
    BY DEF WithOutcome
  <2>2. Len(l) = 2 => l[1].outcome # "paid"
    BY <1>2 DEF GivenUp
  <2>3. PICK n \in Nat : n = Len(l)
    BY <1>1
  <2>4. \A i \in S : i \in 1..n /\ (i = 1 => n # 2)
    BY <2>1, <2>2, <2>3
  <2>5. n <= 2
    BY <1>2, <2>3
  <2> HIDE DEF S, l
  <2> QED BY <2>4, <2>5
<1> HIDE DEF S
<1>4. CASE S = {}
  BY <1>4, FS_EmptySet DEF S
<1>5. CASE S # {}
  <2>1. PICK i \in S : TRUE
    BY <1>5
  <2>2. S = {i}
    BY <1>3, <2>1
  <2>3. Cardinality(S) = 1
    BY <2>2, FS_Singleton
  <2> QED BY <2>3 DEF S
<1> QED BY <1>4, <1>5

(* No withdrawal is paid to the phone twice: for all numbers of             *)
(* withdrawals and transfers, under every fault, when callbacks are handled *)
(* one after the other.                                                     *)
THEOREM PaidAtMostOnceHolds ==
  ASSUME OneHandler
  PROVE  Spec => []PaidAtMostOnce
<1>1. IInv /\ [Next]_vars => IInv'
  BY NextInv
<1> QED BY <1>1, InitInv, PaidOnceOfIInv, PTL DEF Spec


-----------------------------------------------------------------------------
(***************************************************************************)
(* The wallet is debited at most once for a withdrawal, and only for one   *)
(* that M-Pesa paid, for every number of withdrawals, transfers and        *)
(* callbacks and under every fault, as long as callbacks are handled one   *)
(* after the other.                                                        *)
(*                                                                         *)
(* The argument: a debited withdrawal is settled, its recorded transfer    *)
(* paid and its status final, and stays so; a result that finds it settled *)
(* ends, and a timeout of the recorded transfer can no longer come.        *)
(***************************************************************************)

Out == {"paid", "late"}

(* The row p of a withdrawal and its transfers l. *)
Settled(p, l) ==
  /\ p.status \in Final
  /\ p.conversationId \in 1..Len(l) /\ l[p.conversationId].outcome \in Out

(* What a callback handler k may do to a withdrawal that is debited or not. *)
Careful(k, p, l, debited) ==
  /\ k.pc \in {"find", "store"} /\ k.kind = "result" /\ k.paid = TRUE =>
       k.id \in 1..Len(l) /\ l[k.id].outcome \in Out
  /\ k.pc = "find" /\ k.kind = "timeout" /\ debited => k.id # p.conversationId
  /\ k.pc = "store" /\ debited => k.kind = "result" /\ k.row.status \in Final
  /\ k.pc \in {"store", "complete", "debit"} => k.id = p.conversationId
  /\ k.pc \in {"complete", "debit"} =>
       k.id \in 1..Len(l) /\ l[k.id].outcome \in Out
  /\ k.pc = "debit" => p.status \in Final
  /\ k.pc \in {"complete", "debit", "count_retry", "transfer", "record"} => ~debited

(* The withdrawals that were debited. *)
Debits(D, balance) ==
  /\ IsFiniteSet(D)
  /\ OpeningBalance - balance = Amount * Cardinality(D)

Asked == {w \in Withdrawals : Len(transfers[w]) > 0}

Books(D) ==
  /\ Debits(D, purse.balance)
  /\ \A w \in D : Settled(payment[w], transfers[w])
  /\ \A c \in Callbacks :
       Careful(callback[c], payment[Of(c)], transfers[Of(c)], Of(c) \in D)

DInv ==
  /\ IInv
  /\ IsFiniteSet(Asked)
  /\ \E D \in SUBSET Withdrawals : Books(D)

-----------------------------------------------------------------------------
(* Steps that debit nothing. *)
LEMMA BooksStep ==
  ASSUME NEW D \in SUBSET Withdrawals, Books(D),
         purse'.balance = purse.balance,
         \A w \in D : Settled(payment'[w], transfers'[w]),
         \A c \in Callbacks :
           Careful(callback'[c], payment'[callback'[c].of], transfers'[callback'[c].of],
                   callback'[c].of \in D)
  PROVE  Books(D)'
BY DEF Books, Of

LEMMA AskedStep ==
  ASSUME IsFiniteSet(Asked), NEW w \in Withdrawals,
         \A v \in Withdrawals : v # w => transfers'[v] = transfers[v]
  PROVE  IsFiniteSet(Asked)'
<1>1. Asked' \subseteq Asked \cup {w}
  BY DEF Asked
<1>2. IsFiniteSet(Asked \cup {w})
  BY FS_AddElement
<1>3. IsFiniteSet(Asked')
  BY <1>1, <1>2, FS_Subset
<1> QED BY <1>3

(* The wallet's endpoints other than the debit leave the balance. *)
LEMMA BalanceKept ==
  ASSUME TypeOK, Reserve \/ Release \/ ReleaseWalletFunds \/ UNCHANGED purse
  PROVE  purse'.balance = purse.balance
<1>1. purse \in [balance: Int, reserved: Int]
  BY DEF TypeOK
<1> DEFINE plus == purse.reserved + Amount
           minus == purse.reserved - Amount
<1>2. \/ purse' = [purse EXCEPT !.reserved = plus]
      \/ purse' = [purse EXCEPT !.reserved = minus]
      \/ purse' = purse
  BY DEF Reserve, Release, ReleaseWalletFunds
<1> HIDE DEF plus, minus
<1> QED BY <1>1, <1>2

(* A row that has its conversation id is at most marked as failed by the    *)
(* initiation, and no transfer is asked any more.                           *)
LEMMA InitiateFacts ==
  ASSUME IInv, NEW w \in Withdrawals, Initiate(w)
  PROVE  /\ purse'.balance = purse.balance /\ UNCHANGED callback
         /\ \A v \in Withdrawals : v # w => payment'[v] = payment[v]
                                            /\ transfers'[v] = transfers[v]
         /\ payment[w].conversationId # NoId =>
              /\ transfers'[w] = transfers[w]
              /\ payment'[w].conversationId = payment[w].conversationId
              /\ payment'[w] = payment[w] \/ payment'[w].status = "FAILED"
         /\ \A i \in 1..Len(transfers[w]) : i \in 1..Len(transfers'[w])
                                            /\ transfers'[w][i] = transfers[w][i]
<1>1. /\ TInv /\ TypeOK /\ payment[w] \in Payment /\ Len(transfers[w]) \in Nat
      /\ Consistent(init[w], payment[w], transfers[w])
  BY StateFacts DEF IInv
<1>2. \A p : SetRow(w, p) => /\ payment'[w] = p
                             /\ \A v \in Withdrawals : v # w => payment'[v] = payment[v]
  BY <1>1 DEF TypeOK, SetRow
<1>3. purse'.balance = purse.balance /\ UNCHANGED callback
  <2>1. Reserve \/ Release \/ ReleaseWalletFunds \/ UNCHANGED purse
    BY DEF Initiate, VerifyWithdrawalOtp, CheckDailyLimit, ReserveWalletFunds,
           CreatePayment, B2cTransfer, RecordConversation, PublishInitiated,
           ReleaseOnFailure, InitiationFails
  <2>2. UNCHANGED callback
    BY DEF Initiate, VerifyWithdrawalOtp, CheckDailyLimit, ReserveWalletFunds,
           CreatePayment, B2cTransfer, RecordConversation, PublishInitiated,
           ReleaseOnFailure, InitiationFails
  <2> QED BY <1>1, <2>1, <2>2, BalanceKept
<1>4. CASE \/ VerifyWithdrawalOtp(w) \/ CheckDailyLimit(w) \/ ReserveWalletFunds(w)
           \/ PublishInitiated(w) \/ ReleaseOnFailure(w)
  <2>1. UNCHANGED <<payment, transfers>>
    BY <1>4 DEF VerifyWithdrawalOtp, CheckDailyLimit, ReserveWalletFunds,
                PublishInitiated, ReleaseOnFailure
  <2> QED BY <1>3, <2>1
<1>5. CASE CreatePayment(w) \/ RecordConversation(w)
  <2>1. payment[w].conversationId = NoId
    BY <1>1, <1>5 DEF CreatePayment, RecordConversation, At, Consistent, NotAsked
  <2>2. UNCHANGED transfers /\ \A v \in Withdrawals : v # w => payment'[v] = payment[v]
    BY <1>2, <1>5 DEF CreatePayment, RecordConversation
  <2> QED BY <1>3, <2>1, <2>2
<1>6. CASE InitiationFails(w)
  <2>1. /\ payment'[w] = [payment[w] EXCEPT !.status = "FAILED"] /\ UNCHANGED transfers
        /\ \A v \in Withdrawals : v # w => payment'[v] = payment[v]
    BY <1>2, <1>6 DEF InitiationFails
  <2>2. /\ payment'[w].conversationId = payment[w].conversationId
        /\ payment'[w].status = "FAILED"
    BY <1>1, <2>1 DEF Payment
  <2> QED BY <1>3, <2>1, <2>2
<1>7. CASE B2cTransfer(w)
  <2>1. payment[w].conversationId = NoId /\ UNCHANGED payment
    BY <1>1, <1>7 DEF B2cTransfer, At, Consistent, NotAsked
  <2>2. AskTransfer(w) \/ UNCHANGED transfers
    BY <1>7 DEF B2cTransfer
  <2>3. CASE AskTransfer(w)
    <3>1. /\ \A v \in Withdrawals : v # w => transfers'[v] = transfers[v]
          /\ Len(transfers'[w]) = Len(transfers[w]) + 1
          /\ \A i \in 1..Len(transfers[w]) : transfers'[w][i] = transfers[w][i]
      BY <1>1, <2>3, AskStep
    <3>2. \A i \in 1..Len(transfers[w]) : i \in 1..Len(transfers'[w])
      BY <1>1, <3>1
    <3> QED BY <1>3, <2>1, <3>1, <3>2
  <2> QED BY <1>3, <2>1, <2>2, <2>3
<1> QED BY <1>4, <1>5, <1>6, <1>7 DEF Initiate

LEMMA InitiateBooks ==
  ASSUME IInv, NEW w \in Withdrawals, Initiate(w), NEW D \in SUBSET Withdrawals, Books(D)
  PROVE  Books(D)'
<1>1. /\ purse'.balance = purse.balance /\ UNCHANGED callback
      /\ \A v \in Withdrawals : v # w => payment'[v] = payment[v]
                                         /\ transfers'[v] = transfers[v]
      /\ payment[w].conversationId # NoId =>
           /\ transfers'[w] = transfers[w]
           /\ payment'[w].conversationId = payment[w].conversationId
           /\ payment'[w] = payment[w] \/ payment'[w].status = "FAILED"
      /\ \A i \in 1..Len(transfers[w]) : i \in 1..Len(transfers'[w])
                                         /\ transfers'[w][i] = transfers[w][i]
  BY InitiateFacts
<1>2. \A n \in 1..Len(transfers[w]) : n # NoId
  BY StateFacts DEF NoId
<1>3. w \in D => payment[w].conversationId # NoId
  BY <1>2 DEF Books, Settled
<1>4. ASSUME NEW v \in D PROVE Settled(payment'[v], transfers'[v])
  <2>1. Settled(payment[v], transfers[v])
    BY DEF Books
  <2> QED BY <1>1, <1>3, <2>1 DEF Settled, Final
<1>5. ASSUME NEW c \in Callbacks, Of(c) = w
      PROVE  Careful(callback[c], payment'[w], transfers'[w], w \in D)
  <2>1. /\ Careful(callback[c], payment[w], transfers[w], w \in D)
        /\ Informed(callback[c], payment[w], transfers[w])
    BY <1>5 DEF Books, IInv
  <2>2. CASE payment[w].conversationId # NoId
    BY <1>1, <2>1, <2>2 DEF Careful, Final
  <2>3. CASE payment[w].conversationId = NoId
    <3>1. w \notin D
      BY <1>3, <2>3
    <3>2. callback[c].pc \notin {"store", "complete", "debit", "count_retry", "transfer",
                                 "record"}
      BY <1>2, <2>1, <2>3 DEF Careful, Informed
    <3> QED BY <1>1, <2>1, <3>1, <3>2 DEF Careful
  <2> QED BY <2>2, <2>3
<1>6. ASSUME NEW c \in Callbacks
      PROVE  Careful(callback'[c], payment'[callback'[c].of], transfers'[callback'[c].of],
                     callback'[c].of \in D)
  <2>1. Of(c) \in Withdrawals /\ callback'[c] = callback[c] /\ Of(c) = callback[c].of
    BY <1>1, StateFacts DEF Of
  <2>2. Careful(callback[c], payment[Of(c)], transfers[Of(c)], Of(c) \in D)
    BY DEF Books
  <2> QED BY <1>1, <1>5, <2>1, <2>2
<1> QED BY <1>1, <1>4, <1>6, BooksStep

(* M-Pesa never takes a payment back, *)
LEMMA DecideBooks ==
  ASSUME IInv, NEW w \in Withdrawals, NEW i \in 1..Len(transfers[w]), Decide(w, i),
         NEW D \in SUBSET Withdrawals, Books(D)
  PROVE  Books(D)'
<1>1. /\ UNCHANGED <<payment, callback, purse>>
      /\ \A v \in Withdrawals : Len(transfers'[v]) = Len(transfers[v])
      /\ \A v \in Withdrawals : \A j \in 1..Len(transfers[v]) :
           transfers[v][j].outcome \in Out => transfers'[v][j].outcome \in Out
  <2>1. UNCHANGED <<payment, callback, purse>> /\ TInv
    BY DEF Decide, IInv
  <2> QED BY <2>1, DecideStep DEF Out
<1>2. ASSUME NEW v \in D PROVE Settled(payment'[v], transfers'[v])
  BY <1>1 DEF Books, Settled
<1>3. ASSUME NEW c \in Callbacks
      PROVE  Careful(callback'[c], payment'[callback'[c].of], transfers'[callback'[c].of],
                     callback'[c].of \in D)
  <2>1. Careful(callback[c], payment[Of(c)], transfers[Of(c)], Of(c) \in D)
        /\ Of(c) \in Withdrawals
    BY StateFacts DEF Books
  <2> QED BY <1>1, <2>1 DEF Careful, Of
<1> QED BY <1>1, <1>2, <1>3, BooksStep

(* and its callback says what became of the transfer. *)
LEMMA CallBackBooks ==
  ASSUME IInv, NEW w \in Withdrawals, NEW i \in 1..Len(transfers[w]), NEW c \in Callbacks,
         CallBack(c, w, i), NEW D \in SUBSET Withdrawals, Books(D)
  PROVE  Books(D)'
<1>1. /\ UNCHANGED <<payment, purse>>
      /\ \A v \in Withdrawals : Len(transfers'[v]) = Len(transfers[v])
      /\ \A v \in Withdrawals : \A j \in 1..Len(transfers[v]) :
           transfers'[v][j].outcome = transfers[v][j].outcome
      /\ callback'[c].pc = "find" /\ callback'[c].of = w /\ callback'[c].id = i
      /\ callback'[c].kind = "timeout" => transfers[w][i].outcome = "timeout"
  <2>1. UNCHANGED <<payment, purse>> /\ TInv
    BY DEF CallBack, IInv
  <2> QED BY <2>1, CallBackStep
<1>2. callback'[c].paid = TRUE => transfers[w][i].outcome \in Out
  <2> DEFINE kind == IF transfers[w][i].outcome = "timeout" THEN "timeout" ELSE "result"
             paid == transfers[w][i].outcome \in {"paid", "late"}
             k == [Idle EXCEPT !.pc = "find", !.of = w, !.id = i, !.kind = kind,
                               !.paid = paid]
  <2>1. callback' = [callback EXCEPT ![c] = k]
    BY DEF CallBack
  <2>2. k.paid = paid
    <3> HIDE DEF kind, paid
    <3> QED BY IdleType DEF Callback
  <2>3. callback'[c] = k
    <3> HIDE DEF k
    <3> QED BY <2>1, StateFacts DEF TypeOK
  <2> HIDE DEF k
  <2> QED BY <2>2, <2>3 DEF Out
<1>3. \A d \in Callbacks : d # c => callback'[d] = callback[d]
  BY StateFacts DEF CallBack, TypeOK
<1>4. ASSUME NEW v \in D PROVE Settled(payment'[v], transfers'[v])
  BY <1>1 DEF Books, Settled
<1>5. Careful(callback'[c], payment'[w], transfers'[w], w \in D)
  <2>1. w \in D /\ callback'[c].kind = "timeout" => i # payment[w].conversationId
    BY <1>1 DEF Books, Settled, Out
  <2> QED BY <1>1, <1>2, <2>1 DEF Careful
<1>6. ASSUME NEW d \in Callbacks
      PROVE  Careful(callback'[d], payment'[callback'[d].of], transfers'[callback'[d].of],
                     callback'[d].of \in D)
  <2>1. CASE d = c
    BY <1>1, <1>5, <2>1
  <2>2. CASE d # c
    <3>1. Careful(callback[d], payment[Of(d)], transfers[Of(d)], Of(d) \in D)
          /\ Of(d) \in Withdrawals
      BY StateFacts DEF Books
    <3>2. Careful(callback[d], payment'[Of(d)], transfers'[Of(d)], Of(d) \in D)
      BY <1>1, <3>1 DEF Careful
    <3>3. callback'[d] = callback[d] /\ Of(d) = callback[d].of
      BY <1>3, <2>2 DEF Of
    <3> QED BY <3>2, <3>3
  <2> QED BY <2>1, <2>2
<1> QED BY <1>1, <1>4, <1>6, BooksStep

(* The only handler debits what is not debited and what it has seen paid. *)
LEMMA HandleBooks ==
  ASSUME OneHandler, IInv, NEW c \in Callbacks, HandleCallback(c),
         NEW D \in SUBSET Withdrawals, Books(D)
  PROVE  \E E \in SUBSET Withdrawals : Books(E)'
<1> DEFINE w == Of(c)
           k == callback[c]
           p == payment[w]
           l == transfers[w]
           k2 == callback'[c]
<1>0. TInv /\ TypeOK
  BY DEF IInv, TInv
<1>1. /\ w \in Withdrawals /\ k \in Callback /\ p \in Payment /\ k.of = w
      /\ k.kind \in {"result", "timeout"} /\ k.paid \in BOOLEAN /\ Len(l) \in Nat
  BY StateFacts DEF Of, Callback
<1>2. /\ Careful(k, p, l, w \in D) /\ Informed(k, p, l) /\ \A d \in Callbacks : d = c
      /\ w \in D => Settled(p, l)
  BY <1>1 DEF IInv, OneHandler, Books
<1>3. /\ \A pc : Continue(c, pc) => /\ k2.pc = pc /\ k2.of = w /\ k2.id = k.id
                                    /\ k2.kind = k.kind /\ k2.row = k.row
      /\ End(c) => k2.pc = "idle" /\ k2.of \in Withdrawals
  <2>1. End(c) => k2 = Idle /\ Idle.pc = "idle" /\ Idle.of \in Withdrawals
    BY <1>0, IdleType DEF TypeOK, End, Idle, Callback
  <2> QED BY <1>0, <1>1, <2>1 DEF TypeOK, Continue, Callback
<1>4. \A r : SetRow(w, r) => /\ payment'[w] = r
                             /\ \A v \in Withdrawals : v # w => payment'[v] = payment[v]
  BY <1>0, <1>1 DEF TypeOK, SetRow
<1>5. ASSUME purse'.balance = purse.balance,
             \A v \in Withdrawals : v # w => payment'[v] = payment[v]
                                             /\ transfers'[v] = transfers[v],
             w \in D => Settled(payment'[w], transfers'[w]),
             \/ k2.pc = "idle"
             \/ k2.of = w /\ Careful(k2, payment'[w], transfers'[w], w \in D)
      PROVE  Books(D)'
  <2>1. \A v \in D : Settled(payment'[v], transfers'[v])
    BY <1>5 DEF Books
  <2>2. Careful(k2, payment'[k2.of], transfers'[k2.of], k2.of \in D)
    BY <1>5 DEF Careful
  <2> QED BY <1>2, <1>5, <2>1, <2>2, BooksStep
<1>6. CASE \/ IncrementDailyLimit(c) \/ PublishOutcome(c) \/ ReleaseAfterFailure(c)
  <2>1. /\ UNCHANGED <<payment, transfers>>
        /\ End(c) \/ Continue(c, "publish")
        /\ ReleaseWalletFunds \/ UNCHANGED purse
    BY <1>6 DEF IncrementDailyLimit, PublishOutcome, ReleaseAfterFailure
  <2>2. k2.pc = "idle" \/ (k2.pc = "publish" /\ k2.of = w)
    BY <1>3, <2>1
  <2>3. k2.pc = "idle" \/ (k2.of = w /\ Careful(k2, p, l, w \in D))
    BY <2>2 DEF Careful
  <2>4. purse'.balance = purse.balance
    BY <1>0, <2>1, BalanceKept
  <2> QED BY <1>2, <1>5, <2>1, <2>3, <2>4
<1>7. CASE FindPayment(c)
  <2>1. UNCHANGED <<payment, transfers, purse>> /\ k.pc = "find"
    BY <1>7 DEF FindPayment, OnCall
  <2>2. CASE End(c)
    BY <1>2, <1>3, <1>5, <2>1, <2>2
  <2>3. CASE /\ p.conversationId = k.id
             /\ callback' = [callback EXCEPT ![c] = [k EXCEPT !.pc = "store", !.row = p]]
    <3>1. k2 = [k EXCEPT !.pc = "store", !.row = p]
      BY <1>0, <2>3 DEF TypeOK
    <3>2. /\ k2.pc = "store" /\ k2.of = w /\ k2.id = k.id
          /\ k2.kind = k.kind /\ k2.paid = k.paid /\ k2.row = p
      BY <1>1, <3>1 DEF Callback
    <3>3. w \in D => k.kind = "result" /\ p.status \in Final
      BY <1>1, <1>2, <2>1, <2>3 DEF Careful, Settled
    <3>4. Careful(k2, p, l, w \in D)
      BY <1>2, <2>1, <2>3, <3>2, <3>3 DEF Careful
    <3> QED BY <1>2, <1>5, <2>1, <3>2, <3>4
  <2> QED BY <1>7, <2>2, <2>3 DEF FindPayment
<1>8. CASE StoreCallback(c)
  <2>1. UNCHANGED <<payment, transfers, purse>> /\ k.pc = "store"
    BY <1>8 DEF StoreCallback, OnCall
  <2>2. CASE End(c)
    BY <1>2, <1>3, <1>5, <2>1, <2>2
  <2>3. CASE Continue(c, "fail")
    <3>1. k2.pc = "fail" /\ k2.of = w
      BY <1>3, <2>3
    <3>2. Careful(k2, p, l, w \in D)
      BY <3>1 DEF Careful
    <3> QED BY <1>2, <1>5, <2>1, <3>1, <3>2
  <2>4. CASE k.kind = "timeout" /\ Continue(c, "count_retry")
    <3>1. k2.pc = "count_retry" /\ k2.of = w
      BY <1>3, <2>4
    <3>2. w \notin D
      BY <1>2, <2>1, <2>4 DEF Careful
    <3>3. Careful(k2, p, l, w \in D)
      BY <3>1, <3>2 DEF Careful
    <3> QED BY <1>2, <1>5, <2>1, <3>1, <3>3
  <2>5. CASE /\ k.kind = "result" /\ k.paid = TRUE /\ ~AlreadyProcessed(c)
             /\ Continue(c, "complete")
    <3>1. k2.pc = "complete" /\ k2.of = w /\ k2.id = k.id
      BY <1>3, <2>5
    <3>2. w \notin D
      BY <1>2, <2>1, <2>5 DEF Careful, AlreadyProcessed
    <3>3. Careful(k2, p, l, w \in D)
      BY <1>2, <2>1, <2>5, <3>1, <3>2 DEF Careful
    <3> QED BY <1>2, <1>5, <2>1, <3>1, <3>3
  <2> QED BY <1>1, <1>8, <2>2, <2>3, <2>4, <2>5 DEF StoreCallback
<1>9. CASE Complete(c)
  <2>1. /\ UNCHANGED <<transfers, purse>> /\ k.pc = "complete" /\ Continue(c, "debit")
        /\ SetRow(w, [p EXCEPT !.status = "COMPLETED"])
    BY <1>9 DEF Complete, OnCall
  <2>2. k2.pc = "debit" /\ k2.of = w /\ k2.id = k.id
    BY <1>3, <2>1
  <2>3. payment'[w] = [p EXCEPT !.status = "COMPLETED"]
    BY <1>4, <2>1
  <2>4. payment'[w].conversationId = p.conversationId /\ payment'[w].status = "COMPLETED"
    BY <1>1, <2>3 DEF Payment
  <2>5. w \notin D
    BY <1>2, <2>1 DEF Careful
  <2>6. Careful(k2, payment'[w], l, w \in D)
    BY <1>2, <2>1, <2>2, <2>4, <2>5 DEF Careful, Final
  <2>7. \A v \in Withdrawals : v # w => payment'[v] = payment[v]
    BY <1>4, <2>1
  <2> QED BY <1>5, <2>1, <2>2, <2>5, <2>6, <2>7
<1>10. CASE Fail(c)
  <2>1. /\ UNCHANGED <<transfers, purse>> /\ Continue(c, "release")
        /\ SetRow(w, [p EXCEPT !.status = "FAILED"])
    BY <1>10 DEF Fail
  <2>2. k2.pc = "release" /\ k2.of = w
    BY <1>3, <2>1
  <2>3. payment'[w] = [p EXCEPT !.status = "FAILED"]
    BY <1>4, <2>1
  <2>4. payment'[w].conversationId = p.conversationId /\ payment'[w].status = "FAILED"
    BY <1>1, <2>3 DEF Payment
  <2>5. w \in D => Settled(payment'[w], l)
    BY <1>2, <2>4 DEF Settled, Final
  <2>6. Careful(k2, payment'[w], l, w \in D)
    BY <2>2 DEF Careful
  <2>7. \A v \in Withdrawals : v # w => payment'[v] = payment[v]
    BY <1>4, <2>1
  <2> QED BY <1>5, <2>1, <2>2, <2>5, <2>6, <2>7
<1>11. CASE CountRetry(c)
  <2>1. /\ UNCHANGED <<transfers, purse>> /\ Continue(c, "transfer") /\ k.pc = "count_retry"
        /\ \A v \in Withdrawals : v # w => payment'[v] = payment[v]
    BY <1>4, <1>11 DEF CountRetry, OnCall
  <2>2. k2.pc = "transfer" /\ k2.of = w
    BY <1>3, <2>1
  <2>3. w \notin D
    BY <1>2, <2>1 DEF Careful
  <2>4. Careful(k2, payment'[w], l, w \in D)
    BY <2>2, <2>3 DEF Careful
  <2> QED BY <1>5, <2>1, <2>2, <2>3, <2>4
<1>12. CASE RetryTransfer(c)
  <2>1. UNCHANGED <<payment, purse>> /\ k.pc = "transfer"
    BY <1>12 DEF RetryTransfer, OnCall
  <2>2. w \notin D
    BY <1>2, <2>1 DEF Careful
  <2>3. \A v \in Withdrawals : v # w => transfers'[v] = transfers[v]
    BY <1>0, <1>1, <1>12, AskStep DEF RetryTransfer
  <2>4. k2.pc \in {"record", "fail"} /\ k2.of = w
    <3> DEFINE n == Len(l) + 1
    <3>1. CASE callback' = [callback EXCEPT ![c] = [k EXCEPT !.pc = "record", !.id = n]]
      <4> HIDE DEF n
      <4>1. k2 = [k EXCEPT !.pc = "record", !.id = n]
        BY <1>0, <3>1 DEF TypeOK
      <4> QED BY <1>1, <4>1 DEF Callback
    <3> QED BY <1>3, <1>12, <3>1 DEF RetryTransfer
  <2>5. Careful(k2, p, transfers'[w], w \in D)
    BY <2>2, <2>4 DEF Careful
  <2> QED BY <1>5, <2>1, <2>2, <2>3, <2>4, <2>5
<1>13. CASE RecordRetry(c)
  <2>1. /\ UNCHANGED <<transfers, purse>> /\ k.pc = "record" /\ End(c)
        /\ \A v \in Withdrawals : v # w => payment'[v] = payment[v]
    BY <1>4, <1>13 DEF RecordRetry, OnCall
  <2>2. w \notin D
    BY <1>2, <2>1 DEF Careful
  <2> QED BY <1>3, <1>5, <2>1, <2>2
<1>14. CASE DebitWalletFunds(c)
  <2>1. UNCHANGED <<payment, transfers>> /\ k.pc = "debit"
    BY <1>14 DEF DebitWalletFunds, OnCall
  <2>2. CASE End(c) /\ UNCHANGED purse
    BY <1>2, <1>3, <1>5, <2>1, <2>2
  <2>3. CASE Debit /\ Continue(c, "count")
    <3>0. PICK E \in SUBSET Withdrawals : E = D \cup {w}
      BY <1>1
    <3> DEFINE less == purse.balance - Amount
    <3>1. w \notin D /\ Settled(p, l)
      BY <1>2, <2>1 DEF Careful, Settled
    <3>2. purse'.balance = less
      <4>1. purse \in [balance: Int, reserved: Int] /\ purse' = [purse EXCEPT !.balance = less]
        BY <1>0, <2>3 DEF TypeOK, Debit
      <4> HIDE DEF less
      <4> QED BY <4>1
    <3>3. /\ IsFiniteSet(E) /\ Cardinality(E) = Cardinality(D) + 1
          /\ Cardinality(D) \in Nat
      BY <3>0, <3>1, FS_AddElement, FS_CardinalityType DEF Books, Debits
    <3>4. Debits(E, purse'.balance)
      <4>1. \A n \in Nat : Amount * (n + 1) = Amount * n + Amount
        BY WithdrawalAssumption
      <4>2. /\ purse.balance \in Int /\ OpeningBalance \in Int /\ Amount \in Int
            /\ OpeningBalance - purse.balance = Amount * Cardinality(D)
        BY <1>0, WithdrawalAssumption DEF TypeOK, Books, Debits
      <4>3. Amount * Cardinality(E) = Amount * Cardinality(D) + Amount
        BY <3>3, <4>1
      <4>4. OpeningBalance - less = (OpeningBalance - purse.balance) + Amount
        BY <4>2
      <4>5. OpeningBalance - less = Amount * Cardinality(E)
        BY <4>2, <4>3, <4>4
      <4> HIDE DEF less
      <4> QED BY <3>2, <3>3, <4>5 DEF Debits
    <3>5. \A v \in E : Settled(payment'[v], transfers'[v])
      BY <2>1, <3>0, <3>1 DEF Books
    <3>6. k2.pc = "count" /\ k2.of = w
      BY <1>3, <2>3
    <3>7. \A d \in Callbacks :
            Careful(callback'[d], payment'[Of(d)'], transfers'[Of(d)'], Of(d)' \in E)
      BY <1>2, <3>6 DEF Careful, Of
    <3>8. Books(E)'
      BY <3>4, <3>5, <3>7 DEF Books
    <3> QED BY <3>8
  <2> QED BY <1>14, <2>2, <2>3 DEF DebitWalletFunds
<1> QED BY <1>6, <1>7, <1>8, <1>9, <1>10, <1>11, <1>12, <1>13, <1>14 DEF HandleCallback

LEMMA InitDebits == Init => DInv
<1> SUFFICES ASSUME Init PROVE DInv
  OBVIOUS
<1>1. IInv
  BY InitInv
<1>2. IsFiniteSet(Asked)
  <2>1. \A w \in Withdrawals : Len(transfers[w]) = 0
    BY DEF Init
  <2>2. Asked = {}
    BY <2>1 DEF Asked
  <2> QED BY <2>2, FS_EmptySet
<1>3. Books({})
  <2>1. IsFiniteSet({}) /\ Cardinality({}) = 0
    BY FS_EmptySet
  <2>2. \A c \in Callbacks : callback[c].pc = "idle" /\ Of(c) \notin {}
    BY DEF Init, Idle
  <2>3. OpeningBalance - purse.balance = Amount * 0
    BY WithdrawalAssumption DEF Init
  <2> QED BY <2>1, <2>2, <2>3 DEF Books, Debits, Careful
<1> QED BY <1>1, <1>2, <1>3 DEF DInv

LEMMA NextDebits ==
  ASSUME OneHandler
  PROVE  DInv /\ [Next]_vars => DInv'
<1> SUFFICES ASSUME DInv, [Next]_vars PROVE DInv'
  OBVIOUS
<1>1. IInv /\ IInv'
  BY NextInv DEF DInv
<1>2. PICK D \in SUBSET Withdrawals : Books(D)
  BY DEF DInv
<1>3. IsFiniteSet(Asked)'
  <2>1. CASE UNCHANGED transfers
    BY <2>1 DEF DInv, Asked
  <2>2. ASSUME NEW w \in Withdrawals, Initiate(w) PROVE IsFiniteSet(Asked)'
    BY <1>1, <2>2, InitiateFacts, AskedStep DEF DInv
  <2>3. ASSUME NEW w \in Withdrawals, NEW i \in 1..Len(transfers[w]), Decide(w, i)
        PROVE  IsFiniteSet(Asked)'
    BY <1>1, <2>3, DecideStep, AskedStep DEF DInv, IInv
  <2>4. ASSUME NEW w \in Withdrawals, NEW i \in 1..Len(transfers[w]), NEW c \in Callbacks,
               CallBack(c, w, i)
        PROVE  IsFiniteSet(Asked)'
    <3>1. \A v \in Withdrawals : Len(transfers'[v]) = Len(transfers[v])
      BY <1>1, <2>4, CallBackStep DEF IInv
    <3>2. Asked' = Asked
      BY <3>1 DEF Asked
    <3> QED BY <3>2 DEF DInv
  <2>5. ASSUME NEW c \in Callbacks, RetryTransfer(c) PROVE IsFiniteSet(Asked)'
    <3>1. Of(c) \in Withdrawals /\ TInv
      BY <1>1, StateFacts DEF IInv
    <3>2. \A v \in Withdrawals : v # Of(c) => transfers'[v] = transfers[v]
      BY <2>5, <3>1, AskStep DEF RetryTransfer
    <3> QED BY <3>1, <3>2, AskedStep DEF DInv
  <2> QED BY <2>1, <2>2, <2>3, <2>4, <2>5
          DEF Next, HandleCallback, FindPayment, StoreCallback, Complete, DebitWalletFunds,
              IncrementDailyLimit, PublishOutcome, Fail, ReleaseAfterFailure, CountRetry,
              RecordRetry, vars
<1>4. \E E \in SUBSET Withdrawals : Books(E)'
  <2>1. CASE UNCHANGED vars
    <3>1. Books(D)'
      BY <1>2, <2>1 DEF Books, vars, Of
    <3> QED BY <3>1
  <2> QED BY <1>1, <1>2, <2>1, InitiateBooks, DecideBooks, CallBackBooks, HandleBooks
          DEF Next
<1> QED BY <1>1, <1>3, <1>4 DEF DInv

LEMMA DebitOnlyPaidOfDInv == DInv => DebitOnlyPaid
<1> SUFFICES ASSUME DInv PROVE DebitOnlyPaid
  OBVIOUS
<1> DEFINE P == {w \in Withdrawals : Paid(w) # {}}
<1>1. PICK D \in SUBSET Withdrawals : Books(D)
  BY DEF DInv
<1>2. D \subseteq P
  BY <1>1 DEF Books, Settled, Paid, WithOutcome, Out
<1>3. P \subseteq Asked
  <2> SUFFICES ASSUME NEW w \in Withdrawals, Paid(w) # {} PROVE w \in Asked
    OBVIOUS
  <2>1. Len(transfers[w]) \in Nat
    BY StateFacts DEF DInv
  <2>2. 1..Len(transfers[w]) # {}
    BY DEF Paid, WithOutcome
  <2> QED BY <2>1, <2>2 DEF Asked
<1>4. IsFiniteSet(P)
  BY <1>3, FS_Subset DEF DInv
<1> HIDE DEF P
<1>5. /\ Cardinality(D) \in Nat /\ Cardinality(P) \in Nat
      /\ Cardinality(D) <= Cardinality(P)
  BY <1>1, <1>2, <1>4, FS_Subset, FS_CardinalityType
<1>6. \A i, j \in Nat : i <= j => Amount * i <= Amount * j
  BY WithdrawalAssumption
<1>7. Amount * Cardinality(D) <= Amount * Cardinality(P)
  BY <1>5, <1>6
<1>8. OpeningBalance - purse.balance = Amount * Cardinality(D)
  BY <1>1 DEF Books, Debits
<1> QED BY <1>7, <1>8 DEF DebitOnlyPaid, P

(* The phone is paid once at most and the wallet debited once at most, and  *)
(* only for what was paid: for all numbers of withdrawals and transfers,    *)
(* under every fault, when callbacks are handled one after the other.       *)
THEOREM PaidAndDebitedOnceHolds ==
  ASSUME OneHandler
  PROVE  Spec => []PaidAndDebitedOnce
<1>1. DInv /\ [Next]_vars => DInv'
  BY NextDebits
<1>2. DInv => PaidAndDebitedOnce
  BY DebitOnlyPaidOfDInv, PaidOnceOfIInv DEF DInv, PaidAndDebitedOnce
<1> QED BY <1>1, <1>2, InitDebits, PTL DEF Spec

-----------------------------------------------------------------------------
(* Reservations.  Money that M-Pesa may still pay out stays reserved: for   *)
(* every number of withdrawals, transfers and callbacks that are handled at *)
(* the same time.                                                           *)
(*                                                                          *)
(* The argument: a withdrawal keeps its reservation as long as one of its   *)
(* transfers is open, that is pending or failed with a callback to come.    *)
(* At most one is; its callback closes it and passes the reservation to one *)
(* handler, which gives it to the transfer that it asks or releases it.     *)

Failing(k) ==
  \/ k.pc \in {"count_retry", "transfer", "fail", "release"}
  \/ k.pc \in {"find", "store"} /\ (k.kind = "timeout" \/ k.paid = FALSE)

Open(t)   == t.outcome = "pending" \/ (t.outcome \in {"timeout", "refused"} /\ t.sent = 0)
Closed(l) == \A i \in 1..Len(l) : ~Open(l[i])

(* An initiation at pc, the transfers l, and whether a reservation is held. *)
Owed(pc, l, held) ==
  /\ pc \in {"idle", "limit", "reserve"} => ~held
  /\ pc \in {"create", "transfer", "release"} => held
  /\ pc \in NotAsked \cup {"release"} => Len(l) = 0
  /\ \A i \in 1..Len(l) : Open(l[i]) => held
  /\ \A i, j \in 1..Len(l) : Open(l[i]) /\ Open(l[j]) => i = j

(* The handler c has taken over the reservation of its withdrawal. *)
TakenOver(c, R) ==
  /\ Of(c) \in R /\ Closed(transfers[Of(c)])
  /\ \A d \in Callbacks : Failing(callback[d]) /\ Of(d) = Of(c) => d = c

(* R: the withdrawals whose reservation is held. *)
Reservations(R) ==
  /\ IsFiniteSet(R) /\ purse.reserved = Amount * Cardinality(R)
  /\ \A w \in Withdrawals : Owed(init[w], transfers[w], w \in R)
  /\ \A c \in Callbacks : Failing(callback[c]) => TakenOver(c, R)

Calm  == faults \cap {"lost", "publish", "duplicate"} = {}
Named == \A c \in Callbacks : callback[c].pc # "idle" => Len(transfers[Of(c)]) > 0

RInv == TInv /\ Named /\ (Calm => \E R \in SUBSET Withdrawals : Reservations(R))

-----------------------------------------------------------------------------
LEMMA RowFacts ==
  ASSUME TInv
  PROVE  /\ TypeOK /\ purse.reserved \in Int
         /\ \A w \in Withdrawals : transfers[w] \in Seq(Transfer) /\ Len(transfers[w]) \in Nat
         /\ \A w \in Withdrawals : \A i \in 1..Len(transfers[w]) : transfers[w][i] \in Transfer
         /\ \A c \in Callbacks :
              /\ Of(c) \in Withdrawals /\ callback[c] \in Callback /\ callback[c].of = Of(c)
              /\ callback[c].kind \in {"result", "timeout"} /\ callback[c].paid \in BOOLEAN
<1>1. TypeOK
  BY DEF TInv
<1>2. \A w \in Withdrawals : transfers[w] \in Seq(Transfer)
  BY <1>1 DEF TypeOK
<1>3. \A c \in Callbacks : Of(c) \in Withdrawals /\ callback[c] \in Callback
  BY <1>1, CallbackFields
<1>4. purse.reserved \in Int
  BY <1>1 DEF TypeOK
<1> QED BY <1>1, <1>2, <1>3, <1>4 DEF Callback, Of

(* What a handler's step leaves alone, and what its record becomes. *)
LEMMA HandleStep ==
  ASSUME TInv, NEW c \in Callbacks, HandleCallback(c)
  PROVE  /\ UNCHANGED <<faults, init>> /\ callback[c].pc # "idle"
         /\ \A d \in Callbacks : d # c => callback'[d] = callback[d]
         /\ \A v \in Withdrawals : v # Of(c) => transfers'[v] = transfers[v]
         /\ \/ callback'[c].pc = "idle"
            \/ callback'[c].of = Of(c) /\ callback'[c].kind = callback[c].kind
               /\ callback'[c].paid = callback[c].paid
<1> DEFINE k == callback[c]
           k2 == callback'[c]
<1>1. TypeOK /\ Of(c) \in Withdrawals /\ k \in Callback /\ k.of = Of(c)
  BY RowFacts
<1>2. UNCHANGED <<faults, init>> /\ k.pc # "idle"
  BY DEF HandleCallback, FindPayment, StoreCallback, Complete, DebitWalletFunds,
         IncrementDailyLimit, PublishOutcome, Fail, ReleaseAfterFailure, CountRetry,
         RetryTransfer, RecordRetry, OnCall
<1>3. \A v \in Withdrawals : v # Of(c) => transfers'[v] = transfers[v]
  <2>1. AskTransfer(Of(c)) \/ UNCHANGED transfers
    BY DEF HandleCallback, FindPayment, StoreCallback, Complete, DebitWalletFunds,
           IncrementDailyLimit, PublishOutcome, Fail, ReleaseAfterFailure, CountRetry,
           RetryTransfer, RecordRetry
  <2> QED BY <1>1, <2>1, AskStep
<1>4. \/ End(c)
      \/ \E pc \in CallPC : Continue(c, pc)
      \/ callback' = [callback EXCEPT ![c] = [k EXCEPT !.pc = "store", !.row = payment[Of(c)]]]
      \/ callback' = [callback EXCEPT ![c] =
                        [k EXCEPT !.pc = "record", !.id = Len(transfers[Of(c)]) + 1]]
  BY DEF HandleCallback, FindPayment, StoreCallback, Complete, DebitWalletFunds,
         IncrementDailyLimit, PublishOutcome, Fail, ReleaseAfterFailure, CountRetry,
         RetryTransfer, RecordRetry, CallPC
<1>5. PICK x : callback' = [callback EXCEPT ![c] = x]
  BY <1>4 DEF End, Continue
<1>6. \A d \in Callbacks : d # c => callback'[d] = callback[d]
  BY <1>1, <1>5 DEF TypeOK
<1>7. \/ k2.pc = "idle"
      \/ k2.of = Of(c) /\ k2.kind = k.kind /\ k2.paid = k.paid
  <2>1. CASE End(c)
    <3>1. k2 = Idle /\ Idle.pc = "idle"
      BY <1>1, <2>1 DEF End, TypeOK, Idle
    <3> QED BY <3>1
  <2>2. ASSUME NEW pc \in CallPC, Continue(c, pc)
        PROVE  k2.of = Of(c) /\ k2.kind = k.kind /\ k2.paid = k.paid
    BY <1>1, <2>2 DEF Continue, TypeOK, Callback
  <2>3. CASE callback' =
               [callback EXCEPT ![c] = [k EXCEPT !.pc = "store", !.row = payment[Of(c)]]]
    <3>1. k2 = [k EXCEPT !.pc = "store", !.row = payment[Of(c)]]
      BY <1>1, <2>3 DEF TypeOK
    <3> QED BY <1>1, <3>1 DEF Callback
  <2>4. CASE callback' = [callback EXCEPT ![c] =
                            [k EXCEPT !.pc = "record", !.id = Len(transfers[Of(c)]) + 1]]
    <3> DEFINE n == Len(transfers[Of(c)]) + 1
    <3> HIDE DEF n
    <3>1. k2 = [k EXCEPT !.pc = "record", !.id = n]
      BY <1>1, <2>4 DEF TypeOK, n
    <3> QED BY <1>1, <3>1 DEF Callback
  <2> QED BY <1>4, <2>1, <2>2, <2>3, <2>4
<1> QED BY <1>2, <1>3, <1>6, <1>7

(* A callback says what became of its transfer. *)
LEMMA CallBackSays ==
  ASSUME TInv, NEW w \in Withdrawals, NEW i \in 1..Len(transfers[w]), NEW c \in Callbacks,
         CallBack(c, w, i)
  PROVE  /\ callback[c].pc = "idle" /\ transfers[w][i].outcome # "pending"
         /\ callback'[c].kind = "timeout" <=> transfers[w][i].outcome = "timeout"
         /\ callback'[c].kind \in {"result", "timeout"}
         /\ callback'[c].paid = (transfers[w][i].outcome \in Out)
         /\ \A d \in Callbacks : d # c => callback'[d] = callback[d]
         /\ transfers'[w][i].sent = transfers[w][i].sent + 1
         /\ \A j \in 1..Len(transfers[w]) : j # i => transfers'[w][j] = transfers[w][j]
         /\ \A v \in Withdrawals : v # w => transfers'[v] = transfers[v]
         /\ transfers[w][i].sent = 0 \/ "duplicate" \in faults \/ transfers[w][i].outcome = "late"
<1> DEFINE t == transfers[w][i]
           n == t.sent + 1
           kind == IF t.outcome = "timeout" THEN "timeout" ELSE "result"
           paid == t.outcome \in {"paid", "late"}
           k == [Idle EXCEPT !.pc = "find", !.of = w, !.id = i, !.kind = kind, !.paid = paid]
           t2 == [t EXCEPT !.sent = n]
<1>1. /\ TypeOK /\ t \in Transfer /\ MaxCallbacks \in Nat
  BY RowFacts, WithdrawalAssumption
<1>2. n \in 0..MaxCallbacks
  BY <1>1 DEF CallBack, Transfer
<1>3. t2 \in Transfer /\ t2.sent = n
  <2> HIDE DEF n
  <2> QED BY <1>1, <1>2 DEF Transfer
<1>4. k.kind = kind /\ k.paid = paid
  <2> HIDE DEF kind, paid
  <2> QED BY IdleType DEF Callback
<1>5. SetTransfer(w, i, t2) /\ callback' = [callback EXCEPT ![c] = k]
  BY DEF CallBack
<1> HIDE DEF t2, k
<1>6. /\ \A v \in Withdrawals : v # w => transfers'[v] = transfers[v]
      /\ transfers'[w][i] = t2
      /\ \A j \in 1..Len(transfers[w]) : j # i => transfers'[w][j] = transfers[w][j]
  BY <1>3, <1>5, SetTransferStep
<1>7. callback'[c] = k /\ \A d \in Callbacks : d # c => callback'[d] = callback[d]
  BY <1>1, <1>5 DEF TypeOK
<1> QED BY <1>3, <1>4, <1>6, <1>7 DEF CallBack, Out

(* Every handler that runs has a transfer to run for. *)
LEMMA NamedStep ==
  ASSUME TInv, Named, [Next]_vars
  PROVE  Named'
<1>1. \A v \in Withdrawals : Len(transfers[v]) \in Nat
  BY RowFacts
<1>2. CASE UNCHANGED vars
  BY <1>2 DEF vars, Named, Of
<1>3. ASSUME NEW w \in Withdrawals, Initiate(w) PROVE Named'
  <2>1. UNCHANGED callback /\ (AskTransfer(w) \/ UNCHANGED transfers)
    BY <1>3 DEF Initiate, VerifyWithdrawalOtp, CheckDailyLimit, ReserveWalletFunds,
         CreatePayment, B2cTransfer, RecordConversation, PublishInitiated,
         ReleaseOnFailure, InitiationFails
  <2>2. \A v \in Withdrawals : Len(transfers[v]) > 0 => Len(transfers'[v]) > 0
    BY <1>1, <2>1, AskStep
  <2> QED BY <2>1, <2>2, RowFacts DEF Named, Of
<1>4. ASSUME NEW w \in Withdrawals, NEW i \in 1..Len(transfers[w]), Decide(w, i)
      PROVE  Named'
  <2>1. UNCHANGED callback /\ \A v \in Withdrawals : Len(transfers'[v]) = Len(transfers[v])
    BY <1>4, DecideStep DEF Decide
  <2> QED BY <2>1, RowFacts DEF Named, Of
<1>5. ASSUME NEW w \in Withdrawals, NEW i \in 1..Len(transfers[w]), NEW c \in Callbacks,
             CallBack(c, w, i)
      PROVE  Named'
  <2>1. /\ callback'[c].of = w
        /\ \A v \in Withdrawals : Len(transfers'[v]) = Len(transfers[v])
    BY <1>5, CallBackStep
  <2>2. \A d \in Callbacks : d # c => callback'[d] = callback[d]
    BY <1>5, CallBackSays
  <2>3. Len(transfers[w]) > 0
    BY <1>1
  <2> QED BY <2>1, <2>2, <2>3, RowFacts DEF Named, Of
<1>6. ASSUME NEW c \in Callbacks, HandleCallback(c) PROVE Named'
  <2>1. /\ callback[c].pc # "idle"
        /\ \A d \in Callbacks : d # c => callback'[d] = callback[d]
        /\ callback'[c].pc = "idle" \/ callback'[c].of = Of(c)
    BY <1>6, HandleStep
  <2>2. AskTransfer(Of(c)) \/ UNCHANGED transfers
    BY <1>6 DEF HandleCallback, FindPayment, StoreCallback, Complete, DebitWalletFunds,
           IncrementDailyLimit, PublishOutcome, Fail, ReleaseAfterFailure, CountRetry,
           RetryTransfer, RecordRetry
  <2>3. \A v \in Withdrawals : Len(transfers[v]) > 0 => Len(transfers'[v]) > 0
    <3>1. PICK w \in Withdrawals : w = Of(c)
      BY RowFacts
    <3>2. AskTransfer(w) \/ UNCHANGED transfers
      BY <2>2, <3>1
    <3>3. CASE AskTransfer(w)
      BY <1>1, <3>3, AskStep
    <3> QED BY <3>2, <3>3
  <2> QED BY <2>1, <2>3, RowFacts DEF Named, Of
<1> QED BY <1>2, <1>3, <1>4, <1>5, <1>6 DEF Next

(* A new transfer is open, the others are what they were. *)
LEMMA AskOpens ==
  ASSUME TInv, NEW w \in Withdrawals, AskTransfer(w), Closed(transfers[w])
  PROVE  /\ Len(transfers'[w]) > 0
         /\ \A i, j \in 1..Len(transfers'[w]) :
              Open(transfers'[w][i]) /\ Open(transfers'[w][j]) => i = j
         /\ \A v \in Withdrawals : v # w => transfers'[v] = transfers[v]
<1>1. PICK n \in Nat : n = Len(transfers[w])
  BY RowFacts
<1>2. /\ \A v \in Withdrawals : v # w => transfers'[v] = transfers[v]
      /\ Len(transfers'[w]) = n + 1
      /\ \A i \in 1..n : transfers'[w][i] = transfers[w][i]
  BY <1>1, AskStep
<1>3. \A i \in 1..n : ~Open(transfers'[w][i])
  BY <1>1, <1>2 DEF Closed
<1> QED BY <1>2, <1>3

(* M-Pesa's decision opens no transfer. *)
LEMMA DecideOpens ==
  ASSUME TInv, NEW w \in Withdrawals, NEW i \in 1..Len(transfers[w]), Decide(w, i)
  PROVE  \A v \in Withdrawals : \A j \in 1..Len(transfers[v]) :
           Open(transfers'[v][j]) => Open(transfers[v][j])
<1>1. /\ \A v \in Withdrawals : v # w => transfers'[v] = transfers[v]
      /\ \A j \in 1..Len(transfers[w]) : j # i => transfers'[w][j] = transfers[w][j]
      /\ transfers[w][i].outcome \in {"pending", "timeout"}
      /\ transfers[w][i].outcome \in GivenUp => transfers'[w][i].outcome \in GivenUp
  BY DecideStep
<1>2. CASE transfers[w][i].outcome = "pending"
  BY <1>1, <1>2 DEF Open
<1>3. CASE transfers[w][i].outcome = "timeout"
  <2> DEFINE t == [transfers[w][i] EXCEPT !.outcome = "late"]
  <2>1. transfers[w][i] \in Transfer
    BY RowFacts
  <2>2. t \in Transfer /\ t.outcome = "late"
    BY <2>1 DEF Transfer
  <2>3. SetTransfer(w, i, t)
    BY <1>3 DEF Decide
  <2> HIDE DEF t
  <2>4. transfers'[w][i] = t
    BY <2>2, <2>3, SetTransferStep
  <2> QED BY <1>1, <2>2, <2>4 DEF Open
<1> QED BY <1>1, <1>2, <1>3

(* The wallet's endpoints. *)
LEMMA PurseMoves ==
  ASSUME TypeOK
  PROVE  /\ Reserve => purse'.reserved = purse.reserved + Amount
         /\ Release => purse'.reserved = purse.reserved - Amount
         /\ Debit \/ UNCHANGED purse => purse'.reserved = purse.reserved
<1>1. purse \in [balance: Int, reserved: Int]
  BY DEF TypeOK
<1> DEFINE plus == purse.reserved + Amount
           minus == purse.reserved - Amount
           less == purse.balance - Amount
<1>2. /\ Reserve => purse' = [purse EXCEPT !.reserved = plus]
      /\ Release => purse' = [purse EXCEPT !.reserved = minus]
      /\ Debit => purse' = [purse EXCEPT !.balance = less]
  BY DEF Reserve, Release, Debit
<1>3. /\ Reserve => purse'.reserved = plus
      /\ Release => purse'.reserved = minus
      /\ Debit => purse'.reserved = purse.reserved
  <2> HIDE DEF plus, minus, less
  <2> QED BY <1>1, <1>2
<1> QED BY <1>3

(* A reservation more, a reservation less. *)
LEMMA HeldMore ==
  ASSUME NEW R, NEW w, IsFiniteSet(R), w \notin R
  PROVE  /\ IsFiniteSet(R \cup {w})
         /\ Amount * Cardinality(R \cup {w}) = Amount * Cardinality(R) + Amount
<1>1. /\ IsFiniteSet(R \cup {w}) /\ Cardinality(R) \in Nat
      /\ Cardinality(R \cup {w}) = Cardinality(R) + 1
  BY FS_AddElement, FS_CardinalityType
<1>2. \A n \in Nat : Amount * (n + 1) = Amount * n + Amount
  BY WithdrawalAssumption
<1> QED BY <1>1, <1>2

LEMMA HeldLess ==
  ASSUME NEW R, NEW w, IsFiniteSet(R), w \in R
  PROVE  /\ IsFiniteSet(R \ {w})
         /\ Amount * Cardinality(R \ {w}) = Amount * Cardinality(R) - Amount
<1>1. IsFiniteSet(R \ {w})
  BY FS_Subset
<1>2. PICK E : E = R \ {w}
  OBVIOUS
<1>3. E \cup {w} = R /\ w \notin E
  BY <1>2
<1>4. Amount * Cardinality(R) = Amount * Cardinality(E) + Amount
  BY <1>1, <1>2, <1>3, HeldMore
<1>5. Amount * Cardinality(E) \in Int /\ Amount \in Int
  <2>1. Cardinality(E) \in Nat
    BY <1>1, <1>2, FS_CardinalityType
  <2> QED BY <2>1, WithdrawalAssumption
<1> QED BY <1>1, <1>2, <1>4, <1>5

LEMMA ReservationsStep ==
  ASSUME NEW E, IsFiniteSet(E), purse'.reserved = Amount * Cardinality(E),
         \A v \in Withdrawals : Owed(init'[v], transfers'[v], v \in E),
         \A c \in Callbacks : Failing(callback'[c]) =>
           /\ callback'[c].of \in E /\ Closed(transfers'[callback'[c].of])
           /\ \A d \in Callbacks :
                Failing(callback'[d]) /\ callback'[d].of = callback'[c].of => d = c
  PROVE  Reservations(E)'
BY DEF Reservations, TakenOver, Of

(* Steps of an initiation: no callback runs before there is a transfer. *)
LEMMA InitiateReserved ==
  ASSUME TInv, Named, Calm, NEW w \in Withdrawals, Initiate(w),
         NEW R \in SUBSET Withdrawals, Reservations(R)
  PROVE  \E E \in SUBSET Withdrawals : Reservations(E)'
<1>1. /\ TypeOK /\ IsFiniteSet(R) /\ purse.reserved = Amount * Cardinality(R)
      /\ \A v \in Withdrawals : Owed(init[v], transfers[v], v \in R)
      /\ \A c \in Callbacks : Failing(callback[c]) => TakenOver(c, R)
      /\ \A c \in Callbacks : Failing(callback[c]) => Len(transfers[Of(c)]) > 0
      /\ "lost" \notin faults /\ "publish" \notin faults
  BY RowFacts DEF Reservations, Calm, Named, Failing
<1>2. \A pc : Goto(w, pc) => /\ init'[w] = pc
                             /\ \A v \in Withdrawals : v # w => init'[v] = init[v]
  BY <1>1 DEF TypeOK, Goto
<1>3. UNCHANGED callback
  BY DEF Initiate, VerifyWithdrawalOtp, CheckDailyLimit, ReserveWalletFunds,
         CreatePayment, B2cTransfer, RecordConversation, PublishInitiated,
         ReleaseOnFailure, InitiationFails
<1>4. ASSUME NEW E \in SUBSET Withdrawals, IsFiniteSet(E),
             purse'.reserved = Amount * Cardinality(E),
             \A v \in Withdrawals : v # w => init'[v] = init[v] /\ (v \in E <=> v \in R),
             Len(transfers[w]) = 0 \/ (E = R /\ UNCHANGED transfers),
             \A v \in Withdrawals : v # w => transfers'[v] = transfers[v],
             Owed(init'[w], transfers'[w], w \in E)
      PROVE  Reservations(E)'
  <2>1. ASSUME NEW v \in Withdrawals PROVE Owed(init'[v], transfers'[v], v \in E)
    <3>1. CASE v # w
      <4>1. Owed(init[v], transfers[v], v \in R)
        BY <1>1
      <4> QED BY <1>4, <3>1, <4>1 DEF Owed
    <3> QED BY <1>4, <3>1
  <2>2. ASSUME NEW c \in Callbacks, Failing(callback'[c])
        PROVE  /\ callback'[c].of \in E /\ Closed(transfers'[callback'[c].of])
               /\ \A d \in Callbacks :
                    Failing(callback'[d]) /\ callback'[d].of = callback'[c].of => d = c
    <3>1. /\ TakenOver(c, R) /\ Len(transfers[Of(c)]) > 0 /\ Of(c) \in Withdrawals
          /\ callback'[c].of = Of(c)
      BY <1>1, <1>3, <2>2, RowFacts DEF Of
    <3>2. Of(c) \in E /\ transfers'[Of(c)] = transfers[Of(c)]
      <4>1. CASE Of(c) = w
        BY <1>4, <3>1, <4>1 DEF TakenOver
      <4>2. CASE Of(c) # w
        BY <1>4, <3>1, <4>2 DEF TakenOver
      <4> QED BY <4>1, <4>2
    <3> QED BY <1>3, <3>1, <3>2 DEF TakenOver, Of
  <2> QED BY <1>4, <2>1, <2>2, ReservationsStep
<1>5. Owed(init[w], transfers[w], w \in R)
  BY <1>1
<1>6. ASSUME purse'.reserved = purse.reserved, UNCHANGED transfers,
             \A v \in Withdrawals : v # w => init'[v] = init[v],
             Owed(init'[w], transfers[w], w \in R)
      PROVE  Reservations(R)'
  BY <1>1, <1>4, <1>6
<1>7. UNCHANGED purse => purse'.reserved = purse.reserved
  OBVIOUS
<1>8. CASE \/ VerifyWithdrawalOtp(w) \/ CheckDailyLimit(w) \/ RecordConversation(w)
           \/ PublishInitiated(w) \/ InitiationFails(w) \/ CreatePayment(w)
  <2>1. /\ UNCHANGED <<transfers, purse>>
        /\ \/ init[w] \in {"idle", "limit"}
              /\ (Goto(w, "limit") \/ Goto(w, "reserve") \/ Goto(w, "rejected"))
           \/ init[w] = "create" /\ (Goto(w, "transfer") \/ Goto(w, "rejected"))
           \/ Goto(w, "publish") \/ Goto(w, "done") \/ Goto(w, "failed")
    BY <1>1, <1>8 DEF VerifyWithdrawalOtp, CheckDailyLimit, RecordConversation,
                      PublishInitiated, InitiationFails, CreatePayment, At
  <2>2. Owed(init'[w], transfers[w], w \in R)
    <3>1. \/ init[w] \in {"idle", "limit"} /\ init'[w] \in {"limit", "reserve", "rejected"}
          \/ init[w] = "create" /\ init'[w] \in {"transfer", "rejected"}
          \/ init'[w] \in {"publish", "done", "failed"}
      BY <1>2, <2>1
    <3> QED BY <1>5, <3>1 DEF Owed, NotAsked
  <2>3. \A v \in Withdrawals : v # w => init'[v] = init[v]
    BY <1>2, <2>1
  <2>4. Reservations(R)'
    BY <1>6, <1>7, <2>1, <2>2, <2>3
  <2> QED BY <2>4
<1>9. CASE ReserveWalletFunds(w)
  <2>1. UNCHANGED transfers /\ init[w] = "reserve" /\ w \notin R /\ Len(transfers[w]) = 0
    BY <1>5, <1>9 DEF ReserveWalletFunds, At, Owed, NotAsked
  <2>2. CASE Goto(w, "rejected") /\ UNCHANGED purse
    <3>1. Owed(init'[w], transfers[w], w \in R)
      BY <1>2, <1>5, <2>2 DEF Owed, NotAsked
    <3>2. Reservations(R)'
      BY <1>2, <1>6, <1>7, <2>1, <2>2, <3>1
    <3> QED BY <3>2
  <2>3. CASE Reserve /\ Goto(w, "create")
    <3>1. PICK E \in SUBSET Withdrawals : E = R \cup {w}
      OBVIOUS
    <3>2. IsFiniteSet(E) /\ Amount * Cardinality(E) = Amount * Cardinality(R) + Amount
      BY <1>1, <2>1, <3>1, HeldMore
    <3>3. purse'.reserved = Amount * Cardinality(E)
      BY <1>1, <2>3, <3>2, PurseMoves
    <3>4. Owed(init'[w], transfers'[w], w \in E)
      BY <1>2, <1>5, <2>1, <2>3, <3>1 DEF Owed, NotAsked
    <3>5. /\ \A v \in Withdrawals : v # w => init'[v] = init[v] /\ (v \in E <=> v \in R)
          /\ \A v \in Withdrawals : v # w => transfers'[v] = transfers[v]
      BY <1>2, <2>1, <2>3, <3>1
    <3>6. Reservations(E)'
      BY <1>4, <2>1, <3>2, <3>3, <3>4, <3>5
    <3> QED BY <3>6
  <2> QED BY <1>9, <2>2, <2>3 DEF ReserveWalletFunds
<1>10. CASE B2cTransfer(w)
  <2>1. UNCHANGED purse /\ init[w] = "transfer" /\ w \in R /\ Len(transfers[w]) = 0
    BY <1>5, <1>10 DEF B2cTransfer, At, Owed, NotAsked
  <2>2. CASE Goto(w, "release") /\ UNCHANGED transfers
    <3>1. Owed(init'[w], transfers[w], w \in R)
      BY <1>2, <1>5, <2>1, <2>2 DEF Owed, NotAsked
    <3>2. Reservations(R)'
      BY <1>2, <1>6, <1>7, <2>1, <2>2, <3>1
    <3> QED BY <3>2
  <2>3. CASE AskTransfer(w) /\ Goto(w, "record")
    <3>1. Closed(transfers[w])
      BY <2>1 DEF Closed
    <3>2. /\ \A i, j \in 1..Len(transfers'[w]) :
               Open(transfers'[w][i]) /\ Open(transfers'[w][j]) => i = j
          /\ \A v \in Withdrawals : v # w => transfers'[v] = transfers[v]
      BY <2>3, <3>1, AskOpens
    <3>3. Owed(init'[w], transfers'[w], w \in R)
      BY <1>2, <2>1, <2>3, <3>2 DEF Owed, NotAsked
    <3>4. /\ \A v \in Withdrawals : v # w => init'[v] = init[v]
          /\ purse'.reserved = Amount * Cardinality(R)
      BY <1>1, <1>2, <1>7, <2>1, <2>3
    <3>5. Reservations(R)'
      BY <1>1, <1>4, <2>1, <3>2, <3>3, <3>4
    <3> QED BY <3>5
  <2> QED BY <1>1, <1>10, <2>2, <2>3 DEF B2cTransfer
<1>11. CASE ReleaseOnFailure(w)
  <2>1. /\ UNCHANGED transfers /\ init[w] = "release" /\ w \in R /\ Len(transfers[w]) = 0
        /\ Goto(w, "fail")
    BY <1>5, <1>11 DEF ReleaseOnFailure, At, Owed, NotAsked
  <2>2. CASE UNCHANGED purse
    <3>1. Owed(init'[w], transfers[w], w \in R)
      BY <1>2, <1>5, <2>1 DEF Owed, NotAsked
    <3>2. Reservations(R)'
      BY <1>2, <1>6, <1>7, <2>1, <2>2, <3>1
    <3> QED BY <3>2
  <2>3. CASE Release
    <3>1. PICK E \in SUBSET Withdrawals : E = R \ {w}
      OBVIOUS
    <3>2. IsFiniteSet(E) /\ Amount * Cardinality(E) = Amount * Cardinality(R) - Amount
      BY <1>1, <2>1, <3>1, HeldLess
    <3>3. purse'.reserved = Amount * Cardinality(E)
      BY <1>1, <2>3, <3>2, PurseMoves
    <3>4. Owed(init'[w], transfers'[w], w \in E)
      BY <1>2, <1>5, <2>1, <3>1 DEF Owed, NotAsked
    <3>5. /\ \A v \in Withdrawals : v # w => init'[v] = init[v] /\ (v \in E <=> v \in R)
          /\ \A v \in Withdrawals : v # w => transfers'[v] = transfers[v]
      BY <1>2, <2>1, <3>1
    <3>6. Reservations(E)'
      BY <1>4, <2>1, <3>2, <3>3, <3>4, <3>5
    <3> QED BY <3>6
  <2> QED BY <1>11, <2>2, <2>3 DEF ReleaseOnFailure, ReleaseWalletFunds
<1> QED BY <1>8, <1>9, <1>10, <1>11 DEF Initiate

(* M-Pesa. *)
LEMMA DecideReserved ==
  ASSUME TInv, NEW w \in Withdrawals, NEW i \in 1..Len(transfers[w]), Decide(w, i),
         NEW R \in SUBSET Withdrawals, Reservations(R)
  PROVE  Reservations(R)'
<1>1. /\ UNCHANGED <<init, callback, purse>>
      /\ \A v \in Withdrawals : Len(transfers'[v]) = Len(transfers[v])
      /\ \A v \in Withdrawals : \A j \in 1..Len(transfers[v]) :
           Open(transfers'[v][j]) => Open(transfers[v][j])
  BY DecideStep, DecideOpens DEF Decide
<1>2. IsFiniteSet(R) /\ purse'.reserved = Amount * Cardinality(R)
  BY <1>1 DEF Reservations
<1>3. ASSUME NEW v \in Withdrawals PROVE Owed(init'[v], transfers'[v], v \in R)
  <2>1. Owed(init[v], transfers[v], v \in R)
    BY DEF Reservations
  <2> QED BY <1>1, <2>1 DEF Owed
<1>4. ASSUME NEW c \in Callbacks, Failing(callback'[c])
      PROVE  /\ callback'[c].of \in R /\ Closed(transfers'[callback'[c].of])
             /\ \A d \in Callbacks :
                  Failing(callback'[d]) /\ callback'[d].of = callback'[c].of => d = c
  <2>1. TakenOver(c, R) /\ Of(c) \in Withdrawals /\ callback'[c].of = Of(c)
    BY <1>1, <1>4, RowFacts DEF Reservations, Of
  <2>2. Closed(transfers'[Of(c)])
    BY <1>1, <2>1 DEF TakenOver, Closed
  <2> QED BY <1>1, <2>1, <2>2 DEF TakenOver, Of
<1> QED BY <1>2, <1>3, <1>4, ReservationsStep

(* A failing callback comes of an open transfer, and closes it. *)
LEMMA CallBackReserved ==
  ASSUME TInv, Calm, NEW w \in Withdrawals, NEW i \in 1..Len(transfers[w]),
         NEW c \in Callbacks, CallBack(c, w, i),
         NEW R \in SUBSET Withdrawals, Reservations(R)
  PROVE  Reservations(R)'
<1> DEFINE t == transfers[w][i]
<1>1. /\ UNCHANGED <<init, purse>>
      /\ \A v \in Withdrawals : Len(transfers'[v]) = Len(transfers[v])
      /\ transfers'[w][i].outcome = t.outcome
      /\ callback'[c].pc = "find" /\ callback'[c].of = w
  <2>1. UNCHANGED <<init, purse>>
    BY DEF CallBack
  <2> QED BY <2>1, CallBackStep
<1>2. /\ callback[c].pc = "idle" /\ t.outcome # "pending"
      /\ callback'[c].kind = "timeout" <=> t.outcome = "timeout"
      /\ callback'[c].paid = (t.outcome \in Out)
      /\ \A d \in Callbacks : d # c => callback'[d] = callback[d]
      /\ transfers'[w][i].sent = t.sent + 1
      /\ \A j \in 1..Len(transfers[w]) : j # i => transfers'[w][j] = transfers[w][j]
      /\ \A v \in Withdrawals : v # w => transfers'[v] = transfers[v]
      /\ t.sent = 0 \/ t.outcome = "late"
  BY CallBackSays DEF Calm
<1>3. t.sent \in Nat /\ t.outcome \in Outcome
  <2>1. t \in Transfer
    BY RowFacts
  <2> QED BY <2>1, WithdrawalAssumption DEF Transfer, Outcome
<1>4. ~Open(transfers'[w][i])
  BY <1>1, <1>2, <1>3 DEF Open
<1>5. \A v \in Withdrawals : \A j \in 1..Len(transfers[v]) :
        Open(transfers'[v][j]) => Open(transfers[v][j])
  BY <1>2, <1>4
<1>6. Failing(callback'[c]) => Open(t)
  <2>1. CASE callback'[c].kind = "timeout"
    BY <1>2, <2>1 DEF Open
  <2>2. CASE callback'[c].paid = FALSE
    <3>1. t.outcome \notin Out
      BY <1>2, <2>2
    <3>2. t.outcome \in {"timeout", "refused"} /\ t.sent = 0
      BY <1>2, <1>3, <3>1 DEF Out, Outcome
    <3> QED BY <3>2 DEF Open
  <2> QED BY <1>1, <2>1, <2>2 DEF Failing
<1>7. IsFiniteSet(R) /\ purse'.reserved = Amount * Cardinality(R)
  BY <1>1 DEF Reservations
<1>8. Owed(init[w], transfers[w], w \in R)
  BY DEF Reservations
<1>9. ASSUME NEW v \in Withdrawals PROVE Owed(init'[v], transfers'[v], v \in R)
  <2>1. Owed(init[v], transfers[v], v \in R)
    BY DEF Reservations
  <2> QED BY <1>1, <1>5, <2>1 DEF Owed
<1>10. ASSUME NEW d \in Callbacks, Failing(callback[d])
       PROVE  TakenOver(d, R) /\ Of(d) \in Withdrawals /\ (Of(d) = w => ~Open(t))
  BY <1>10, RowFacts DEF Reservations, TakenOver, Closed
<1>11. ASSUME NEW a \in Callbacks, Failing(callback'[a])
       PROVE  /\ callback'[a].of \in R /\ Closed(transfers'[callback'[a].of])
              /\ \A d \in Callbacks :
                   Failing(callback'[d]) /\ callback'[d].of = callback'[a].of => d = a
  <2>1. CASE a = c
    <3>1. Open(t)
      BY <1>6, <1>11, <2>1
    <3>2. w \in R
      BY <1>8, <3>1 DEF Owed
    <3>3. Closed(transfers'[w])
      BY <1>1, <1>4, <1>5, <1>8, <3>1 DEF Owed, Closed
    <3>4. \A d \in Callbacks : d # c => ~(Failing(callback'[d]) /\ callback'[d].of = w)
      BY <1>2, <1>10, <3>1 DEF Of
    <3> QED BY <1>1, <2>1, <3>2, <3>3, <3>4
  <2>2. CASE a # c
    <3>1. /\ callback'[a] = callback[a] /\ Failing(callback[a])
          /\ callback'[a].of = Of(a)
      BY <1>2, <1>11, <2>2 DEF Of
    <3>2. TakenOver(a, R) /\ Of(a) \in Withdrawals /\ (Of(a) = w => ~Open(t))
      BY <1>10, <3>1
    <3>3. Closed(transfers'[Of(a)])
      BY <1>1, <1>5, <3>2 DEF TakenOver, Closed
    <3>4. \A d \in Callbacks : Failing(callback'[d]) /\ callback'[d].of = Of(a) => d = a
      <4> SUFFICES ASSUME NEW d \in Callbacks, Failing(callback'[d]), callback'[d].of = Of(a)
                   PROVE  d = a
        OBVIOUS
      <4>1. d # c
        BY <1>1, <1>6, <3>2
      <4> QED BY <1>2, <3>2, <4>1 DEF TakenOver, Of
    <3> QED BY <3>1, <3>2, <3>3, <3>4 DEF TakenOver
  <2> QED BY <2>1, <2>2
<1> QED BY <1>7, <1>9, <1>11, ReservationsStep

(* A handler of a failed transfer passes the reservation on, or releases it. *)
LEMMA HandleReserved ==
  ASSUME TInv, Named, Calm, NEW c \in Callbacks, HandleCallback(c),
         NEW R \in SUBSET Withdrawals, Reservations(R)
  PROVE  \E E \in SUBSET Withdrawals : Reservations(E)'
<1> DEFINE k == callback[c]
           k2 == callback'[c]
<1>0. PICK w \in Withdrawals : w = Of(c)
  BY RowFacts
<1>1. /\ UNCHANGED init
      /\ \A d \in Callbacks : d # c => callback'[d] = callback[d]
      /\ \A v \in Withdrawals : v # w => transfers'[v] = transfers[v]
      /\ \/ k2.pc = "idle"
         \/ k2.of = w /\ k2.kind = k.kind /\ k2.paid = k.paid
      /\ k.of = w /\ Len(transfers[w]) > 0 /\ Len(transfers[w]) \in Nat
  BY <1>0, HandleStep, RowFacts DEF Named
<1>2. /\ TypeOK /\ IsFiniteSet(R) /\ purse.reserved = Amount * Cardinality(R)
      /\ \A v \in Withdrawals : Owed(init[v], transfers[v], v \in R)
      /\ \A d \in Callbacks : Failing(callback[d]) => TakenOver(d, R)
      /\ "lost" \notin faults
  BY RowFacts DEF Reservations, Calm
<1>3. init[w] \notin NotAsked \cup {"release"} /\ Owed(init[w], transfers[w], w \in R)
  BY <1>1, <1>2 DEF Owed
<1>4. /\ \A pc : Continue(c, pc) => k2.pc = pc
      /\ End(c) => k2.pc = "idle"
  <2>1. k \in Callback
    BY RowFacts
  <2>2. \A pc : Continue(c, pc) => k2.pc = pc
    BY <1>2, <2>1 DEF TypeOK, Continue, Callback
  <2> QED BY <1>2, <2>2 DEF TypeOK, End, Idle
(* What the others have taken over is not of w, if this one has taken over w. *)
<1>5. Failing(k) => /\ w \in R /\ Closed(transfers[w])
                    /\ \A d \in Callbacks : Failing(callback[d]) /\ Of(d) = w => d = c
  BY <1>0, <1>2 DEF TakenOver
<1>6. ASSUME purse'.reserved = purse.reserved, UNCHANGED transfers,
             Failing(k2) => Failing(k) /\ k2.of = w
      PROVE  Reservations(R)'
  <2>1. ASSUME NEW a \in Callbacks, Failing(callback'[a])
        PROVE  Failing(callback[a]) /\ callback'[a].of = Of(a)
    BY <1>0, <1>1, <1>6, <2>1 DEF Of
  <2>2. ASSUME NEW a \in Callbacks, Failing(callback'[a])
        PROVE  /\ callback'[a].of \in R /\ Closed(transfers'[callback'[a].of])
               /\ \A d \in Callbacks :
                    Failing(callback'[d]) /\ callback'[d].of = callback'[a].of => d = a
    BY <1>2, <1>6, <2>1, <2>2 DEF TakenOver
  <2> QED BY <1>1, <1>2, <1>6, <2>2, ReservationsStep
<1>7. ASSUME NEW E \in SUBSET Withdrawals, IsFiniteSet(E),
             purse'.reserved = Amount * Cardinality(E),
             \A v \in Withdrawals : v # w => (v \in E <=> v \in R),
             Owed(init[w], transfers'[w], w \in E), Failing(k), ~Failing(k2)
      PROVE  Reservations(E)'
  <2>1. ASSUME NEW v \in Withdrawals PROVE Owed(init'[v], transfers'[v], v \in E)
    <3>1. CASE v = w
      BY <1>1, <1>7, <3>1
    <3>2. CASE v # w
      <4>1. Owed(init[v], transfers[v], v \in R) /\ init'[v] = init[v]
        BY <1>1, <1>2
      <4> QED BY <1>1, <1>7, <3>2, <4>1 DEF Owed
    <3> QED BY <3>1, <3>2
  <2>2. ASSUME NEW a \in Callbacks, Failing(callback'[a])
        PROVE  /\ Failing(callback[a]) /\ callback'[a].of = Of(a)
               /\ Of(a) \in Withdrawals /\ Of(a) # w
    <3>1. a # c
      BY <1>7, <2>2
    <3>2. Failing(callback[a]) /\ callback'[a].of = Of(a)
      BY <1>1, <2>2, <3>1 DEF Of
    <3> QED BY <1>5, <1>7, <3>1, <3>2, RowFacts
  <2>3. ASSUME NEW a \in Callbacks, Failing(callback'[a])
        PROVE  /\ callback'[a].of \in E /\ Closed(transfers'[callback'[a].of])
               /\ \A d \in Callbacks :
                    Failing(callback'[d]) /\ callback'[d].of = callback'[a].of => d = a
    <3>1. TakenOver(a, R)
      BY <1>2, <2>2, <2>3
    <3>2. \A d \in Callbacks : Failing(callback'[d]) /\ callback'[d].of = Of(a) => d = a
      BY <2>2, <3>1 DEF TakenOver
    <3>3. callback'[a].of = Of(a) /\ Of(a) \in E /\ transfers'[Of(a)] = transfers[Of(a)]
      BY <1>1, <1>7, <2>2, <2>3, <3>1 DEF TakenOver
    <3> QED BY <3>1, <3>2, <3>3 DEF TakenOver
  <2> QED BY <1>7, <2>1, <2>3, ReservationsStep
<1>8. UNCHANGED purse => purse'.reserved = purse.reserved
  OBVIOUS
<1>9. CASE \/ FindPayment(c) \/ StoreCallback(c) \/ Complete(c) \/ DebitWalletFunds(c)
           \/ IncrementDailyLimit(c) \/ PublishOutcome(c) \/ Fail(c) \/ CountRetry(c)
           \/ RecordRetry(c)
  <2>1. UNCHANGED transfers /\ purse'.reserved = purse.reserved
    <3>1. UNCHANGED transfers /\ (Debit \/ UNCHANGED purse)
      BY <1>9 DEF FindPayment, StoreCallback, Complete, DebitWalletFunds,
                  IncrementDailyLimit, PublishOutcome, Fail, CountRetry, RecordRetry
    <3> QED BY <1>2, <3>1, PurseMoves
  <2>2. Failing(k2) => Failing(k) /\ k2.of = w
    <3>1. CASE FindPayment(c)
      <4>1. k.pc = "find"
        BY <3>1 DEF FindPayment, OnCall
      <4>2. k2.pc \in {"idle", "store"}
        <5>1. CASE callback' = [callback EXCEPT ![c] = [k EXCEPT !.pc = "store",
                                                                 !.row = payment[Of(c)]]]
          <6>1. k2 = [k EXCEPT !.pc = "store", !.row = payment[Of(c)]] /\ k \in Callback
            BY <1>2, <5>1, RowFacts DEF TypeOK
          <6> QED BY <6>1 DEF Callback
        <5> QED BY <1>4, <3>1, <5>1 DEF FindPayment
      <4> QED BY <1>1, <4>1, <4>2 DEF Failing
    <3>2. CASE StoreCallback(c)
      <4>1. /\ k.pc = "store"
            /\ \/ End(c) \/ Continue(c, "complete")
               \/ /\ k.kind = "timeout" \/ k.paid = FALSE
                  /\ Continue(c, "fail") \/ Continue(c, "count_retry")
        BY <3>2, RowFacts DEF StoreCallback, OnCall
      <4>2. \/ k2.pc \in {"idle", "complete"}
            \/ k2.pc \in {"fail", "count_retry"} /\ (k.kind = "timeout" \/ k.paid = FALSE)
        BY <1>4, <4>1
      <4> QED BY <1>1, <4>1, <4>2 DEF Failing
    <3>3. CASE Complete(c) \/ DebitWalletFunds(c) \/ IncrementDailyLimit(c)
               \/ PublishOutcome(c) \/ RecordRetry(c)
      <4>1. k2.pc \in {"idle", "debit", "count", "publish"}
        BY <1>4, <3>3 DEF Complete, DebitWalletFunds, IncrementDailyLimit,
                          PublishOutcome, RecordRetry
      <4> QED BY <4>1 DEF Failing
    <3>4. CASE Fail(c) \/ CountRetry(c)
      <4>1. k.pc \in {"fail", "count_retry"} /\ k2.pc # "idle"
        BY <1>4, <3>4 DEF Fail, CountRetry, OnCall
      <4> QED BY <1>1, <4>1 DEF Failing
    <3> QED BY <1>9, <3>1, <3>2, <3>3, <3>4
  <2>3. Reservations(R)'
    BY <1>6, <2>1, <2>2
  <2> QED BY <2>3
<1>10. CASE RetryTransfer(c)
  <2>1. k.pc = "transfer" /\ UNCHANGED purse /\ Failing(k)
    BY <1>10 DEF RetryTransfer, OnCall, Failing
  <2>2. CASE Continue(c, "fail") /\ UNCHANGED transfers
    <3>1. k2.of = w
      BY <1>1, <1>4, <2>2
    <3>2. Reservations(R)'
      BY <1>6, <1>8, <2>1, <2>2, <3>1
    <3> QED BY <3>2
  <2>3. CASE AskTransfer(w) /\ callback' =
               [callback EXCEPT ![c] = [k EXCEPT !.pc = "record", !.id = Len(transfers[Of(c)]) + 1]]
    <3>1. k2.pc = "record"
      <4> DEFINE n == Len(transfers[Of(c)]) + 1
      <4> HIDE DEF n
      <4>1. k2 = [k EXCEPT !.pc = "record", !.id = n] /\ k \in Callback
        BY <1>2, <2>3, RowFacts DEF TypeOK, n
      <4> QED BY <4>1 DEF Callback
    <3>2. /\ \A i, j \in 1..Len(transfers'[w]) :
               Open(transfers'[w][i]) /\ Open(transfers'[w][j]) => i = j
      BY <1>5, <2>1, <2>3, AskOpens
    <3>3. Owed(init[w], transfers'[w], w \in R)
      BY <1>3, <1>5, <2>1, <3>2 DEF Owed, NotAsked
    <3>4. ~Failing(k2) /\ purse'.reserved = Amount * Cardinality(R)
      BY <1>2, <1>8, <2>1, <3>1 DEF Failing
    <3>5. Reservations(R)'
      BY <1>2, <1>7, <2>1, <3>3, <3>4
    <3> QED BY <3>5
  <2> QED BY <1>0, <1>2, <1>10, <2>2, <2>3 DEF RetryTransfer
<1>11. CASE ReleaseAfterFailure(c)
  <2>1. /\ k.pc = "release" /\ Failing(k) /\ UNCHANGED transfers /\ ~Failing(k2)
        /\ Release \/ UNCHANGED purse
    BY <1>4, <1>11 DEF ReleaseAfterFailure, ReleaseWalletFunds, OnCall, Failing
  <2>2. CASE UNCHANGED purse
    <3>1. Reservations(R)'
      BY <1>6, <1>8, <2>1, <2>2
    <3> QED BY <3>1
  <2>3. CASE Release
    <3>1. PICK E \in SUBSET Withdrawals : E = R \ {w}
      OBVIOUS
    <3>2. IsFiniteSet(E) /\ Amount * Cardinality(E) = Amount * Cardinality(R) - Amount
      BY <1>2, <1>5, <2>1, <3>1, HeldLess
    <3>3. purse'.reserved = Amount * Cardinality(E)
      BY <1>2, <2>3, <3>2, PurseMoves
    <3>4. Owed(init[w], transfers'[w], w \in E)
      BY <1>3, <1>5, <2>1, <3>1 DEF Owed, NotAsked, Closed
    <3>5. \A v \in Withdrawals : v # w => (v \in E <=> v \in R)
      BY <3>1
    <3>6. Reservations(E)'
      BY <1>7, <2>1, <3>2, <3>3, <3>4, <3>5
    <3> QED BY <3>6
  <2> QED BY <2>1, <2>2, <2>3
<1> QED BY <1>9, <1>10, <1>11 DEF HandleCallback

LEMMA InitReserved == Init => RInv
<1> SUFFICES ASSUME Init PROVE RInv
  OBVIOUS
<1>1. /\ TInv /\ purse.reserved = 0
      /\ \A w \in Withdrawals : init[w] = "idle" /\ Len(transfers[w]) = 0
      /\ \A c \in Callbacks : callback[c].pc = "idle"
  BY InitType DEF Init, Idle
<1>2. Amount * 0 = 0
  BY WithdrawalAssumption
<1>3. Reservations({})
  BY <1>1, <1>2, FS_EmptySet DEF Reservations, Owed, Failing
<1> QED BY <1>1, <1>3 DEF RInv, Named

LEMMA NextReserved == RInv /\ [Next]_vars => RInv'
<1> SUFFICES ASSUME RInv, [Next]_vars PROVE RInv'
  OBVIOUS
<1>1. TInv /\ Named /\ TInv' /\ Named'
  BY NextType, NamedStep DEF RInv
<1>2. ASSUME Calm' PROVE \E E \in SUBSET Withdrawals : Reservations(E)'
  <2>1. UNCHANGED faults
    BY <1>1, HandleStep
       DEF Next, vars, Decide, CallBack, Initiate, VerifyWithdrawalOtp, CheckDailyLimit,
           ReserveWalletFunds, CreatePayment, B2cTransfer, RecordConversation,
           PublishInitiated, ReleaseOnFailure, InitiationFails
  <2>2. Calm
    BY <1>2, <2>1 DEF Calm
  <2>3. PICK R \in SUBSET Withdrawals : Reservations(R)
    BY <2>2 DEF RInv
  <2>4. CASE UNCHANGED vars
    <3>1. Reservations(R)'
      BY <2>3, <2>4 DEF Reservations, TakenOver, Of, vars
    <3> QED BY <3>1
  <2> QED BY <1>1, <2>2, <2>3, <2>4, InitiateReserved, DecideReserved, CallBackReserved,
             HandleReserved DEF Next
<1> QED BY <1>1, <1>2 DEF RInv

LEMMA PendingOfRInv == RInv => PendingIsReserved
<1> SUFFICES ASSUME RInv, Calm
             PROVE  purse.reserved >= Amount * Cardinality({w \in Withdrawals : Pending(w) # {}})
  BY DEF PendingIsReserved, Calm
<1> DEFINE P == {w \in Withdrawals : Pending(w) # {}}
<1>1. PICK R \in SUBSET Withdrawals : Reservations(R)
  BY DEF RInv
<1>2. P \subseteq R
  <2> SUFFICES ASSUME NEW w \in Withdrawals, Pending(w) # {} PROVE w \in R
    OBVIOUS
  <2>1. PICK i \in 1..Len(transfers[w]) : transfers[w][i].outcome = "pending"
    BY DEF Pending, WithOutcome
  <2> QED BY <1>1, <2>1 DEF Reservations, Owed, Open
<1>3. IsFiniteSet(R) /\ purse.reserved = Amount * Cardinality(R)
  BY <1>1 DEF Reservations
<1> HIDE DEF P
<1>4. /\ Cardinality(P) \in Nat /\ Cardinality(R) \in Nat
      /\ Cardinality(P) <= Cardinality(R)
  BY <1>2, <1>3, FS_Subset, FS_CardinalityType
<1>5. \A i, j \in Nat : i <= j => Amount * i <= Amount * j
  BY WithdrawalAssumption
<1>6. Amount * Cardinality(P) <= Amount * Cardinality(R)
  BY <1>4, <1>5
<1>7. Amount * Cardinality(P) \in Int /\ Amount * Cardinality(R) \in Int
  BY <1>4, WithdrawalAssumption
<1> QED BY <1>3, <1>6, <1>7 DEF P

(* Money that M-Pesa may still pay out stays reserved, as long as no answer *)
(* or message is lost or doubled: for all numbers of withdrawals, transfers *)
(* and callbacks, with any number of callbacks handled at the same time.    *)
THEOREM PendingIsReservedHolds == Spec => []PendingIsReserved
BY InitReserved, NextReserved, PendingOfRInv, PTL DEF Spec

-----------------------------------------------------------------------------
(* Statuses.  What the row of a withdrawal says of its transfers is true:   *)
(* for every number of withdrawals and transfers, when callbacks are        *)
(* handled one after the other.                                             *)
(*                                                                          *)
(* The argument: a handler knows what became of the transfer it was called  *)
(* for.  As long as nothing is lost or late, the recorded transfer is the   *)
(* last one, so that a handler which fails the withdrawal has seen the last *)
(* transfer end, and no further one is asked for a failed withdrawal.       *)

(* A handler k, and the transfers l of its withdrawal. *)
Told(k, l) ==
  /\ k.pc \in {"find", "store"} /\ k.kind = "result" /\ k.paid = TRUE => l[k.id].outcome \in Out
  /\ k.pc \in {"find", "store"} /\ k.kind = "result" /\ k.paid = FALSE =>
       l[k.id].outcome = "refused"
  /\ k.pc = "complete" => l[k.id].outcome \in Out

Truth ==
  /\ \A w \in Withdrawals : payment[w].status = "COMPLETED" =>
       \E i \in 1..Len(transfers[w]) : transfers[w][i].outcome \in Out
  /\ \A c \in Callbacks : Told(callback[c], transfers[Of(c)])

(* No transfer was paid or is going to be, and no timeout asks another one. *)
Over(p, l) ==
  /\ \A i \in 1..Len(l) : l[i].outcome \in {"timeout", "refused"}
  /\ \/ Len(l) = 0 \/ p.retryCount > 0
     \/ p.conversationId # NoId /\ l[p.conversationId].outcome = "refused"

Ended(pc, p, l) ==
  /\ \A i \in 1..Len(l) : l[i].outcome # "late"
  /\ pc \in {"release", "fail", "failed"} => Len(l) = 0
  /\ pc \in NotAsked => p.status # "FAILED"
  /\ p.status = "FAILED" => Over(p, l)

Ending(k, p, l) ==
  /\ k.pc = "store" => k.id = p.conversationId
  /\ k.pc = "fail" => p.conversationId # NoId /\ Over(p, l)
  /\ k.pc \in {"count_retry", "transfer", "record"} => p.status # "FAILED"
  /\ k.pc = "record" => k.id = Len(l)

Latest(pc, p, l, w) ==
  \/ p.conversationId = Len(l)
  \/ pc = "record"
  \/ \E c \in Callbacks : Of(c) = w /\ callback[c].pc = "record"

Quiet == faults \cap {"lost", "publish", "late"} = {}
Clear ==
  /\ \A w \in Withdrawals : Ended(init[w], payment[w], transfers[w])
  /\ \A w \in Withdrawals : Latest(init[w], payment[w], transfers[w], w)
  /\ \A c \in Callbacks : Ending(callback[c], payment[Of(c)], transfers[Of(c)])

SInv == IInv /\ Truth /\ (Quiet => Clear)

-----------------------------------------------------------------------------
(* What M-Pesa has paid or refused, it has paid or refused for good. *)
LEMMA OutcomesStay ==
  ASSUME IInv, [Next]_vars
  PROVE  \A v \in Withdrawals : \A j \in 1..Len(transfers[v]) :
           /\ j \in 1..Len(transfers'[v])
           /\ transfers[v][j].outcome \in Out => transfers'[v][j].outcome \in Out
           /\ transfers[v][j].outcome = "refused" => transfers'[v][j].outcome = "refused"
<1> DEFINE Kept(v) ==
      \A j \in 1..Len(transfers[v]) :
           /\ j \in 1..Len(transfers'[v])
           /\ transfers[v][j].outcome \in Out => transfers'[v][j].outcome \in Out
           /\ transfers[v][j].outcome = "refused" => transfers'[v][j].outcome = "refused"
<1>0. TInv /\ \A v \in Withdrawals : Len(transfers[v]) \in Nat
  BY RowFacts DEF IInv
<1>1. UNCHANGED transfers => \A v \in Withdrawals : Kept(v)
  OBVIOUS
<1>2. ASSUME NEW w \in Withdrawals, AskTransfer(w) PROVE \A v \in Withdrawals : Kept(v)
  <2>1. /\ \A v \in Withdrawals : v # w => transfers'[v] = transfers[v]
        /\ Len(transfers'[w]) = Len(transfers[w]) + 1
        /\ \A i \in 1..Len(transfers[w]) : transfers'[w][i] = transfers[w][i]
    BY <1>0, <1>2, AskStep
  <2>2. \A i \in 1..Len(transfers[w]) : i \in 1..Len(transfers'[w])
    BY <1>0, <2>1
  <2> QED BY <2>1, <2>2
<1>3. ASSUME NEW w \in Withdrawals, Initiate(w) PROVE \A v \in Withdrawals : Kept(v)
  <2>1. UNCHANGED transfers \/ AskTransfer(w)
    BY <1>3 DEF Initiate, VerifyWithdrawalOtp, CheckDailyLimit, ReserveWalletFunds,
         CreatePayment, B2cTransfer, RecordConversation, PublishInitiated,
         ReleaseOnFailure, InitiationFails
  <2> QED BY <1>1, <1>2, <2>1
<1>4. ASSUME NEW w \in Withdrawals, NEW i \in 1..Len(transfers[w]), Decide(w, i)
      PROVE  \A v \in Withdrawals : Kept(v)
  BY <1>0, <1>4, DecideStep DEF Out
<1>5. ASSUME NEW w \in Withdrawals, NEW i \in 1..Len(transfers[w]), NEW c \in Callbacks,
             CallBack(c, w, i)
      PROVE  \A v \in Withdrawals : Kept(v)
  BY <1>0, <1>5, CallBackStep
<1>6. ASSUME NEW c \in Callbacks, HandleCallback(c) PROVE \A v \in Withdrawals : Kept(v)
  <2>1. PICK w \in Withdrawals : w = Of(c)
    BY <1>0, RowFacts
  <2>2. UNCHANGED transfers \/ AskTransfer(w)
    BY <1>6, <2>1 DEF HandleCallback, FindPayment, StoreCallback, Complete, DebitWalletFunds,
           IncrementDailyLimit, PublishOutcome, Fail, ReleaseAfterFailure, CountRetry,
           RetryTransfer, RecordRetry
  <2> QED BY <1>1, <1>2, <2>2
<1> QED BY <1>1, <1>3, <1>4, <1>5, <1>6 DEF Next, vars

(* The rows that a step writes. *)
LEMMA SetRowStep ==
  ASSUME TInv, NEW w \in Withdrawals, NEW r, SetRow(w, r)
  PROVE  /\ payment'[w] = r
         /\ \A v \in Withdrawals : v # w => payment'[v] = payment[v]
BY RowFacts DEF SetRow, TypeOK

LEMMA RowFields ==
  ASSUME NEW p \in Payment, NEW s, NEW i, NEW n
  PROVE  /\ LET q == [p EXCEPT !.status = s]
            IN  /\ q.status = s /\ q.conversationId = p.conversationId
                /\ q.retryCount = p.retryCount
         /\ LET q == [p EXCEPT !.status = s, !.conversationId = i]
            IN  q.status = s /\ q.conversationId = i /\ q.retryCount = p.retryCount
         /\ LET q == [p EXCEPT !.retryCount = n]
            IN  /\ q.status = p.status /\ q.conversationId = p.conversationId
                /\ q.retryCount = n
BY DEF Payment

LEMMA InitiateRow ==
  ASSUME TInv, NEW w \in Withdrawals, Initiate(w)
  PROVE  /\ \A v \in Withdrawals : v # w => payment'[v] = payment[v]
         /\ payment'[w] = payment[w] \/ payment'[w].status # "COMPLETED"
<1>1. payment[w] \in Payment
  BY RowFacts DEF TypeOK
<1>2. \/ UNCHANGED payment
      \/ SetRow(w, [payment[w] EXCEPT !.status = "INITIATED"])
      \/ SetRow(w, [payment[w] EXCEPT !.status = "FAILED"])
      \/ SetRow(w, [payment[w] EXCEPT !.status = "PROCESSING", !.conversationId = 1])
  BY DEF Initiate, VerifyWithdrawalOtp, CheckDailyLimit, ReserveWalletFunds,
         CreatePayment, B2cTransfer, RecordConversation, PublishInitiated,
         ReleaseOnFailure, InitiationFails
<1>3. /\ [payment[w] EXCEPT !.status = "INITIATED"].status = "INITIATED"
      /\ [payment[w] EXCEPT !.status = "FAILED"].status = "FAILED"
      /\ [payment[w] EXCEPT !.status = "PROCESSING", !.conversationId = 1].status = "PROCESSING"
  BY <1>1, RowFields
<1> QED BY <1>2, <1>3, SetRowStep

(* Which row a handler writes, and what it then knows. *)
LEMMA HandleRow ==
  ASSUME TInv, NEW c \in Callbacks, HandleCallback(c)
  PROVE  /\ \A v \in Withdrawals : v # Of(c) => payment'[v] = payment[v]
         /\ \/ payment'[Of(c)].status \in {payment[Of(c)].status, "FAILED", "PROCESSING"}
            \/ callback[c].pc = "complete"
<1>0. PICK w \in Withdrawals : w = Of(c)
  BY RowFacts
<1>1. payment[w] \in Payment
  BY RowFacts DEF TypeOK
<1>2. \/ UNCHANGED payment
      \/ callback[c].pc = "complete" /\ SetRow(w, [payment[w] EXCEPT !.status = "COMPLETED"])
      \/ SetRow(w, [payment[w] EXCEPT !.status = "FAILED"])
      \/ SetRow(w, [payment[w] EXCEPT !.status = "PROCESSING", !.conversationId = callback[c].id])
      \/ SetRow(w, [payment[w] EXCEPT !.retryCount = payment[w].retryCount + 1])
  BY <1>0 DEF HandleCallback, FindPayment, StoreCallback, Complete, DebitWalletFunds,
           IncrementDailyLimit, PublishOutcome, Fail, ReleaseAfterFailure, CountRetry,
           RetryTransfer, RecordRetry, OnCall
<1>3. PICK n : n = payment[w].retryCount + 1
  OBVIOUS
<1>4. /\ [payment[w] EXCEPT !.status = "FAILED"].status = "FAILED"
      /\ [payment[w] EXCEPT !.status = "PROCESSING",
                            !.conversationId = callback[c].id].status = "PROCESSING"
      /\ [payment[w] EXCEPT !.retryCount = n].status = payment[w].status
  BY <1>1, RowFields
<1> QED BY <1>0, <1>2, <1>3, <1>4, SetRowStep

(* From where a handler comes to where it is. *)
LEMMA HandlerGoes ==
  ASSUME TInv, NEW c \in Callbacks, HandleCallback(c)
  PROVE  /\ callback'[c].pc # "find"
         /\ callback'[c].pc = "store" =>
              /\ callback[c].pc = "find" /\ callback'[c].id = callback[c].id
              /\ callback[c].id = payment[Of(c)].conversationId
         /\ callback'[c].pc = "complete" =>
              /\ callback[c].pc = "store" /\ callback'[c].id = callback[c].id
              /\ callback[c].kind = "result" /\ callback[c].paid = TRUE
         /\ callback'[c].pc = "fail" =>
              \/ /\ callback[c].pc = "store"
                 /\ \/ callback[c].kind = "result" /\ callback[c].paid = FALSE
                    \/ callback[c].kind = "timeout" /\ ~RetriesLeft(c)
              \/ /\ callback[c].pc = "transfer"
                 /\ "lost" \in faults \/ UNCHANGED transfers
         /\ callback'[c].pc = "count_retry" =>
              callback[c].pc = "store" /\ callback[c].kind = "timeout" /\ RetriesLeft(c)
         /\ callback'[c].pc = "transfer" => callback[c].pc = "count_retry"
         /\ callback'[c].pc = "record" =>
              /\ callback[c].pc = "transfer" /\ AskTransfer(Of(c))
              /\ callback'[c].id = Len(transfers[Of(c)]) + 1
         /\ callback[c].pc # "transfer" => UNCHANGED transfers
         /\ callback[c].pc \notin {"complete", "fail", "count_retry", "record"} =>
              UNCHANGED payment
<1> DEFINE k == callback[c]
           k2 == callback'[c]
<1>1. TypeOK /\ k \in Callback /\ k.kind \in {"result", "timeout"} /\ k.paid \in BOOLEAN
  BY RowFacts
<1>2. /\ \A pc : Continue(c, pc) => k2.pc = pc /\ k2.id = k.id
      /\ End(c) => k2.pc = "idle"
  <2>1. \A pc : Continue(c, pc) => k2.pc = pc /\ k2.id = k.id
    BY <1>1 DEF TypeOK, Continue, Callback
  <2> QED BY <1>1, <2>1 DEF TypeOK, End, Idle
<1>3. CASE FindPayment(c)
  <2>1. k.pc = "find" /\ UNCHANGED <<payment, transfers>>
    BY <1>3 DEF FindPayment, OnCall
  <2>2. CASE End(c)
    BY <1>2, <2>1, <2>2
  <2>3. CASE /\ payment[Of(c)].conversationId = k.id
             /\ callback' = [callback EXCEPT ![c] = [k EXCEPT !.pc = "store",
                                                              !.row = payment[Of(c)]]]
    <3>1. k2 = [k EXCEPT !.pc = "store", !.row = payment[Of(c)]]
      BY <1>1, <2>3 DEF TypeOK
    <3>2. k2.pc = "store" /\ k2.id = k.id
      BY <1>1, <3>1 DEF Callback
    <3> QED BY <2>1, <2>3, <3>2
  <2> QED BY <1>3, <2>2, <2>3 DEF FindPayment
<1>4. CASE StoreCallback(c)
  <2>1. k.pc = "store" /\ UNCHANGED <<payment, transfers>>
    BY <1>4 DEF StoreCallback, OnCall
  <2>2. \/ End(c)
        \/ Continue(c, "complete") /\ k.kind = "result" /\ k.paid = TRUE
        \/ /\ Continue(c, "fail")
           /\ \/ k.kind = "result" /\ k.paid = FALSE
              \/ k.kind = "timeout" /\ ~RetriesLeft(c)
        \/ Continue(c, "count_retry") /\ k.kind = "timeout" /\ RetriesLeft(c)
    BY <1>1, <1>4 DEF StoreCallback
  <2> QED BY <1>2, <2>1, <2>2
<1>5. CASE RetryTransfer(c)
  <2>1. k.pc = "transfer" /\ UNCHANGED payment
    BY <1>5 DEF RetryTransfer, OnCall
  <2>2. CASE Continue(c, "fail") /\ ("lost" \in faults \/ UNCHANGED transfers)
    BY <1>2, <2>1, <2>2
  <2>3. CASE AskTransfer(Of(c)) /\ callback' =
               [callback EXCEPT ![c] = [k EXCEPT !.pc = "record", !.id = Len(transfers[Of(c)]) + 1]]
    <3>1. k2.pc = "record" /\ k2.id = Len(transfers[Of(c)]) + 1
      <4> DEFINE n == Len(transfers[Of(c)]) + 1
      <4> HIDE DEF n
      <4>1. k2 = [k EXCEPT !.pc = "record", !.id = n]
        BY <1>1, <2>3 DEF TypeOK, n
      <4>2. k2.pc = "record" /\ k2.id = n
        BY <1>1, <4>1 DEF Callback
      <4> QED BY <4>2 DEF n
    <3> QED BY <2>1, <2>3, <3>1
  <2> QED BY <1>5, <2>2, <2>3 DEF RetryTransfer
<1>6. CASE \/ Complete(c) \/ DebitWalletFunds(c) \/ IncrementDailyLimit(c)
           \/ PublishOutcome(c) \/ Fail(c) \/ ReleaseAfterFailure(c) \/ CountRetry(c)
           \/ RecordRetry(c)
  <2>1. /\ UNCHANGED transfers /\ k.pc # "transfer"
        /\ k.pc \notin {"complete", "fail", "count_retry", "record"} => UNCHANGED payment
        /\ \/ End(c)
           \/ \E pc \in {"debit", "count", "publish", "release"} : Continue(c, pc)
           \/ Continue(c, "transfer") /\ k.pc = "count_retry"
    BY <1>6 DEF Complete, DebitWalletFunds, IncrementDailyLimit, PublishOutcome, Fail,
           ReleaseAfterFailure, CountRetry, RecordRetry, OnCall
  <2>2. \/ k2.pc \in {"idle", "debit", "count", "publish", "release"}
        \/ k2.pc = "transfer" /\ k.pc = "count_retry"
    BY <1>2, <2>1
  <2> QED BY <2>1, <2>2
<1> QED BY <1>3, <1>4, <1>5, <1>6 DEF HandleCallback

LEMMA NextTruth ==
  ASSUME IInv, Truth, [Next]_vars
  PROVE  Truth'
<1>0. TInv /\ \A c \in Callbacks : Informed(callback[c], payment[Of(c)], transfers[Of(c)])
  BY DEF IInv
<1>1. \A v \in Withdrawals : \A j \in 1..Len(transfers[v]) :
           /\ j \in 1..Len(transfers'[v])
           /\ transfers[v][j].outcome \in Out => transfers'[v][j].outcome \in Out
           /\ transfers[v][j].outcome = "refused" => transfers'[v][j].outcome = "refused"
  BY OutcomesStay
<1>2. \A c \in Callbacks : /\ Told(callback[c], transfers[Of(c)]) /\ Of(c) \in Withdrawals
                           /\ callback[c].of = Of(c)
                           /\ callback[c].pc # "idle" =>
                                callback[c].id \in 1..Len(transfers[Of(c)])
  BY <1>0, RowFacts DEF Truth, Informed
<1>3. \A c \in Callbacks : Told(callback[c], transfers'[Of(c)])
  BY <1>1, <1>2 DEF Told
<1>4. \A w \in Withdrawals : payment[w].status = "COMPLETED" =>
        \E i \in 1..Len(transfers'[w]) : transfers'[w][i].outcome \in Out
  BY <1>1 DEF Truth
<1>5. ASSUME \A w \in Withdrawals : payment'[w].status = "COMPLETED" =>
               \/ payment[w].status = "COMPLETED"
               \/ \E i \in 1..Len(transfers'[w]) : transfers'[w][i].outcome \in Out,
             NEW c \in Callbacks,
             \A d \in Callbacks : d # c => callback'[d] = callback[d],
             Told(callback'[c], transfers'[callback'[c].of])
      PROVE  Truth'
  <2>1. \A w \in Withdrawals : payment'[w].status = "COMPLETED" =>
          \E i \in 1..Len(transfers'[w]) : transfers'[w][i].outcome \in Out
    BY <1>4, <1>5
  <2>2. \A d \in Callbacks : Told(callback'[d], transfers'[callback'[d].of])
    BY <1>2, <1>3, <1>5
  <2> QED BY <2>1, <2>2 DEF Truth, Of
<1>6. ASSUME UNCHANGED callback,
             \A w \in Withdrawals : payment'[w].status = "COMPLETED" =>
               payment[w].status = "COMPLETED"
      PROVE  Truth'
  <2>1. \A w \in Withdrawals : payment'[w].status = "COMPLETED" =>
          \E i \in 1..Len(transfers'[w]) : transfers'[w][i].outcome \in Out
    BY <1>4, <1>6
  <2>2. \A d \in Callbacks : Told(callback'[d], transfers'[callback'[d].of])
    BY <1>2, <1>3, <1>6
  <2> QED BY <2>1, <2>2 DEF Truth, Of
<1>7. CASE UNCHANGED vars
  BY <1>6, <1>7 DEF vars
<1>8. ASSUME NEW w \in Withdrawals, Initiate(w) PROVE Truth'
  <2>1. UNCHANGED callback
    BY <1>8 DEF Initiate, VerifyWithdrawalOtp, CheckDailyLimit, ReserveWalletFunds,
         CreatePayment, B2cTransfer, RecordConversation, PublishInitiated,
         ReleaseOnFailure, InitiationFails
  <2>2. /\ \A v \in Withdrawals : v # w => payment'[v] = payment[v]
        /\ payment'[w] = payment[w] \/ payment'[w].status # "COMPLETED"
    BY <1>0, <1>8, InitiateRow
  <2> QED BY <1>6, <2>1, <2>2
<1>9. ASSUME NEW w \in Withdrawals, NEW i \in 1..Len(transfers[w]), Decide(w, i)
      PROVE  Truth'
  BY <1>6, <1>9 DEF Decide
<1>10. ASSUME NEW w \in Withdrawals, NEW i \in 1..Len(transfers[w]), NEW c \in Callbacks,
              CallBack(c, w, i)
       PROVE  Truth'
  <2>1. UNCHANGED payment
    BY <1>10 DEF CallBack
  <2>2. /\ \A v \in Withdrawals : \A j \in 1..Len(transfers[v]) :
             transfers'[v][j].outcome = transfers[v][j].outcome
        /\ callback'[c].pc = "find" /\ callback'[c].of = w /\ callback'[c].id = i
    BY <1>0, <1>10, CallBackStep
  <2>3. /\ transfers[w][i].outcome # "pending"
        /\ callback'[c].kind = "timeout" <=> transfers[w][i].outcome = "timeout"
        /\ callback'[c].kind \in {"result", "timeout"}
        /\ callback'[c].paid = (transfers[w][i].outcome \in Out)
        /\ \A d \in Callbacks : d # c => callback'[d] = callback[d]
    BY <1>0, <1>10, CallBackSays
  <2>4. transfers[w][i].outcome \in Outcome
    <3>1. transfers[w][i] \in Transfer
      BY <1>0, RowFacts
    <3> QED BY <3>1 DEF Transfer, Outcome
  <2>5. callback'[c].paid = FALSE => transfers[w][i].outcome \notin Out
    BY <2>3
  <2>6. callback'[c].paid = TRUE => transfers[w][i].outcome \in Out
    BY <2>3
  <2>7. Told(callback'[c], transfers'[w])
    <3>1. transfers'[w][i].outcome = transfers[w][i].outcome
      BY <2>2
    <3>2. callback'[c].kind = "result" /\ transfers[w][i].outcome \notin Out
            => transfers[w][i].outcome = "refused"
      BY <2>3, <2>4 DEF Out, Outcome
    <3> QED BY <2>2, <2>5, <2>6, <3>1, <3>2 DEF Told
  <2> QED BY <1>5, <2>1, <2>2, <2>3, <2>7
<1>11. ASSUME NEW c \in Callbacks, HandleCallback(c) PROVE Truth'
  <2> DEFINE k == callback[c]
             k2 == callback'[c]
  <2>1. PICK w \in Withdrawals : w = Of(c)
    BY <1>0, RowFacts
  <2>2. /\ \A d \in Callbacks : d # c => callback'[d] = callback[d]
        /\ k.pc # "idle"
        /\ \/ k2.pc = "idle"
           \/ k2.of = w /\ k2.kind = k.kind /\ k2.paid = k.paid
    BY <1>0, <1>11, <2>1, HandleStep
  <2>3. Told(k, transfers'[w]) /\ k.id \in 1..Len(transfers'[w])
    BY <1>1, <1>2, <1>3, <2>1, <2>2
  <2>4. Told(k2, transfers'[k2.of])
    <3>1. CASE k2.pc = "store"
      BY <1>0, <1>11, <2>1, <2>2, <2>3, <3>1, HandlerGoes DEF Told
    <3>2. CASE k2.pc = "complete"
      BY <1>0, <1>11, <2>1, <2>2, <2>3, <3>2, HandlerGoes DEF Told
    <3>3. CASE k2.pc \notin {"store", "complete"}
      <4>1. k2.pc # "find"
        BY <1>0, <1>11, HandlerGoes
      <4> QED BY <3>3, <4>1 DEF Told
    <3> QED BY <3>1, <3>2, <3>3
  <2>5. \A v \in Withdrawals : payment'[v].status = "COMPLETED" =>
               \/ payment[v].status = "COMPLETED"
               \/ \E i \in 1..Len(transfers'[v]) : transfers'[v][i].outcome \in Out
    <3>1. /\ \A v \in Withdrawals : v # w => payment'[v] = payment[v]
          /\ \/ payment'[w].status \in {payment[w].status, "FAILED", "PROCESSING"}
             \/ k.pc = "complete"
      BY <1>0, <1>11, <2>1, HandleRow
    <3>2. k.pc = "complete" => transfers'[w][k.id].outcome \in Out
      BY <2>3 DEF Told
    <3> QED BY <2>3, <3>1, <3>2
  <2> QED BY <1>5, <2>2, <2>4, <2>5
<1> QED BY <1>7, <1>8, <1>9, <1>10, <1>11 DEF Next

-----------------------------------------------------------------------------
LEMMA InitiateClear ==
  ASSUME IInv, Quiet, Clear, NEW w \in Withdrawals, Initiate(w)
  PROVE  Clear'
<1> DEFINE l == transfers[w]
           p == payment[w]
<1>1. /\ TInv /\ TypeOK /\ p \in Payment /\ Len(l) \in Nat
      /\ Consistent(init[w], p, l)
      /\ "lost" \notin faults /\ "publish" \notin faults
      /\ Ended(init[w], p, l) /\ Latest(init[w], p, l, w)
  BY RowFacts DEF IInv, Quiet, Clear, TypeOK
<1>2. \A pc : Goto(w, pc) => /\ init'[w] = pc
                             /\ \A v \in Withdrawals : v # w => init'[v] = init[v]
  BY <1>1 DEF TypeOK, Goto
<1>3. UNCHANGED callback
  BY DEF Initiate, VerifyWithdrawalOtp, CheckDailyLimit, ReserveWalletFunds,
         CreatePayment, B2cTransfer, RecordConversation, PublishInitiated,
         ReleaseOnFailure, InitiationFails
<1>4. ASSUME NEW c \in Callbacks, Of(c) = w
      PROVE  /\ Informed(callback[c], p, l) /\ Ending(callback[c], p, l)
             /\ Len(l) = 0 => callback[c].pc = "idle"
             /\ Len(l) = 0 => Ending(callback[c], payment'[w], transfers'[w])
  <2>1. Informed(callback[c], p, l) /\ Ending(callback[c], p, l)
    BY <1>4 DEF IInv, Clear
  <2>2. Len(l) = 0 => callback[c].pc = "idle"
    BY <2>1 DEF Informed
  <2>3. Len(l) = 0 => Ending(callback[c], payment'[w], transfers'[w])
    BY <2>2 DEF Ending
  <2> QED BY <2>1, <2>2, <2>3
<1>5. ASSUME \A v \in Withdrawals : v # w => /\ init'[v] = init[v] /\ payment'[v] = payment[v]
                                             /\ transfers'[v] = transfers[v],
             Ended(init'[w], payment'[w], transfers'[w]),
             Latest(init'[w], payment'[w], transfers'[w], w),
             \A c \in Callbacks : Of(c) = w => Ending(callback[c], payment'[w], transfers'[w])
      PROVE  Clear'
  <2>1. ASSUME NEW v \in Withdrawals
        PROVE  Ended(init'[v], payment'[v], transfers'[v])
    <3>1. CASE v = w
      BY <1>5, <3>1
    <3>2. CASE v # w
      BY <1>5, <3>2 DEF Clear
    <3> QED BY <3>1, <3>2
  <2>2. ASSUME NEW v \in Withdrawals
        PROVE  \/ payment'[v].conversationId = Len(transfers'[v])
               \/ init'[v] = "record"
               \/ \E c \in Callbacks : callback'[c].of = v /\ callback'[c].pc = "record"
    <3>1. CASE v = w
      BY <1>3, <1>5, <3>1 DEF Latest, Of
    <3>2. CASE v # w
      <4>1. Latest(init[v], payment[v], transfers[v], v)
        BY DEF Clear
      <4> QED BY <1>3, <1>5, <3>2, <4>1 DEF Latest, Of
    <3> QED BY <3>1, <3>2
  <2>3. ASSUME NEW c \in Callbacks
        PROVE  Ending(callback'[c], payment'[callback'[c].of], transfers'[callback'[c].of])
    <3>1. /\ Ending(callback[c], payment[Of(c)], transfers[Of(c)])
          /\ callback'[c] = callback[c] /\ callback[c].of = Of(c) /\ Of(c) \in Withdrawals
      BY <1>1, <1>3, RowFacts DEF Clear
    <3> QED BY <1>5, <3>1
  <2> QED BY <2>1, <2>2, <2>3 DEF Clear, Latest, Of
<1>6. ASSUME UNCHANGED transfers,
             payment'[w].conversationId = p.conversationId,
             init[w] # "record",
             \A v \in Withdrawals : v # w => init'[v] = init[v] /\ payment'[v] = payment[v],
             Ended(init'[w], payment'[w], transfers'[w]),
             \/ payment'[w] = p
             \/ Len(l) = 0
      PROVE  Clear'
  <2>1. Latest(init'[w], payment'[w], transfers'[w], w)
    BY <1>1, <1>6 DEF Latest
  <2>2. \A c \in Callbacks : Of(c) = w => Ending(callback[c], payment'[w], transfers'[w])
    BY <1>4, <1>6
  <2> QED BY <1>5, <1>6, <2>1, <2>2
<1>7. CASE \/ VerifyWithdrawalOtp(w) \/ CheckDailyLimit(w) \/ ReserveWalletFunds(w)
           \/ PublishInitiated(w) \/ ReleaseOnFailure(w)
  <2>1. /\ UNCHANGED <<payment, transfers>> /\ init[w] # "record"
        /\ \/ init[w] \in NotAsked /\ init'[w] \in NotAsked
           \/ init[w] = "release" /\ init'[w] = "fail"
           \/ init'[w] \in {"rejected", "done"}
        /\ \A v \in Withdrawals : v # w => init'[v] = init[v]
    BY <1>1, <1>2, <1>7 DEF VerifyWithdrawalOtp, CheckDailyLimit, ReserveWalletFunds,
            PublishInitiated, ReleaseOnFailure, At, NotAsked
  <2>2. Ended(init'[w], p, l)
    BY <1>1, <2>1 DEF Ended, NotAsked
  <2> QED BY <1>6, <2>1, <2>2
<1>8. CASE CreatePayment(w) \/ InitiationFails(w)
  <2>1. /\ UNCHANGED transfers /\ init[w] # "record" /\ Len(l) = 0
        /\ \/ /\ init[w] \in NotAsked /\ init'[w] \in NotAsked
              /\ SetRow(w, [p EXCEPT !.status = "INITIATED"])
           \/ init'[w] = "rejected" /\ UNCHANGED payment
           \/ init'[w] = "failed" /\ SetRow(w, [p EXCEPT !.status = "FAILED"])
        /\ \A v \in Withdrawals : v # w => init'[v] = init[v]
    BY <1>1, <1>2, <1>8 DEF CreatePayment, InitiationFails, At, NotAsked, Ended, Consistent
  <2>2. /\ [p EXCEPT !.status = "INITIATED"].status = "INITIATED"
        /\ [p EXCEPT !.status = "INITIATED"].conversationId = p.conversationId
        /\ [p EXCEPT !.status = "FAILED"].status = "FAILED"
        /\ [p EXCEPT !.status = "FAILED"].conversationId = p.conversationId
    BY <1>1, RowFields
  <2>3. /\ payment'[w].conversationId = p.conversationId
        /\ \A v \in Withdrawals : v # w => payment'[v] = payment[v]
        /\ init'[w] \in NotAsked => payment'[w].status = "INITIATED"
    BY <1>1, <2>1, <2>2, SetRowStep DEF NotAsked
  <2>4. Ended(init'[w], payment'[w], l)
    BY <1>1, <2>1, <2>3 DEF Ended, Over
  <2> QED BY <1>6, <2>1, <2>3, <2>4
<1>9. CASE B2cTransfer(w)
  <2>1. /\ UNCHANGED payment /\ init[w] = "transfer" /\ Len(l) = 0 /\ p.status # "FAILED"
        /\ p.conversationId = NoId
    BY <1>1, <1>9 DEF B2cTransfer, At, NotAsked, Ended, Consistent
  <2>2. CASE Goto(w, "release") /\ UNCHANGED transfers
    <3>1. Ended(init'[w], p, l)
      BY <1>1, <1>2, <2>1, <2>2 DEF Ended, NotAsked
    <3> QED BY <1>2, <1>6, <2>1, <2>2, <3>1
  <2>3. CASE Goto(w, "record") /\ AskTransfer(w)
    <3>1. /\ Len(transfers'[w]) = 1 /\ transfers'[w][1].outcome = "pending"
          /\ \A v \in Withdrawals : v # w => transfers'[v] = transfers[v]
      <4>1. /\ Len(transfers'[w]) = Len(l) + 1
            /\ transfers'[w][Len(l) + 1].outcome = "pending"
            /\ \A v \in Withdrawals : v # w => transfers'[v] = transfers[v]
        BY <1>1, <2>3, AskStep
      <4> QED BY <2>1, <4>1
    <3>2. Ended(init'[w], payment'[w], transfers'[w])
      <4>1. \A i \in 1..Len(transfers'[w]) : i = 1
        BY <3>1
      <4> QED BY <1>2, <2>1, <2>3, <3>1, <4>1 DEF Ended, NotAsked
    <3>3. Latest(init'[w], payment'[w], transfers'[w], w)
      BY <1>2, <2>3 DEF Latest
    <3> QED BY <1>2, <1>4, <1>5, <2>1, <2>3, <3>1, <3>2, <3>3
  <2> QED BY <1>1, <1>9, <2>2, <2>3 DEF B2cTransfer
<1>10. CASE RecordConversation(w)
  <2>1. /\ UNCHANGED transfers /\ Len(l) = 1 /\ p.conversationId = NoId
        /\ SetRow(w, [p EXCEPT !.status = "PROCESSING", !.conversationId = 1])
        /\ init'[w] = "publish" /\ \A v \in Withdrawals : v # w => init'[v] = init[v]
    BY <1>1, <1>2, <1>10 DEF RecordConversation, At, Consistent
  <2>2. /\ payment'[w].status = "PROCESSING" /\ payment'[w].conversationId = 1
        /\ \A v \in Withdrawals : v # w => payment'[v] = payment[v]
    <3>1. PICK q : q = [p EXCEPT !.status = "PROCESSING", !.conversationId = 1]
      OBVIOUS
    <3>2. q.status = "PROCESSING" /\ q.conversationId = 1
      BY <1>1, <3>1, RowFields
    <3> QED BY <1>1, <2>1, <3>1, <3>2, SetRowStep
  <2>3. Ended(init'[w], payment'[w], transfers'[w])
    BY <1>1, <2>1, <2>2 DEF Ended, NotAsked
  <2>4. Latest(init'[w], payment'[w], transfers'[w], w)
    BY <2>1, <2>2 DEF Latest
  <2>5. ASSUME NEW c \in Callbacks, Of(c) = w
        PROVE  Ending(callback[c], payment'[w], transfers'[w])
    <3>1. Informed(callback[c], p, l) /\ Ending(callback[c], p, l)
      BY <1>4, <2>5
    <3>2. callback[c].pc \notin {"store", "fail", "count_retry", "transfer", "record"}
      BY <2>1, <3>1 DEF Informed, Ending
    <3> QED BY <3>2 DEF Ending
  <2> QED BY <1>5, <2>1, <2>2, <2>3, <2>4, <2>5
<1> QED BY <1>7, <1>8, <1>9, <1>10 DEF Initiate

LEMMA DecideClear ==
  ASSUME IInv, Quiet, Clear, NEW w \in Withdrawals, NEW i \in 1..Len(transfers[w]), Decide(w, i)
  PROVE  Clear'
<1>1. /\ UNCHANGED <<init, payment, callback>>
      /\ \A v \in Withdrawals : Len(transfers'[v]) = Len(transfers[v])
      /\ \A v \in Withdrawals : v # w => transfers'[v] = transfers[v]
      /\ \A j \in 1..Len(transfers[w]) : j # i => transfers'[w][j] = transfers[w][j]
      /\ TInv
  BY DecideStep DEF Decide, IInv
<1>2. transfers[w][i].outcome = "pending" /\ transfers'[w][i].outcome # "late"
  <2>1. PICK o \in {"timeout", "paid", "refused"} :
          /\ transfers[w][i].outcome = "pending"
          /\ SetTransfer(w, i, [transfers[w][i] EXCEPT !.outcome = o])
    BY DEF Decide, Quiet
  <2> DEFINE t == [transfers[w][i] EXCEPT !.outcome = o]
  <2>2. transfers[w][i] \in Transfer
    BY <1>1, RowFacts
  <2>3. t \in Transfer /\ t.outcome = o
    BY <2>2 DEF Transfer
  <2>4. SetTransfer(w, i, t)
    BY <2>1
  <2> HIDE DEF t
  <2>5. transfers'[w][i] = t
    BY <1>1, <2>3, <2>4, SetTransferStep
  <2> QED BY <2>1, <2>3, <2>5
<1>3. ASSUME NEW v \in Withdrawals, NEW q, Over(q, transfers[v])
      PROVE  transfers'[v] = transfers[v]
  <2>1. v # w
    BY <1>2, <1>3 DEF Over
  <2> QED BY <1>1, <2>1
<1>4. ASSUME NEW v \in Withdrawals PROVE Ended(init'[v], payment'[v], transfers'[v])
  <2>1. Ended(init[v], payment[v], transfers[v])
    BY DEF Clear
  <2>2. \A j \in 1..Len(transfers'[v]) : transfers'[v][j].outcome # "late"
    BY <1>1, <1>2, <2>1 DEF Ended
  <2>3. payment[v].status = "FAILED" => Over(payment[v], transfers'[v])
    <3>1. SUFFICES ASSUME payment[v].status = "FAILED"
                   PROVE  Over(payment[v], transfers'[v])
      OBVIOUS
    <3>2. Over(payment[v], transfers[v])
      BY <2>1, <3>1 DEF Ended
    <3>3. transfers'[v] = transfers[v]
      BY <1>3, <3>2
    <3> QED BY <3>2, <3>3
  <2> QED BY <1>1, <2>1, <2>2, <2>3 DEF Ended
<1>5. \A v \in Withdrawals : \/ payment'[v].conversationId = Len(transfers'[v])
                             \/ init'[v] = "record"
                             \/ \E c \in Callbacks : callback'[c].of = v
                                                     /\ callback'[c].pc = "record"
  BY <1>1 DEF Clear, Latest, Of
<1>6. ASSUME NEW c \in Callbacks
      PROVE  Ending(callback'[c], payment'[callback'[c].of], transfers'[callback'[c].of])
  <2>1. /\ Ending(callback[c], payment[Of(c)], transfers[Of(c)])
        /\ callback[c].of = Of(c) /\ Of(c) \in Withdrawals
    BY <1>1, RowFacts DEF Clear
  <2>2. Over(payment[Of(c)], transfers[Of(c)]) => Over(payment[Of(c)], transfers'[Of(c)])
    <3>1. SUFFICES ASSUME Over(payment[Of(c)], transfers[Of(c)])
                   PROVE  Over(payment[Of(c)], transfers'[Of(c)])
      OBVIOUS
    <3>2. transfers'[Of(c)] = transfers[Of(c)]
      BY <1>3, <2>1, <3>1
    <3> QED BY <3>1, <3>2
  <2> QED BY <1>1, <2>1, <2>2 DEF Ending
<1> QED BY <1>4, <1>5, <1>6 DEF Clear, Latest, Of

LEMMA CallBackClear ==
  ASSUME IInv, Clear, NEW w \in Withdrawals, NEW i \in 1..Len(transfers[w]),
         NEW c \in Callbacks, CallBack(c, w, i)
  PROVE  Clear'
<1>1. /\ UNCHANGED <<init, payment>> /\ TInv
      /\ \A v \in Withdrawals : Len(transfers'[v]) = Len(transfers[v])
      /\ \A v \in Withdrawals : \A j \in 1..Len(transfers[v]) :
           transfers'[v][j].outcome = transfers[v][j].outcome
      /\ callback'[c].pc = "find" /\ callback'[c].of = w
  <2>1. UNCHANGED <<init, payment>> /\ TInv
    BY DEF CallBack, IInv
  <2> QED BY <2>1, CallBackStep
<1>2. callback[c].pc = "idle" /\ \A d \in Callbacks : d # c => callback'[d] = callback[d]
  BY <1>1, CallBackSays
<1>3. \A v \in Withdrawals : payment[v].conversationId \in Nat /\ Len(transfers[v]) \in Nat
                             /\ payment[v].conversationId <= Len(transfers[v])
  BY StateFacts DEF IInv, Consistent
<1>4. ASSUME NEW v \in Withdrawals, Over(payment[v], transfers[v])
      PROVE  Over(payment[v], transfers'[v])
  <2>1. \/ payment[v].conversationId = 0
        \/ payment[v].conversationId \in 1..Len(transfers[v])
    BY <1>3
  <2>2. CASE payment[v].conversationId \in 1..Len(transfers[v])
    BY <1>1, <1>4, <2>2 DEF Over
  <2>3. CASE payment[v].retryCount > 0 \/ Len(transfers[v]) = 0
    BY <1>1, <1>4, <2>3 DEF Over
  <2> QED BY <1>4, <2>1, <2>2, <2>3 DEF Over, NoId
<1>5. ASSUME NEW v \in Withdrawals PROVE Ended(init'[v], payment'[v], transfers'[v])
  <2>1. Ended(init[v], payment[v], transfers[v])
    BY DEF Clear
  <2> QED BY <1>1, <1>4, <2>1 DEF Ended
<1>6. ASSUME NEW v \in Withdrawals
      PROVE  \/ payment'[v].conversationId = Len(transfers'[v])
             \/ init'[v] = "record"
             \/ \E d \in Callbacks : callback'[d].of = v /\ callback'[d].pc = "record"
  <2>1. Latest(init[v], payment[v], transfers[v], v)
    BY DEF Clear
  <2> QED BY <1>1, <1>2, <2>1 DEF Latest, Of
<1>7. ASSUME NEW d \in Callbacks
      PROVE  Ending(callback'[d], payment'[callback'[d].of], transfers'[callback'[d].of])
  <2>1. CASE d = c
    BY <1>1, <2>1 DEF Ending
  <2>2. CASE d # c
    <3>1. /\ Ending(callback[d], payment[Of(d)], transfers[Of(d)])
          /\ callback'[d] = callback[d] /\ callback[d].of = Of(d) /\ Of(d) \in Withdrawals
      BY <1>1, <1>2, <2>2, RowFacts DEF Clear
    <3> QED BY <1>1, <1>4, <3>1 DEF Ending
  <2> QED BY <2>1, <2>2
<1> QED BY <1>5, <1>6, <1>7 DEF Clear, Latest, Of

(* The only handler fails a withdrawal after the end of its last transfer,  *)
(* and asks no further transfer for one that has failed.                    *)
LEMMA HandleClear ==
  ASSUME OneHandler, IInv, Truth, Quiet, Clear, NEW c \in Callbacks, HandleCallback(c)
  PROVE  Clear'
<1> DEFINE k == callback[c]
           k2 == callback'[c]
<1>0. PICK w \in Withdrawals : w = Of(c)
  BY RowFacts DEF IInv
<1> DEFINE p == payment[w]
           l == transfers[w]
<1>1. /\ TInv /\ TypeOK /\ p \in Payment /\ Len(l) \in Nat /\ k.of = w
      /\ p.retryCount \in Nat /\ p.conversationId \in Nat
      /\ Consistent(init[w], p, l) /\ Informed(k, p, l)
      /\ Ended(init[w], p, l) /\ Latest(init[w], p, l, w) /\ Ending(k, p, l)
      /\ \A d \in Callbacks : d = c
      /\ "lost" \notin faults
  BY <1>0, RowFacts, StateFacts DEF IInv, Quiet, Clear, OneHandler
<1>2. /\ UNCHANGED init /\ k.pc # "idle"
      /\ \A v \in Withdrawals : v # w => payment'[v] = payment[v]
                                         /\ transfers'[v] = transfers[v]
      /\ k2.pc = "idle" \/ k2.of = w
  BY <1>0, <1>1, HandleStep, HandleRow
<1>3. k.id \in 1..Len(l) /\ Len(l) > 0
  BY <1>1, <1>2 DEF Informed
<1>4. init[w] \notin NotAsked \cup {"release", "fail", "failed"}
  BY <1>1, <1>3 DEF Ended, Consistent
<1>5. ASSUME Ended(init[w], payment'[w], transfers'[w]),
             \/ payment'[w].conversationId = Len(transfers'[w])
             \/ init[w] = "record"
             \/ k2.pc = "record",
             k2.pc = "idle" \/ Ending(k2, payment'[w], transfers'[w])
      PROVE  Clear'
  <2>1. ASSUME NEW v \in Withdrawals PROVE Ended(init'[v], payment'[v], transfers'[v])
    <3>1. CASE v = w
      BY <1>2, <1>5, <3>1
    <3>2. CASE v # w
      BY <1>2, <3>2 DEF Clear
    <3> QED BY <3>1, <3>2
  <2>2. ASSUME NEW v \in Withdrawals
        PROVE  \/ payment'[v].conversationId = Len(transfers'[v])
               \/ init'[v] = "record"
               \/ \E d \in Callbacks : callback'[d].of = v /\ callback'[d].pc = "record"
    <3>1. CASE v = w
      BY <1>2, <1>5, <3>1
    <3>2. CASE v # w
      <4>1. Latest(init[v], payment[v], transfers[v], v)
        BY DEF Clear
      <4>2. payment[v].conversationId = Len(transfers[v]) \/ init[v] = "record"
        BY <1>0, <1>1, <3>2, <4>1 DEF Latest
      <4> QED BY <1>2, <3>2, <4>2
    <3> QED BY <3>1, <3>2
  <2>3. ASSUME NEW d \in Callbacks
        PROVE  Ending(callback'[d], payment'[callback'[d].of], transfers'[callback'[d].of])
    <3>1. d = c
      BY <1>1
    <3>2. CASE k2.pc = "idle"
      BY <3>1, <3>2 DEF Ending
    <3> QED BY <1>2, <1>5, <3>1, <3>2
  <2> QED BY <2>1, <2>2, <2>3 DEF Clear, Latest, Of
<1>6. k.pc # "record" => p.conversationId = Len(l) \/ init[w] = "record"
  BY <1>1 DEF Latest
(* The last transfer of the withdrawal ended for good or timed out again. *)
<1>7. ASSUME k.pc = "store",
             \/ k.kind = "result" /\ k.paid = FALSE /\ l[k.id].outcome = "refused"
             \/ k.kind = "timeout" /\ ~RetriesLeft(c)
      PROVE  p.conversationId # NoId /\ Over(p, l)
  <2>1. /\ p.conversationId # NoId /\ k.id = p.conversationId
        /\ p.conversationId = Len(l) /\ Len(l) <= 2
    BY <1>1, <1>6, <1>7 DEF Informed, Ending, Consistent
  <2>2. \A i \in 1..Len(l) : l[i].outcome # "late"
    BY <1>1 DEF Ended
  <2>3. l[Len(l)].outcome \in {"timeout", "refused"}
    <3>1. CASE k.kind = "timeout"
      <4>1. l[k.id].outcome \in GivenUp
        BY <1>1, <1>7, <3>1 DEF Informed
      <4> QED BY <1>3, <2>1, <2>2, <4>1 DEF GivenUp
    <3> QED BY <1>7, <2>1, <3>1
  <2>4. Len(l) = 2 => l[1].outcome = "timeout"
    BY <1>1, <1>3, <2>2 DEF Consistent, GivenUp
  <2>5. \A i \in 1..Len(l) : l[i].outcome \in {"timeout", "refused"}
    <3>1. PICK n \in Nat : n = Len(l) /\ n <= 2
      BY <1>1, <2>1
    <3>2. \A i \in 1..n : i = n \/ (n = 2 /\ i = 1)
      <4>1. \A m \in Nat : m <= 2 => \A i \in 1..m : i = m \/ (m = 2 /\ i = 1)
        OBVIOUS
      <4> QED BY <3>1, <4>1
    <3> QED BY <2>3, <2>4, <3>1, <3>2
  <2>6. p.retryCount > 0 \/ l[p.conversationId].outcome = "refused"
    <3>1. CASE k.kind = "timeout" /\ ~RetriesLeft(c)
      BY <1>1, <1>7, <3>1 DEF RetriesLeft, Informed
    <3> QED BY <1>7, <2>1, <3>1
  <2> QED BY <2>1, <2>5, <2>6 DEF Over
<1>8. CASE k.pc \notin {"transfer", "complete", "fail", "count_retry", "record"}
  <2>1. UNCHANGED <<payment, transfers>>
    BY <1>1, <1>8, HandlerGoes
  <2>2. Ending(k2, p, l)
    <3>1. CASE k2.pc = "store"
      BY <1>0, <1>1, <3>1, HandlerGoes DEF Ending
    <3>2. CASE k2.pc = "fail"
      <4>1. /\ k.pc = "store"
            /\ \/ k.kind = "result" /\ k.paid = FALSE
               \/ k.kind = "timeout" /\ ~RetriesLeft(c)
        BY <1>1, <1>8, <3>2, HandlerGoes
      <4>2. k.kind = "result" /\ k.paid = FALSE => l[k.id].outcome = "refused"
        BY <1>0, <4>1 DEF Told, Truth
      <4> QED BY <1>7, <3>2, <4>1, <4>2 DEF Ending
    <3>3. CASE k2.pc = "count_retry"
      <4>1. k.pc = "store" /\ k.kind = "timeout" /\ RetriesLeft(c)
        BY <1>1, <3>3, HandlerGoes
      <4>2. p.retryCount = 0 /\ l[k.id].outcome \in GivenUp /\ k.id = p.conversationId
        BY <1>1, <4>1 DEF Informed, Ending, RetriesLeft
      <4>3. p.status # "FAILED"
        BY <1>1, <1>3, <4>2 DEF Ended, Over, GivenUp
      <4> QED BY <3>3, <4>3 DEF Ending
    <3>4. k2.pc \notin {"transfer", "record"}
      BY <1>1, <1>8, HandlerGoes
    <3> QED BY <3>1, <3>2, <3>3, <3>4 DEF Ending
  <2> QED BY <1>1, <1>5, <1>6, <1>8, <2>1, <2>2
<1>9. CASE k.pc = "complete"
  <2>1. Complete(c)
    BY <1>9 DEF HandleCallback, FindPayment, StoreCallback, Complete, DebitWalletFunds,
           IncrementDailyLimit, PublishOutcome, Fail, ReleaseAfterFailure, CountRetry,
           RetryTransfer, RecordRetry, OnCall
  <2>2. /\ UNCHANGED transfers /\ payment'[w].status = "COMPLETED"
        /\ payment'[w].conversationId = p.conversationId
    <3>1. SetRow(w, [p EXCEPT !.status = "COMPLETED"]) /\ UNCHANGED transfers
      BY <1>0, <2>1 DEF Complete
    <3>2. PICK q : q = [p EXCEPT !.status = "COMPLETED"]
      OBVIOUS
    <3>3. q.status = "COMPLETED" /\ q.conversationId = p.conversationId
      BY <1>1, <3>2, RowFields
    <3> QED BY <1>1, <3>1, <3>2, <3>3, SetRowStep
  <2>3. k2.pc \notin {"store", "fail", "count_retry", "transfer", "record"}
    BY <1>1, <1>9, HandlerGoes
  <2>4. Ended(init[w], payment'[w], transfers'[w])
    BY <1>1, <2>2 DEF Ended
  <2> QED BY <1>5, <1>6, <1>9, <2>2, <2>3, <2>4 DEF Ending
<1>10. CASE k.pc = "fail"
  <2>1. Fail(c)
    BY <1>10 DEF HandleCallback, FindPayment, StoreCallback, Complete, DebitWalletFunds,
           IncrementDailyLimit, PublishOutcome, Fail, ReleaseAfterFailure, CountRetry,
           RetryTransfer, RecordRetry, OnCall
  <2>2. /\ UNCHANGED transfers /\ payment'[w].status = "FAILED"
        /\ payment'[w].conversationId = p.conversationId
        /\ payment'[w].retryCount = p.retryCount
    <3>1. SetRow(w, [p EXCEPT !.status = "FAILED"]) /\ UNCHANGED transfers
      BY <1>0, <2>1 DEF Fail
    <3>2. PICK q : q = [p EXCEPT !.status = "FAILED"]
      OBVIOUS
    <3>3. q.status = "FAILED" /\ q.conversationId = p.conversationId /\ q.retryCount = p.retryCount
      BY <1>1, <3>2, RowFields
    <3> QED BY <1>1, <3>1, <3>2, <3>3, SetRowStep
  <2>3. Over(payment'[w], l)
    BY <1>1, <1>10, <2>2 DEF Ending, Over
  <2>4. k2.pc \notin {"store", "fail", "count_retry", "transfer", "record"}
    BY <1>1, <1>10, HandlerGoes
  <2>5. Ended(init[w], payment'[w], transfers'[w])
    BY <1>1, <1>4, <2>2, <2>3 DEF Ended
  <2> QED BY <1>5, <1>6, <1>10, <2>2, <2>4, <2>5 DEF Ending
<1>11. CASE k.pc = "count_retry"
  <2>1. CountRetry(c) /\ p.status # "FAILED"
    <3>1. p.status # "FAILED"
      BY <1>1, <1>11 DEF Ending
    <3> QED BY <1>11, <3>1
        DEF HandleCallback, FindPayment, StoreCallback, Complete, DebitWalletFunds,
            IncrementDailyLimit, PublishOutcome, Fail, ReleaseAfterFailure, CountRetry,
            RetryTransfer, RecordRetry, OnCall
  <2>2. /\ UNCHANGED transfers /\ payment'[w].status = p.status
        /\ payment'[w].conversationId = p.conversationId
    <3>1. PICK n : n = p.retryCount + 1
      OBVIOUS
    <3>2. SetRow(w, [p EXCEPT !.retryCount = n]) /\ UNCHANGED transfers
      BY <1>0, <2>1, <3>1 DEF CountRetry
    <3>3. PICK q : q = [p EXCEPT !.retryCount = n]
      OBVIOUS
    <3>4. q.status = p.status /\ q.conversationId = p.conversationId
      BY <1>1, <3>3, RowFields
    <3> QED BY <1>1, <3>2, <3>3, <3>4, SetRowStep
  <2>3. k2.pc \notin {"store", "fail", "count_retry", "record"}
    BY <1>1, <1>11, HandlerGoes
  <2>4. Ended(init[w], payment'[w], transfers'[w])
    BY <1>1, <2>1, <2>2 DEF Ended
  <2> QED BY <1>5, <1>6, <1>11, <2>1, <2>2, <2>3, <2>4 DEF Ending
<1>12. CASE k.pc = "transfer"
  <2>1. UNCHANGED payment /\ p.status # "FAILED"
    BY <1>1, <1>12, HandlerGoes DEF Ending
  <2>2. /\ Len(l) = 1 /\ l[1].outcome \in GivenUp /\ p.conversationId # NoId
        /\ p.retryCount > 0
    BY <1>1, <1>12 DEF Informed
  <2>3. RetryTransfer(c)
    BY <1>12 DEF HandleCallback, FindPayment, StoreCallback, Complete, DebitWalletFunds,
           IncrementDailyLimit, PublishOutcome, Fail, ReleaseAfterFailure, CountRetry,
           RetryTransfer, RecordRetry, OnCall
  <2>4. CASE UNCHANGED transfers
    <3>1. Over(p, l)
      <4>1. \A i \in 1..Len(l) : i = 1
        BY <2>2
      <4>2. l[1].outcome # "late"
        BY <1>1, <2>2 DEF Ended
      <4> QED BY <2>2, <4>1, <4>2 DEF Over, GivenUp
    <3>2. k2.pc \notin {"store", "count_retry", "transfer"}
      BY <1>1, <1>12, HandlerGoes
    <3>3. k2.pc # "record"
      <4>1. AskTransfer(w) => Len(transfers'[w]) = Len(l) + 1
        BY <1>1, AskStep
      <4>2. ~AskTransfer(w)
        BY <1>1, <2>4, <4>1
      <4> QED BY <1>0, <1>1, <4>2, HandlerGoes
    <3>4. Ending(k2, payment'[w], transfers'[w])
      BY <2>1, <2>2, <2>4, <3>1, <3>2, <3>3 DEF Ending
    <3> QED BY <1>1, <1>5, <1>6, <1>12, <2>1, <2>4, <3>4
  <2>5. CASE AskTransfer(w) /\ k2.pc = "record"
    <3>1. /\ Len(transfers'[w]) = Len(l) + 1
          /\ transfers'[w][Len(l) + 1].outcome = "pending"
          /\ \A i \in 1..Len(l) : transfers'[w][i] = l[i]
      BY <1>1, <2>5, AskStep
    <3>2. k2.id = Len(transfers'[w])
      BY <1>0, <1>1, <2>5, <3>1, HandlerGoes
    <3>3. Ending(k2, payment'[w], transfers'[w])
      BY <2>1, <2>5, <3>2 DEF Ending
    <3>4. \A i \in 1..Len(transfers'[w]) : transfers'[w][i].outcome # "late"
      <4>1. Len(transfers'[w]) = 2 /\ transfers'[w][2].outcome = "pending"
            /\ transfers'[w][1] = l[1] /\ l[1].outcome # "late"
        BY <1>1, <2>2, <3>1 DEF Ended
      <4>2. \A i \in 1..2 : i = 1 \/ i = 2
        OBVIOUS
      <4> QED BY <4>1, <4>2
    <3>5. Ended(init[w], payment'[w], transfers'[w])
      BY <1>4, <2>1, <3>4 DEF Ended
    <3> QED BY <1>5, <2>5, <3>3, <3>5
  <2>6. \/ UNCHANGED transfers
        \/ AskTransfer(w) /\ k2.pc = "record"
    <3>1. CASE callback' = [callback EXCEPT ![c] =
                              [k EXCEPT !.pc = "record", !.id = Len(transfers[Of(c)]) + 1]]
      <4> DEFINE n == Len(transfers[Of(c)]) + 1
      <4> HIDE DEF n
      <4>1. k2 = [k EXCEPT !.pc = "record", !.id = n] /\ k \in Callback
        BY <1>1, <3>1, RowFacts DEF TypeOK, n
      <4>2. k2.pc = "record"
        BY <4>1 DEF Callback
      <4> QED BY <1>0, <2>3, <4>2 DEF RetryTransfer
    <3> QED BY <1>0, <1>1, <2>3, <3>1 DEF RetryTransfer
  <2> QED BY <2>4, <2>5, <2>6
<1>13. CASE k.pc = "record"
  <2>1. RecordRetry(c)
    BY <1>13 DEF HandleCallback, FindPayment, StoreCallback, Complete, DebitWalletFunds,
           IncrementDailyLimit, PublishOutcome, Fail, ReleaseAfterFailure, CountRetry,
           RetryTransfer, RecordRetry, OnCall
  <2>2. /\ UNCHANGED transfers /\ payment'[w].status = "PROCESSING"
        /\ payment'[w].conversationId = k.id
    <3>1. /\ SetRow(w, [p EXCEPT !.status = "PROCESSING", !.conversationId = k.id])
          /\ UNCHANGED transfers
      BY <1>0, <2>1 DEF RecordRetry
    <3>2. PICK q : q = [p EXCEPT !.status = "PROCESSING", !.conversationId = k.id]
      OBVIOUS
    <3>3. q.status = "PROCESSING" /\ q.conversationId = k.id
      BY <1>1, <3>2, RowFields
    <3> QED BY <1>1, <3>1, <3>2, <3>3, SetRowStep
  <2>3. k2.pc = "idle"
    BY <1>1, <2>1 DEF RecordRetry, End, TypeOK, Idle
  <2>4. k.id = Len(l)
    BY <1>1, <1>13 DEF Ending
  <2>5. Ended(init[w], payment'[w], transfers'[w])
    BY <1>1, <2>2 DEF Ended
  <2> QED BY <1>5, <2>2, <2>3, <2>4, <2>5
<1> QED BY <1>8, <1>9, <1>10, <1>11, <1>12, <1>13

LEMMA InitStatus == Init => SInv
<1> SUFFICES ASSUME Init PROVE SInv
  OBVIOUS
<1>1. /\ IInv
      /\ \A w \in Withdrawals : /\ init[w] = "idle" /\ Len(transfers[w]) = 0
                                /\ payment[w].status = "NONE"
                                /\ payment[w].conversationId = 0
      /\ \A c \in Callbacks : callback[c].pc = "idle"
  BY InitInv DEF Init, Idle, NoId
<1>2. Truth
  BY <1>1 DEF Truth, Told
<1>3. Clear
  BY <1>1 DEF Clear, Ended, Latest, Ending
<1> QED BY <1>1, <1>2, <1>3 DEF SInv

LEMMA NextStatus ==
  ASSUME OneHandler
  PROVE  SInv /\ [Next]_vars => SInv'
<1> SUFFICES ASSUME SInv, [Next]_vars PROVE SInv'
  OBVIOUS
<1>1. IInv /\ IInv' /\ Truth /\ Truth' /\ TInv
  BY NextInv, NextTruth DEF SInv, IInv
<1>2. ASSUME Quiet' PROVE Clear'
  <2>1. UNCHANGED faults
    BY <1>1, HandleStep
       DEF Next, vars, Decide, CallBack, Initiate, VerifyWithdrawalOtp, CheckDailyLimit,
           ReserveWalletFunds, CreatePayment, B2cTransfer, RecordConversation,
           PublishInitiated, ReleaseOnFailure, InitiationFails
  <2>2. Quiet /\ Clear
    BY <1>2, <2>1 DEF Quiet, SInv
  <2>3. CASE UNCHANGED vars
    BY <2>2, <2>3 DEF Clear, Latest, Of, vars
  <2> QED BY <1>1, <2>2, <2>3, InitiateClear, DecideClear, CallBackClear, HandleClear DEF Next
<1> QED BY <1>1, <1>2 DEF SInv

LEMMA StatusOfSInv == SInv => StatusIsTrue
<1> SUFFICES ASSUME SInv, NEW w \in Withdrawals
             PROVE  /\ payment[w].status = "COMPLETED" => Paid(w) # {}
                    /\ payment[w].status = "FAILED" /\ Quiet => Paid(w) \cup Pending(w) = {}
  BY DEF StatusIsTrue, Quiet
<1>1. payment[w].status = "COMPLETED" => Paid(w) # {}
  BY DEF SInv, Truth, Paid, WithOutcome, Out
<1>2. payment[w].status = "FAILED" /\ Quiet => Paid(w) \cup Pending(w) = {}
  <2> SUFFICES ASSUME payment[w].status = "FAILED", Quiet PROVE Paid(w) \cup Pending(w) = {}
    OBVIOUS
  <2>1. Over(payment[w], transfers[w])
    BY DEF SInv, Clear, Ended
  <2> QED BY <2>1 DEF Over, Paid, Pending, WithOutcome
<1> QED BY <1>1, <1>2

(* A completed withdrawal was paid; and as long as nothing is lost or late, *)
(* a failed one was not and is not going to be: for all numbers of          *)
(* withdrawals and transfers, when callbacks are handled one after the      *)
(* other.                                                                   *)
THEOREM StatusIsTrueHolds ==
  ASSUME OneHandler
  PROVE  Spec => []StatusIsTrue
<1>1. SInv /\ [Next]_vars => SInv'
  BY NextStatus
<1> QED BY <1>1, InitStatus, StatusOfSInv, PTL DEF Spec

=============================================================================
