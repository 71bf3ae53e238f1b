----------------------------- MODULE Withdrawal -----------------------------
(***************************************************************************)
(* Withdrawals in the payment service: initiateWithdrawal has the OTP      *)
(* verified, checks the daily limit, reserves the amount in the wallet and *)
(* asks M-Pesa for a B2C transfer, whose conversation id it then records.  *)
(* M-Pesa answers each transfer with a result or with a queue timeout; a   *)
(* first timeout is answered with a second transfer under a new id.        *)
(*                                                                         *)
(* Initiations and callbacks are handlers that run concurrently, one       *)
(* action per await; the wallet is one purse, changed atomically by its    *)
(* endpoints.  M-Pesa is the environment: it decides each transfer once,   *)
(* and its callback comes at any moment after that.                        *)
(*                                                                         *)
(* The faults of a behaviour are chosen once, one of FaultModels: M-Pesa   *)
(* "unreachable" or its answer "lost", a failed Kafka "publish", the       *)
(* "wallet" refusing or unreachable, a "database" that does not take the   *)
(* new payment, a "duplicate" callback, and a "late" transfer: one that    *)
(* M-Pesa reported as timed out is done after all.                         *)
(***************************************************************************)
EXTENDS Integers, Sequences, FiniteSets

CONSTANTS
  Withdrawals,     \* payments, all of one user on one day
  Callbacks,       \* handlers of callbacks that run at the same time
  Amount,          \* KES of each withdrawal
  OpeningBalance,  \* of the user's wallet
  DailyLimit,      \* of the user's KYC tier
  MaxTransfers,    \* bound: transfers asked for one withdrawal
  MaxCallbacks,    \* bound: callbacks sent for one transfer
  FaultModels      \* the sets of faults that behaviours may have

ASSUME WithdrawalAssumption ==
  /\ Amount \in Nat \ {0} /\ OpeningBalance \in Nat /\ DailyLimit \in Nat
  /\ MaxTransfers \in Nat \ {0} /\ MaxCallbacks \in Nat
  /\ Withdrawals # {}
  /\ FaultModels \subseteq SUBSET {"unreachable", "lost", "publish", "wallet",
                                   "database", "duplicate", "late"}

VARIABLES
  faults,     \* what may go wrong in this behaviour
  payment,    \* the payments table
  transfers,  \* M-Pesa: per withdrawal, its transfers by conversation id
  init,       \* where initiateWithdrawal is
  callback,   \* the callback handlers
  purse,      \* the wallet: balance and reserved part
  withdrawn   \* the daily limit tracker

vars == <<faults, payment, transfers, init, callback, purse, withdrawn>>

Final    == {"COMPLETED", "FAILED"}
Statuses == {"NONE", "INITIATED", "PROCESSING"} \cup Final
Ids      == 1..MaxTransfers
NoId     == 0
Payment  == [status: Statuses, conversationId: {NoId} \cup Ids, retryCount: Nat]
Transfer == [outcome: {"pending", "timeout", "paid", "refused", "late"},
             sent: 0..MaxCallbacks]
Idle     == [pc |-> "idle", kind |-> "result", paid |-> FALSE, id |-> NoId,
             of |-> CHOOSE w \in Withdrawals : TRUE,
             row |-> [status |-> "NONE", conversationId |-> NoId, retryCount |-> 0]]
Callback == [pc: {"idle", "find", "store", "complete", "debit", "count", "publish",
                  "count_retry", "transfer", "record", "fail", "release"},
             kind: {"result", "timeout"}, paid: BOOLEAN, id: {NoId} \cup Ids,
             of: Withdrawals, row: Payment]

TypeOK ==
  /\ faults \in FaultModels
  /\ payment \in [Withdrawals -> Payment]
  /\ transfers \in [Withdrawals -> Seq(Transfer)]
  /\ init \in [Withdrawals -> {"idle", "limit", "reserve", "create", "transfer",
                               "record", "publish", "release", "fail", "done",
                               "rejected", "failed"}]
  /\ callback \in [Callbacks -> Callback]
  /\ purse \in [balance: Int, reserved: Int]
  /\ withdrawn \in Nat

Init ==
  /\ faults \in FaultModels
  /\ payment = [w \in Withdrawals |-> Idle.row]
  /\ transfers = [w \in Withdrawals |-> <<>>]
  /\ init = [w \in Withdrawals |-> "idle"]
  /\ callback = [c \in Callbacks |-> Idle]
  /\ purse = [balance |-> OpeningBalance, reserved |-> 0]
  /\ withdrawn = 0

-----------------------------------------------------------------------------
(* The wallet's endpoints. *)
Available == purse.balance - purse.reserved
Reserve   == Available >= Amount /\ purse' = [purse EXCEPT !.reserved = @ + Amount]
Release   == purse' = [purse EXCEPT !.reserved = @ - Amount]
Debit     == Available >= Amount /\ purse' = [purse EXCEPT !.balance = @ - Amount]
Refused   == "wallet" \in faults \/ Available < Amount

(* releaseWalletFunds makes one attempt and swallows its failure. *)
ReleaseWalletFunds == Release \/ ("wallet" \in faults /\ UNCHANGED purse)

(* The transfer is known to M-Pesa by the position it has in the sequence. *)
AskTransfer(w) ==
  /\ Len(transfers[w]) < MaxTransfers
  /\ transfers' = [transfers EXCEPT ![w] =
                     Append(@, [outcome |-> "pending", sent |-> 0])]

-----------------------------------------------------------------------------
(* initiateWithdrawal.                                                     *)
At(w, pc)   == init[w] = pc
Goto(w, pc) == init' = [init EXCEPT ![w] = pc]
SetRow(w, row) == payment' = [payment EXCEPT ![w] = row]

(* The auth service has or has not verified the OTP. *)
VerifyWithdrawalOtp(w) ==
  /\ At(w, "idle")
  /\ Goto(w, "limit") \/ Goto(w, "rejected")
  /\ UNCHANGED <<faults, payment, transfers, callback, purse, withdrawn>>

CheckDailyLimit(w) ==
  /\ At(w, "limit")
  /\ Goto(w, IF withdrawn + Amount <= DailyLimit THEN "reserve" ELSE "rejected")
  /\ UNCHANGED <<faults, payment, transfers, callback, purse, withdrawn>>

ReserveWalletFunds(w) ==
  /\ At(w, "reserve")
  /\ \/ Reserve /\ Goto(w, "create")
     \/ Refused /\ Goto(w, "rejected") /\ UNCHANGED purse
  /\ UNCHANGED <<faults, payment, transfers, callback, withdrawn>>

(* The row is created before the try block that releases the reservation. *)
CreatePayment(w) ==
  /\ At(w, "create")
  /\ \/ SetRow(w, [payment[w] EXCEPT !.status = "INITIATED"]) /\ Goto(w, "transfer")
     \/ "database" \in faults /\ Goto(w, "rejected") /\ UNCHANGED payment
  /\ UNCHANGED <<faults, transfers, callback, purse, withdrawn>>

(* Mutant: a request whose answer is lost is sent again. *)
SendsAgain(w) ==
  /\ At(w, "transfer")
  /\ \/ AskTransfer(w) /\ Goto(w, "record")
     \/ "unreachable" \in faults /\ Goto(w, "release") /\ UNCHANGED transfers
     \/ "lost" \in faults /\ AskTransfer(w) /\ UNCHANGED init
  /\ UNCHANGED <<faults, payment, callback, purse, withdrawn>>

B2cTransfer(w) ==
  /\ At(w, "transfer")
  /\ \/ AskTransfer(w) /\ Goto(w, "record")
     \/ "unreachable" \in faults /\ Goto(w, "release") /\ UNCHANGED transfers
     \/ "lost" \in faults /\ AskTransfer(w) /\ Goto(w, "release")
  /\ UNCHANGED <<faults, payment, callback, purse, withdrawn>>

RecordConversation(w) ==
  /\ At(w, "record")
  /\ SetRow(w, [payment[w] EXCEPT !.status = "PROCESSING", !.conversationId = 1])
  /\ Goto(w, "publish")
  /\ UNCHANGED <<faults, transfers, callback, purse, withdrawn>>

(* WITHDRAWAL_INITIATED; its failure falls into the catch of the transfer. *)
PublishInitiated(w) ==
  /\ At(w, "publish")
  /\ \/ Goto(w, "done")
     \/ "publish" \in faults /\ Goto(w, "release")
  /\ UNCHANGED <<faults, payment, transfers, callback, purse, withdrawn>>

ReleaseOnFailure(w) ==
  /\ At(w, "release")
  /\ ReleaseWalletFunds
  /\ Goto(w, "fail")
  /\ UNCHANGED <<faults, payment, transfers, callback, withdrawn>>

InitiationFails(w) ==
  /\ At(w, "fail")
  /\ SetRow(w, [payment[w] EXCEPT !.status = "FAILED"])
  /\ Goto(w, "failed")
  /\ UNCHANGED <<faults, transfers, callback, purse, withdrawn>>

Initiate(w) ==
  \/ VerifyWithdrawalOtp(w) \/ CheckDailyLimit(w) \/ ReserveWalletFunds(w)
  \/ CreatePayment(w) \/ B2cTransfer(w) \/ RecordConversation(w)
  \/ PublishInitiated(w) \/ ReleaseOnFailure(w) \/ InitiationFails(w)

-----------------------------------------------------------------------------
(* M-Pesa.                                                                 *)
SetTransfer(w, i, t) ==
  transfers' = [transfers EXCEPT ![w] = [transfers[w] EXCEPT ![i] = t]]

Decide(w, i) ==
  /\ \/ /\ transfers[w][i].outcome = "pending"
        /\ \E outcome \in {"timeout", "paid", "refused"} :
             SetTransfer(w, i, [transfers[w][i] EXCEPT !.outcome = outcome])
     \/ /\ "late" \in faults
        /\ transfers[w][i].outcome = "timeout"
        /\ SetTransfer(w, i, [transfers[w][i] EXCEPT !.outcome = "late"])
  /\ UNCHANGED <<faults, payment, init, callback, purse, withdrawn>>

CallBack(c, w, i) ==
  LET t == transfers[w][i]
  IN  /\ callback[c].pc = "idle"
      /\ t.outcome # "pending"
      /\ t.sent < MaxCallbacks
      /\ t.sent = 0 \/ "duplicate" \in faults \/ t.outcome = "late"
      /\ SetTransfer(w, i, [t EXCEPT !.sent = @ + 1])
      /\ callback' = [callback EXCEPT ![c] =
           [Idle EXCEPT !.pc = "find", !.of = w, !.id = i,
                        !.kind = IF t.outcome = "timeout" THEN "timeout" ELSE "result",
                        !.paid = t.outcome \in {"paid", "late"}]]
      /\ UNCHANGED <<faults, payment, init, purse, withdrawn>>

-----------------------------------------------------------------------------
(* handleB2cResult and handleB2cTimeout.                                   *)
Of(c) == callback[c].of
OnCall(c, pc)   == callback[c].pc = pc
Continue(c, pc) == callback' = [callback EXCEPT ![c] = [callback[c] EXCEPT !.pc = pc]]
End(c)          == callback' = [callback EXCEPT ![c] = Idle]

FindPayment(c) ==
  /\ OnCall(c, "find")
  /\ \/ /\ payment[Of(c)].conversationId = callback[c].id
        /\ callback' = [callback EXCEPT ![c] =
             [callback[c] EXCEPT !.pc = "store", !.row = payment[Of(c)]]]
     \/ payment[Of(c)].conversationId # callback[c].id /\ End(c)
  /\ UNCHANGED <<faults, payment, transfers, init, purse, withdrawn>>

AlreadyProcessed(c) == callback[c].row.status \in Final
RetriesLeft(c)      == callback[c].row.retryCount < 1

(* Mutant: any result completes the withdrawal. *)
CompletesAnyResult(c) ==
  /\ OnCall(c, "store")
  /\ \/ AlreadyProcessed(c) /\ End(c)
     \/ ~AlreadyProcessed(c) /\ Continue(c, "complete")
  /\ UNCHANGED <<faults, payment, transfers, init, purse, withdrawn>>

(* The callback is stored, then the row that was read before is looked at: *)
(* its status for a result, its retry count only for a timeout.            *)
StoreCallback(c) ==
  /\ OnCall(c, "store")
  /\ \/ /\ callback[c].kind = "result"
        /\ \/ AlreadyProcessed(c) /\ End(c)
           \/ ~AlreadyProcessed(c) /\ Continue(c, IF callback[c].paid THEN "complete"
                                                                      ELSE "fail")
     \/ /\ callback[c].kind = "timeout"
        /\ Continue(c, IF RetriesLeft(c) THEN "count_retry" ELSE "fail")
  /\ UNCHANGED <<faults, payment, transfers, init, purse, withdrawn>>

Complete(c) ==
  /\ OnCall(c, "complete")
  /\ SetRow(Of(c), [payment[Of(c)] EXCEPT !.status = "COMPLETED"])
  /\ Continue(c, "debit")
  /\ UNCHANGED <<faults, transfers, init, purse, withdrawn>>

(* The debit is refused unless the amount is available beside the          *)
(* reservation; the error ends the handler.                                *)
DebitWalletFunds(c) ==
  /\ OnCall(c, "debit")
  /\ \/ Debit /\ Continue(c, "count")
     \/ Refused /\ End(c) /\ UNCHANGED purse
  /\ UNCHANGED <<faults, payment, transfers, init, withdrawn>>

(* Mutant: the amount is taken off the tracker. *)
DecrementDailyLimit(c) ==
  /\ OnCall(c, "count")
  /\ withdrawn' = withdrawn - Amount
  /\ Continue(c, "publish")
  /\ UNCHANGED <<faults, payment, transfers, init, purse>>

IncrementDailyLimit(c) ==
  /\ OnCall(c, "count")
  /\ withdrawn' = withdrawn + Amount
  /\ Continue(c, "publish")
  /\ UNCHANGED <<faults, payment, transfers, init, purse>>

(* WITHDRAWAL_COMPLETED or WITHDRAWAL_FAILED: the end, published or not. *)
PublishOutcome(c) ==
  /\ OnCall(c, "publish")
  /\ End(c)
  /\ UNCHANGED <<faults, payment, transfers, init, purse, withdrawn>>

(* A failed result, or markWithdrawalFailed. *)
Fail(c) ==
  /\ OnCall(c, "fail")
  /\ SetRow(Of(c), [payment[Of(c)] EXCEPT !.status = "FAILED"])
  /\ Continue(c, "release")
  /\ UNCHANGED <<faults, transfers, init, purse, withdrawn>>

ReleaseAfterFailure(c) ==
  /\ OnCall(c, "release")
  /\ ReleaseWalletFunds
  /\ Continue(c, "publish")
  /\ UNCHANGED <<faults, payment, transfers, init, withdrawn>>

(* Mutant: a timeout releases the reservation before it retries. *)
RetryReleases(c) ==
  /\ OnCall(c, "count_retry")
  /\ SetRow(Of(c), [payment[Of(c)] EXCEPT !.retryCount = @ + 1])
  /\ Release
  /\ Continue(c, "transfer")
  /\ UNCHANGED <<faults, transfers, init, withdrawn>>

CountRetry(c) ==
  /\ OnCall(c, "count_retry")
  /\ SetRow(Of(c), [payment[Of(c)] EXCEPT !.retryCount = @ + 1])
  /\ Continue(c, "transfer")
  /\ UNCHANGED <<faults, transfers, init, purse, withdrawn>>

RetryTransfer(c) ==
  /\ OnCall(c, "transfer")
  /\ \/ /\ AskTransfer(Of(c))
        /\ callback' = [callback EXCEPT ![c] =
             [callback[c] EXCEPT !.pc = "record", !.id = Len(transfers[Of(c)]) + 1]]
     \/ "unreachable" \in faults /\ Continue(c, "fail") /\ UNCHANGED transfers
     \/ "lost" \in faults /\ AskTransfer(Of(c)) /\ Continue(c, "fail")
  /\ UNCHANGED <<faults, payment, init, purse, withdrawn>>

RecordRetry(c) ==
  /\ OnCall(c, "record")
  /\ SetRow(Of(c), [payment[Of(c)] EXCEPT !.status = "PROCESSING",
                                          !.conversationId = callback[c].id])
  /\ End(c)
  /\ UNCHANGED <<faults, transfers, init, purse, withdrawn>>

HandleCallback(c) ==
  \/ FindPayment(c) \/ StoreCallback(c) \/ Complete(c) \/ DebitWalletFunds(c)
  \/ IncrementDailyLimit(c) \/ PublishOutcome(c) \/ Fail(c) \/ ReleaseAfterFailure(c)
  \/ CountRetry(c) \/ RetryTransfer(c) \/ RecordRetry(c)

Next ==
  \/ \E w \in Withdrawals : Initiate(w)
  \/ \E w \in Withdrawals : \E i \in 1..Len(transfers[w]) :
       \/ Decide(w, i)
       \/ \E c \in Callbacks : CallBack(c, w, i)
  \/ \E c \in Callbacks : HandleCallback(c)

Spec == Init /\ [][Next]_vars

-----------------------------------------------------------------------------
WithOutcome(w, outcomes) ==
  {i \in 1..Len(transfers[w]) : transfers[w][i].outcome \in outcomes}
Paid(w)    == WithOutcome(w, {"paid", "late"})
Pending(w) == WithOutcome(w, {"pending"})

(* The user's phone is paid at most once for a withdrawal, through the     *)
(* retry after a timeout and whatever answers are lost, not counting what  *)
(* M-Pesa pays after it has reported a timeout.                            *)
PaidAtMostOnce == \A w \in Withdrawals : Cardinality(WithOutcome(w, {"paid"})) <= 1

(* A completed withdrawal was paid; and as long as no answer or message is *)
(* lost, a failed one was not and is not going to be.                      *)
StatusIsTrue ==
  \A w \in Withdrawals :
    /\ payment[w].status = "COMPLETED" => Paid(w) # {}
    /\ payment[w].status = "FAILED" /\ faults \cap {"lost", "publish", "late"} = {}
         => Paid(w) \cup Pending(w) = {}

(* As long as no answer or message is lost or doubled, money that M-Pesa   *)
(* may still pay out stays reserved in the wallet, also between a timeout  *)
(* and the transfer that follows it.                                       *)
PendingIsReserved ==
  faults \cap {"lost", "publish", "duplicate"} = {} =>
    purse.reserved >= Amount * Cardinality({w \in Withdrawals : Pending(w) # {}})

(* The wallet is debited at most once for a withdrawal and only for one    *)
(* that was paid, however many results come one after the other.           *)
DebitOnlyPaid ==
  OpeningBalance - purse.balance
    <= Amount * Cardinality({w \in Withdrawals : Paid(w) # {}})

(* One transfer and one debit for each withdrawal. *)
PaidAndDebitedOnce == PaidAtMostOnce /\ DebitOnlyPaid

=============================================================================
