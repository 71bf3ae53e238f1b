------------------------------- MODULE Deposit -------------------------------
(***************************************************************************)
(* Deposits in the payment service: initiateDeposit creates the payment,   *)
(* sends an STK push and records its checkout id; Safaricom answers later  *)
(* with a callback, which handleStkCallback checks, verifies and turns     *)
(* into a DEPOSIT_COMPLETED message for the wallet service.                *)
(*                                                                         *)
(* Initiations and callbacks are handlers that run concurrently, one       *)
(* action per await.  M-Pesa is the environment: a prompt is paid or       *)
(* declined, and its callback may come at any moment after that, and again *)
(* (MaxCallbacks).                                                         *)
(*                                                                         *)
(* The faults of a behaviour are chosen once, one of FaultModels: M-Pesa   *)
(* "unreachable" or its answer "lost", a failed Kafka "publish", callbacks *)
(* that claim what did not happen ("spoofed"), callbacks that "overlap" in *)
(* time, a message that the wallet consumes again ("redelivery"), and a    *)
(* consumer of the wallet that "throws" before it has credited: the loop   *)
(* around it catches the error, and the message counts as handled.         *)
(***************************************************************************)
EXTENDS Integers, FiniteSets

CONSTANTS
  Deposits,        \* payments, all of one user on one day
  Callbacks,       \* handlers of callbacks that run at the same time
  Amount,          \* KES of each deposit
  DailyLimit,      \* of the user's KYC tier
  MaxCallbacks,    \* bound: callbacks sent for one deposit
  FaultModels      \* the sets of faults that behaviours may have

ASSUME DepositAssumption ==
  /\ Amount \in Nat \ {0} /\ DailyLimit \in Nat /\ MaxCallbacks \in Nat
  /\ Deposits # {}
  /\ FaultModels \subseteq SUBSET {"unreachable", "lost", "publish", "spoofed",
                                   "overlap", "redelivery", "throws"}

VARIABLES
  faults,     \* what may go wrong in this behaviour
  payment,    \* the payments table
  prompt,     \* M-Pesa: what became of the STK push
  sent,       \* M-Pesa: callbacks sent
  init,       \* where initiateDeposit is
  callback,   \* the callback handlers
  unmatched,  \* deposits one of whose callbacks found no payment
  deposited,  \* the daily limit tracker
  topic,      \* DEPOSIT_COMPLETED messages not yet committed by the consumer
  credited,   \* times the wallet was credited for the deposit
  dropped     \* history: deposits one of whose messages was lost, refused by
              \* Kafka or by a consumer that threw

vars == <<faults, payment, prompt, sent, init, callback, unmatched, deposited, topic,
          credited, dropped>>
mpesa == <<prompt, sent>>
effects == <<deposited, topic, credited, dropped>>

Final    == {"COMPLETED", "FAILED"}
Statuses == {"NONE", "INITIATED", "PENDING_MPESA"} \cup Final
Payment  == [status: Statuses, checkoutRequestId: BOOLEAN]
Idle     == [pc |-> "idle", deposit |-> CHOOSE d \in Deposits : TRUE,
             success |-> FALSE, status |-> "NONE"]
Callback == [pc: {"idle", "find", "store", "verify", "complete", "count", "publish",
                  "unverified", "fail"},
             deposit: Deposits, success: BOOLEAN, status: Statuses]

TypeOK ==
  /\ faults \in FaultModels
  /\ payment \in [Deposits -> Payment]
  /\ prompt \in [Deposits -> {"none", "pending", "paid", "declined"}]
  /\ sent \in [Deposits -> 0..MaxCallbacks]
  /\ init \in [Deposits -> {"idle", "create", "push", "record", "publish", "fail",
                            "done", "failed", "rejected"}]
  /\ callback \in [Callbacks -> Callback]
  /\ unmatched \subseteq Deposits
  /\ deposited \in Nat
  /\ topic \in [Deposits -> Nat]
  /\ credited \in [Deposits -> Nat]
  /\ dropped \subseteq Deposits

Init ==
  /\ faults \in FaultModels
  /\ payment = [d \in Deposits |-> [status |-> "NONE", checkoutRequestId |-> FALSE]]
  /\ prompt = [d \in Deposits |-> "none"]
  /\ sent = [d \in Deposits |-> 0]
  /\ init = [d \in Deposits |-> "idle"]
  /\ callback = [c \in Callbacks |-> Idle]
  /\ unmatched = {}
  /\ deposited = 0
  /\ topic = [d \in Deposits |-> 0]
  /\ credited = [d \in Deposits |-> 0]
  /\ dropped = {}

-----------------------------------------------------------------------------
(* initiateDeposit.                                                        *)
At(d, pc)   == init[d] = pc
Goto(d, pc) == init' = [init EXCEPT ![d] = pc]
SetStatus(d, s) == payment' = [payment EXCEPT ![d].status = s]

WithinLimit == deposited + Amount <= DailyLimit

CheckDailyLimit(d) ==
  /\ At(d, "idle")
  /\ Goto(d, IF WithinLimit THEN "create" ELSE "rejected")
  /\ UNCHANGED <<faults, payment, mpesa, callback, unmatched, effects>>

CreatePayment(d) ==
  /\ At(d, "create")
  /\ SetStatus(d, "INITIATED")
  /\ Goto(d, "push")
  /\ UNCHANGED <<faults, mpesa, callback, unmatched, effects>>

StkPush(d) ==
  /\ At(d, "push")
  /\ \/ prompt' = [prompt EXCEPT ![d] = "pending"] /\ Goto(d, "record")
     \/ "unreachable" \in faults /\ Goto(d, "fail") /\ UNCHANGED prompt
     \/ /\ "lost" \in faults
        /\ prompt' = [prompt EXCEPT ![d] = "pending"]
        /\ Goto(d, "fail")
  /\ UNCHANGED <<faults, payment, sent, callback, unmatched, effects>>

RecordCheckout(d) ==
  /\ At(d, "record")
  /\ payment' = [payment EXCEPT ![d] = [status |-> "PENDING_MPESA",
                                        checkoutRequestId |-> TRUE]]
  /\ Goto(d, "publish")
  /\ UNCHANGED <<faults, mpesa, callback, unmatched, effects>>

(* DEPOSIT_INITIATED; a failure falls into the same catch as the push. *)
PublishInitiated(d) ==
  /\ At(d, "publish")
  /\ \/ Goto(d, "done")
     \/ "publish" \in faults /\ Goto(d, "fail")
  /\ UNCHANGED <<faults, payment, mpesa, callback, unmatched, effects>>

InitiationFails(d) ==
  /\ At(d, "fail")
  /\ SetStatus(d, "FAILED")
  /\ Goto(d, "failed")
  /\ UNCHANGED <<faults, mpesa, callback, unmatched, effects>>

Initiate(d) ==
  \/ CreatePayment(d) \/ StkPush(d) \/ RecordCheckout(d) \/ PublishInitiated(d)
  \/ InitiationFails(d)

-----------------------------------------------------------------------------
(* M-Pesa.                                                                 *)
Pay(d) ==
  /\ prompt[d] = "pending"
  /\ \E answer \in {"paid", "declined"} : prompt' = [prompt EXCEPT ![d] = answer]
  /\ UNCHANGED <<faults, payment, sent, init, callback, unmatched, effects>>

CallBack(c, d) ==
  /\ callback[c].pc = "idle"
  /\ "overlap" \in faults \/ \A x \in Callbacks : callback[x].pc = "idle"
  /\ sent[d] < MaxCallbacks
  /\ \E success \in BOOLEAN :
       /\ \/ prompt[d] = IF success THEN "paid" ELSE "declined"
          \/ "spoofed" \in faults /\ prompt[d] # "none"
       /\ callback' = [callback EXCEPT ![c] = [pc |-> "find", deposit |-> d,
                                               success |-> success, status |-> "NONE"]]
  /\ sent' = [sent EXCEPT ![d] = sent[d] + 1]
  /\ UNCHANGED <<faults, payment, prompt, init, unmatched, effects>>

-----------------------------------------------------------------------------
(* handleStkCallback.                                                      *)
Deposit(c) == callback[c].deposit
OnCall(c, pc) == callback[c].pc = pc
Continue(c, pc) == callback' = [callback EXCEPT ![c] = [callback[c] EXCEPT !.pc = pc]]
End(c) == callback' = [callback EXCEPT ![c] = Idle]

FindPayment(c) ==
  /\ OnCall(c, "find")
  /\ \/ /\ payment[Deposit(c)].checkoutRequestId
        /\ callback' = [callback EXCEPT ![c] =
             [callback[c] EXCEPT !.pc = "store",
                                 !.status = payment[Deposit(c)].status]]
        /\ UNCHANGED unmatched
     \/ /\ ~payment[Deposit(c)].checkoutRequestId
        /\ unmatched' = unmatched \cup {Deposit(c)}
        /\ End(c)
  /\ UNCHANGED <<faults, payment, mpesa, init, effects>>

(* Mutant: only a failed payment counts as processed. *)
AlreadyFailed(c) == callback[c].status = "FAILED"

AlreadyProcessed(c) == callback[c].status \in Final

(* The raw callback is stored; the status that is then looked at is the    *)
(* one that was read before.                                               *)
StoreCallback(c) ==
  /\ OnCall(c, "store")
  /\ \/ AlreadyProcessed(c) /\ End(c)
     \/ /\ ~AlreadyProcessed(c)
        /\ Continue(c, IF callback[c].success THEN "verify" ELSE "fail")
  /\ UNCHANGED <<faults, payment, mpesa, init, unmatched, effects>>

(* Mutant: the callback's own result code is believed. *)
BelievesCallback(c) ==
  /\ OnCall(c, "verify")
  /\ Continue(c, "complete")
  /\ UNCHANGED <<faults, payment, mpesa, init, unmatched, effects>>

(* QuerySTKPush says what became of the push; an error counts as a no. *)
VerifyStkPayment(c) ==
  /\ OnCall(c, "verify")
  /\ \/ Continue(c, IF prompt[Deposit(c)] = "paid" THEN "complete" ELSE "unverified")
     \/ "unreachable" \in faults /\ Continue(c, "unverified")
  /\ UNCHANGED <<faults, payment, mpesa, init, unmatched, effects>>

Complete(c) ==
  /\ OnCall(c, "complete")
  /\ SetStatus(Deposit(c), "COMPLETED")
  /\ Continue(c, "count")
  /\ UNCHANGED <<faults, mpesa, init, unmatched, effects>>

(* Mutant: the amount is taken off the tracker. *)
DecrementDailyLimit(c) ==
  /\ OnCall(c, "count")
  /\ deposited' = deposited - Amount
  /\ Continue(c, "publish")
  /\ UNCHANGED <<faults, payment, mpesa, init, unmatched, topic, credited, dropped>>

(* Mutant: the tracker refuses to go over the limit, and the error ends    *)
(* the handler.                                                            *)
CountThrows(c) ==
  /\ OnCall(c, "count")
  /\ \/ /\ WithinLimit
        /\ deposited' = deposited + Amount
        /\ Continue(c, "publish")
     \/ ~WithinLimit /\ End(c) /\ UNCHANGED deposited
  /\ UNCHANGED <<faults, payment, mpesa, init, unmatched, topic, credited, dropped>>

IncrementDailyLimit(c) ==
  /\ OnCall(c, "count")
  /\ deposited' = deposited + Amount
  /\ Continue(c, "publish")
  /\ UNCHANGED <<faults, payment, mpesa, init, unmatched, topic, credited, dropped>>

PublishCompleted(c) ==
  /\ OnCall(c, "publish")
  /\ \/ topic' = [topic EXCEPT ![Deposit(c)] = topic[Deposit(c)] + 1] /\ UNCHANGED dropped
     \/ "publish" \in faults /\ dropped' = dropped \cup {Deposit(c)} /\ UNCHANGED topic
  /\ End(c)
  /\ UNCHANGED <<faults, payment, mpesa, init, unmatched, deposited, credited>>

(* Not verified, or a failure callback (which also publishes it). *)
Fail(c) ==
  /\ OnCall(c, "unverified") \/ OnCall(c, "fail")
  /\ SetStatus(Deposit(c), "FAILED")
  /\ End(c)
  /\ UNCHANGED <<faults, mpesa, init, unmatched, effects>>

HandleStkCallback(c) ==
  \/ FindPayment(c) \/ StoreCallback(c) \/ VerifyStkPayment(c) \/ Complete(c)
  \/ IncrementDailyLimit(c) \/ PublishCompleted(c) \/ Fail(c)

(* The wallet service's consumer creates a missing wallet and credits it   *)
(* (Wallet has the steps); a crash before its offset is committed brings   *)
(* the message back.  It credits nothing if another creation of the wallet *)
(* overtakes its own, if credit loses MAX_OPTIMISTIC_LOCK_RETRIES races, or*)
(* if the database fails; nobody looks at the message again.               *)
HandleDepositCompleted(d) ==
  /\ topic[d] > 0
  /\ \/ /\ credited' = [credited EXCEPT ![d] = credited[d] + 1]
        /\ \/ topic' = [topic EXCEPT ![d] = topic[d] - 1]
           \/ "redelivery" \in faults /\ credited[d] = 0 /\ UNCHANGED topic
        /\ UNCHANGED dropped
     \/ /\ "throws" \in faults
        /\ topic' = [topic EXCEPT ![d] = topic[d] - 1]
        /\ dropped' = dropped \cup {d}
        /\ UNCHANGED credited
  /\ UNCHANGED <<faults, payment, mpesa, init, callback, unmatched, deposited>>

Next ==
  \/ \E d \in Deposits : \/ CheckDailyLimit(d) \/ Initiate(d) \/ Pay(d)
                         \/ HandleDepositCompleted(d)
                         \/ \E c \in Callbacks : CallBack(c, d)
  \/ \E c \in Callbacks : HandleStkCallback(c)

Spec == Init /\ [][Next]_vars

(* The event loop runs every handler whose await is over, and the wallet   *)
(* service keeps polling.                                                  *)
FairSpec ==
  /\ Spec
  /\ \A d \in Deposits : WF_vars(Initiate(d)) /\ WF_vars(HandleDepositCompleted(d))
  /\ \A c \in Callbacks : WF_vars(HandleStkCallback(c))

-----------------------------------------------------------------------------
(* What the user and the admins are shown of the payments table. *)
getPaymentHistory ==
  [d \in {x \in Deposits : payment[x].status # "NONE"} |-> payment[d].status]

getPaymentStatus(d) == getPaymentHistory[d]

getAllPayments(statuses) ==
  LET data == {d \in DOMAIN getPaymentHistory : payment[d].status \in statuses}
  IN  [data |-> data,
       completedDepositsKes |->
         Amount * Cardinality({d \in data : payment[d].status = "COMPLETED"})]

-----------------------------------------------------------------------------
(* The wallet is credited only for what M-Pesa took from the user's phone, *)
(* whatever callbacks claim and however they overlap: the independent      *)
(* query before crediting.                                                 *)
CreditOnlyPaid == \A d \in Deposits : credited[d] > 0 => prompt[d] = "paid"

(* A deposit is credited at most once, however many callbacks come, as long*)
(* as they come one after the other and the wallet consumes each message   *)
(* once.  (The comment on the status check says so without the condition;  *)
(* two callbacks at once both find a pending payment and credit twice.)    *)
InTurn == faults \cap {"overlap", "redelivery"} = {}
CreditedOnceInTurn == InTurn => \A d \in Deposits : credited[d] + topic[d] <= 1

(* Callbacks come one after the other, and no publish at the end of an     *)
(* initiation fails a payment that a callback has completed.               *)
Undisturbed == InTurn /\ "publish" \notin faults

(* The tracker counts exactly the deposits that were completed, but for    *)
(* the ones whose handler has not come to it yet.                          *)
Completed == {d \in Deposits : payment[d].status = "COMPLETED"}
Uncounted == {Deposit(c) : c \in {x \in Callbacks : OnCall(x, "count")}}
TrackerCountsCompleted ==
  Undisturbed => deposited = Amount * Cardinality(Completed \ Uncounted)

(* Whatever the wallet was credited is in the user's history as completed, *)
(* and in the admins' total of deposits.                                   *)
ShownIsCredited ==
  Undisturbed =>
    LET done == {d \in Deposits : credited[d] > 0}
    IN  /\ \A d \in done : getPaymentStatus(d) = "COMPLETED"
        /\ Amount * Cardinality(done) <= getAllPayments(Final).completedDepositsKes

(* Credits, the daily tracker and what is shown follow what was paid. *)
CreditsMatchPayments ==
  CreditOnlyPaid /\ CreditedOnceInTurn /\ TrackerCountsCompleted /\ ShownIsCredited

(* What was processed stays as it is: later callbacks and the rest of the  *)
(* initiation do not change a completed or failed payment.                 *)
FinalIsFinal ==
  [][Undisturbed => \A d \in Deposits : payment[d].status \in Final =>
       payment'[d].status = payment[d].status]_payment

(* A completed deposit reaches the wallet, under all faults, but for the   *)
(* two losses the code has: Kafka refuses the message, after the payment   *)
(* was completed, or the wallet's consumer fails on it, which the consumer *)
(* loop swallows.                                                          *)
CompletedIsCredited ==
  \A d \in Deposits :
    payment[d].status = "COMPLETED" ~> credited[d] > 0 \/ d \in dropped

=============================================================================
