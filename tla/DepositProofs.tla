----------------------------- MODULE DepositProofs -----------------------------
(***************************************************************************)
(* Credits, the daily tracker and what is shown of deposits follow what    *)
(* was paid, and what is final stays: for every number of deposits,        *)
(* callbacks and handlers, under the faults that each property names.      *)
(*                                                                         *)
(* The argument: a handler acts on a status that it read earlier.  When    *)
(* callbacks are handled one after the other, nobody else can have made it *)
(* final since, except the end of the initiation after a failed publish.   *)
(***************************************************************************)
EXTENDS Deposit, FiniteSetTheorems, TLAPS

Early    == {"idle", "create", "push", "record"}
Verdicts == {"verify", "complete", "unverified", "fail"}
Effects  == {"count", "publish"}
Owed(d)  == credited[d] + topic[d]

(* A handler that found its payment open, or will act as if it had. *)
Undecided(k) == k.pc \in Verdicts \/ (k.pc = "store" /\ k.status \notin Final)

(* In every behaviour: a deposit whose initiation is at pc, with the row p, *)
(* the prompt m and n credits made or to be made; and a handler k of it.    *)
Honest(pc, p, m, n) ==
  /\ pc \in {"idle", "create", "push"} => m = "none"
  /\ pc \in Early => p.checkoutRequestId = FALSE /\ p.status \notin Final
  /\ n > 0 => m = "paid"

HonestCall(k, p, m) ==
  /\ k.pc \notin {"idle", "find"} => p.checkoutRequestId = TRUE
  /\ k.pc \in {"complete"} \cup Effects => m = "paid"

(* As long as callbacks come one after the other. *)
Turn(p, n)        == n <= 1 /\ (n > 0 => p.status \in Final)
TurnCall(k, p, n) == /\ Undecided(k) \/ k.pc \in Effects => n = 0
                     /\ k.pc \in Effects => p.status \in Final

(* And as long as the end of an initiation publishes. *)
Calm(pc, p, n)  == /\ pc = "fail" => p.checkoutRequestId = FALSE /\ p.status \notin Final
                   /\ n > 0 => p.status = "COMPLETED"
CalmCall(k, p)  == /\ Undecided(k) => p.status \notin Final
                   /\ k.pc \in Effects => p.status = "COMPLETED"

Alone(c) == \A x \in Callbacks : x # c => callback[x].pc = "idle"

IInv ==
  /\ TypeOK
  /\ \A d \in Deposits : Honest(init[d], payment[d], prompt[d], Owed(d))
  /\ \A c \in Callbacks : HonestCall(callback[c], payment[Deposit(c)], prompt[Deposit(c)])
  /\ InTurn => /\ \A c \in Callbacks : callback[c].pc # "idle" => Alone(c)
               /\ \A d \in Deposits : Turn(payment[d], Owed(d))
               /\ \A c \in Callbacks :
                    TurnCall(callback[c], payment[Deposit(c)], Owed(Deposit(c)))
  /\ Undisturbed => /\ \A d \in Deposits : Calm(init[d], payment[d], Owed(d))
                    /\ \A c \in Callbacks : CalmCall(callback[c], payment[Deposit(c)])
                    /\ IsFiniteSet(Completed)
                    /\ deposited = Amount * Cardinality(Completed \ Uncounted)
-----------------------------------------------------------------------------
(* Types.                                                                  *)

InitPC == {"idle", "create", "push", "record", "publish", "fail", "done", "failed",
           "rejected"}
CallPC == {"idle", "find", "store", "verify", "complete", "count", "publish",
           "unverified", "fail"}

LEMMA IdleType == Idle \in Callback /\ Idle.pc = "idle"
<1>1. (CHOOSE d \in Deposits : TRUE) \in Deposits
  BY DepositAssumption
<1> QED BY <1>1 DEF Idle, Callback, Statuses

LEMMA StateFacts ==
  ASSUME TypeOK
  PROVE  /\ \A d \in Deposits : /\ payment[d] \in Payment
                                /\ credited[d] \in Nat /\ topic[d] \in Nat
                                /\ Owed(d) \in Nat /\ sent[d] \in Nat
         /\ \A c \in Callbacks : callback[c] \in Callback /\ Deposit(c) \in Deposits
         /\ deposited \in Nat /\ Amount \in Nat /\ MaxCallbacks \in Nat
<1>1. \A d \in Deposits : credited[d] \in Nat /\ topic[d] \in Nat /\ sent[d] \in 0..MaxCallbacks
  BY DEF TypeOK
<1>2. \A c \in Callbacks : callback[c] \in Callback
  BY DEF TypeOK
<1>3. \A c \in Callbacks : Deposit(c) \in Deposits
  BY <1>2 DEF Deposit, Callback
<1> QED BY <1>1, <1>2, <1>3, DepositAssumption DEF TypeOK, Owed

(* What the assignments of the initiation do. *)
LEMMA GotoStep ==
  ASSUME TypeOK, NEW d \in Deposits, NEW pc \in InitPC, Goto(d, pc)
  PROVE  /\ init' \in [Deposits -> InitPC] /\ init'[d] = pc
         /\ \A x \in Deposits : x # d => init'[x] = init[x]
BY DEF TypeOK, Goto, InitPC

LEMMA SetStatusStep ==
  ASSUME TypeOK, NEW d \in Deposits, NEW s \in Statuses, SetStatus(d, s)
  PROVE  /\ payment' \in [Deposits -> Payment]
         /\ payment'[d].status = s
         /\ payment'[d].checkoutRequestId = payment[d].checkoutRequestId
         /\ \A x \in Deposits : x # d => payment'[x] = payment[x]
<1> DEFINE p == [payment[d] EXCEPT !.status = s]
<1>1. payment[d] \in Payment /\ payment \in [Deposits -> Payment]
  BY DEF TypeOK
<1>2. /\ p \in Payment /\ p.status = s
      /\ p.checkoutRequestId = payment[d].checkoutRequestId
  BY <1>1 DEF Payment
<1>3. payment' = [payment EXCEPT ![d] = p]
  BY DEF SetStatus
<1> HIDE DEF p
<1> QED BY <1>1, <1>2, <1>3

LEMMA ContinueStep ==
  ASSUME TypeOK, NEW c \in Callbacks
  PROVE  /\ \A pc \in CallPC : Continue(c, pc) =>
              /\ callback' \in [Callbacks -> Callback]
              /\ callback'[c].pc = pc
              /\ callback'[c].deposit = callback[c].deposit
              /\ callback'[c].status = callback[c].status
              /\ \A x \in Callbacks : x # c => callback'[x] = callback[x]
         /\ End(c) =>
              /\ callback' \in [Callbacks -> Callback]
              /\ callback'[c].pc = "idle"
              /\ \A x \in Callbacks : x # c => callback'[x] = callback[x]
<1>1. callback[c] \in Callback /\ callback \in [Callbacks -> Callback]
  BY DEF TypeOK
<1>2. ASSUME NEW pc \in CallPC
      PROVE  LET k == [callback[c] EXCEPT !.pc = pc]
             IN  /\ k \in Callback /\ k.pc = pc /\ k.deposit = callback[c].deposit
                 /\ k.status = callback[c].status
  BY <1>1 DEF Callback, CallPC
<1>3. ASSUME NEW pc \in CallPC, Continue(c, pc)
      PROVE  /\ callback' \in [Callbacks -> Callback]
             /\ callback'[c].pc = pc
             /\ callback'[c].deposit = callback[c].deposit
             /\ callback'[c].status = callback[c].status
             /\ \A x \in Callbacks : x # c => callback'[x] = callback[x]
  <2> DEFINE k == [callback[c] EXCEPT !.pc = pc]
  <2>1. /\ k \in Callback /\ k.pc = pc /\ k.deposit = callback[c].deposit
        /\ k.status = callback[c].status
    BY <1>2
  <2>2. callback' = [callback EXCEPT ![c] = k]
    BY <1>3 DEF Continue
  <2> HIDE DEF k
  <2> QED BY <1>1, <2>1, <2>2
<1>4. End(c) => /\ callback' \in [Callbacks -> Callback]
                /\ callback'[c].pc = "idle"
                /\ \A x \in Callbacks : x # c => callback'[x] = callback[x]
  <2>1. Idle \in Callback /\ Idle.pc = "idle"
    BY IdleType
  <2> QED BY <1>1, <2>1 DEF End
<1> QED BY <1>3, <1>4

-----------------------------------------------------------------------------
(* Safety.                                                                 *)

(* A step that changes one deposit and no handler. *)
LEMMA RowStep ==
  ASSUME IInv, TypeOK', NEW d \in Deposits, UNCHANGED <<faults, callback, deposited>>,
         \A x \in Deposits : x # d =>
           /\ init'[x] = init[x] /\ payment'[x] = payment[x] /\ prompt'[x] = prompt[x]
           /\ credited'[x] = credited[x] /\ topic'[x] = topic[x],
         NEW n, n = credited'[d] + topic'[d],
         Honest(init'[d], payment'[d], prompt'[d], n),
         \A c \in Callbacks :
           Deposit(c) = d => HonestCall(callback[c], payment'[d], prompt'[d]),
         InTurn => /\ Turn(payment'[d], n)
                   /\ \A c \in Callbacks :
                        Deposit(c) = d => TurnCall(callback[c], payment'[d], n),
         Undisturbed => /\ Calm(init'[d], payment'[d], n)
                        /\ \A c \in Callbacks :
                             Deposit(c) = d => CalmCall(callback[c], payment'[d])
                        /\ \/ payment'[d].status = payment[d].status
                           \/ "COMPLETED" \notin {payment'[d].status, payment[d].status}
  PROVE  IInv'
<1>1. \A c \in Callbacks : Deposit(c) \in Deposits /\ callback'[c] = callback[c]
  BY StateFacts DEF IInv
<1>2. \A x \in Deposits : Honest(init'[x], payment'[x], prompt'[x],
                                 credited'[x] + topic'[x])
  BY DEF IInv, Owed
<1>3. \A c \in Callbacks : HonestCall(callback[c], payment'[Deposit(c)], prompt'[Deposit(c)])
  BY <1>1 DEF IInv
<1>4. ASSUME InTurn
      PROVE  /\ \A c \in Callbacks : callback[c].pc # "idle" => Alone(c)
             /\ \A x \in Deposits : Turn(payment'[x], credited'[x] + topic'[x])
             /\ \A c \in Callbacks :
                  TurnCall(callback[c], payment'[Deposit(c)],
                           credited'[Deposit(c)] + topic'[Deposit(c)])
  BY <1>1, <1>4 DEF IInv, Owed
<1>5. ASSUME Undisturbed
      PROVE  /\ \A x \in Deposits : Calm(init'[x], payment'[x], credited'[x] + topic'[x])
             /\ \A c \in Callbacks : CalmCall(callback[c], payment'[Deposit(c)])
             /\ IsFiniteSet(Completed) /\ Completed' = Completed
             /\ deposited = Amount * Cardinality(Completed \ Uncounted)
  <2>1. Completed' = Completed
    BY <1>5 DEF Completed
  <2> QED BY <1>1, <1>5, <2>1 DEF IInv, Owed
<1>6. /\ InTurn' <=> InTurn
      /\ Undisturbed' <=> Undisturbed
  BY DEF InTurn, Undisturbed
<1>7. InTurn' => /\ \A c \in Callbacks : callback'[c].pc # "idle" => Alone(c)'
                 /\ \A x \in Deposits : Turn(payment'[x], Owed(x)')
                 /\ \A c \in Callbacks :
                      TurnCall(callback'[c], payment'[Deposit(c)'], Owed(Deposit(c))')
  BY <1>1, <1>4, <1>6 DEF Alone, Owed, Deposit
<1>8. Undisturbed' =>
        /\ \A x \in Deposits : Calm(init'[x], payment'[x], Owed(x)')
        /\ \A c \in Callbacks : CalmCall(callback'[c], payment'[Deposit(c)'])
        /\ IsFiniteSet(Completed')
        /\ deposited' = Amount * Cardinality(Completed' \ Uncounted')
  <2>1. Uncounted' = Uncounted
    BY <1>1 DEF Uncounted, OnCall, Deposit
  <2> QED BY <1>1, <1>5, <1>6, <2>1 DEF Owed, Deposit
<1> QED BY <1>1, <1>2, <1>3, <1>7, <1>8 DEF IInv, Owed, Deposit

(* A handler that has found no payment yet knows nothing of it. *)
LEMMA Untouched ==
  ASSUME NEW k, k.pc \in {"idle", "find"}, NEW p, NEW m, NEW n
  PROVE  HonestCall(k, p, m) /\ TurnCall(k, p, n) /\ CalmCall(k, p)
BY DEF HonestCall, TurnCall, CalmCall, Undecided, Verdicts, Effects

(* What is known of one deposit and of its handlers. *)
LEMMA RowFacts ==
  ASSUME IInv, NEW d \in Deposits
  PROVE  LET Its(c) == Deposit(c) = d
         IN  /\ TypeOK /\ payment[d] \in Payment /\ Owed(d) \in Nat
             /\ credited[d] \in Nat /\ topic[d] \in Nat
             /\ Honest(init[d], payment[d], prompt[d], Owed(d))
             /\ \A c \in Callbacks : Its(c) => HonestCall(callback[c], payment[d], prompt[d])
             /\ InTurn => /\ Turn(payment[d], Owed(d))
                          /\ \A c \in Callbacks :
                               Its(c) => TurnCall(callback[c], payment[d], Owed(d))
             /\ Undisturbed => /\ Calm(init[d], payment[d], Owed(d))
                               /\ \A c \in Callbacks :
                                    Its(c) => CalmCall(callback[c], payment[d])
BY StateFacts DEF IInv

(* Before its checkout id is recorded, no handler has found a deposit. *)
LEMMA NotFoundYet ==
  ASSUME IInv, NEW d \in Deposits,
         init[d] \in Early \/ (Undisturbed /\ init[d] = "fail")
  PROVE  /\ payment[d].status \notin Final
         /\ payment[d].checkoutRequestId = FALSE
         /\ \A c \in Callbacks : Deposit(c) = d => callback[c].pc \in {"idle", "find"}
         /\ InTurn => Owed(d) = 0
<1>1. payment[d].checkoutRequestId = FALSE /\ payment[d].status \notin Final
  BY RowFacts DEF Honest, Calm
<1>2. ASSUME NEW c \in Callbacks, Deposit(c) = d
      PROVE  callback[c].pc \in {"idle", "find"}
  BY <1>1, <1>2, RowFacts DEF HonestCall
<1>3. ASSUME InTurn PROVE Owed(d) = 0
  BY <1>1, <1>3, RowFacts DEF Turn
<1> QED BY <1>1, <1>2, <1>3

LEMMA InitiateInv ==
  ASSUME IInv, NEW d \in Deposits, CheckDailyLimit(d) \/ Initiate(d)
  PROVE  IInv'
<1> DEFINE n == Owed(d)
<1>1. /\ TypeOK /\ n = credited[d] + topic[d] /\ n \in Nat
      /\ Honest(init[d], payment[d], prompt[d], n)
      /\ InTurn => Turn(payment[d], n)
      /\ Undisturbed => Calm(init[d], payment[d], n)
  BY RowFacts DEF Owed
<1>2. UNCHANGED <<faults, callback, unmatched, sent, deposited, topic, credited, dropped>>
  BY DEF CheckDailyLimit, Initiate, CreatePayment, StkPush, RecordCheckout,
         PublishInitiated, InitiationFails, mpesa, effects
<1>3. ASSUME init' \in [Deposits -> InitPC], payment' \in [Deposits -> Payment],
             prompt' \in [Deposits -> {"none", "pending", "paid", "declined"}]
      PROVE  TypeOK'
  BY <1>1, <1>2, <1>3 DEF TypeOK, InitPC
<1>4. /\ init \in [Deposits -> InitPC] /\ payment \in [Deposits -> Payment]
      /\ prompt \in [Deposits -> {"none", "pending", "paid", "declined"}]
  BY <1>1 DEF TypeOK, InitPC
<1>0. n = credited'[d] + topic'[d]
  BY <1>1, <1>2
<1> HIDE DEF n
<1>10. ASSUME init' \in [Deposits -> InitPC], payment' \in [Deposits -> Payment],
              prompt' \in [Deposits -> {"none", "pending", "paid", "declined"}],
              \A x \in Deposits : x # d => /\ init'[x] = init[x] /\ payment'[x] = payment[x]
                                           /\ prompt'[x] = prompt[x],
              Honest(init'[d], payment'[d], prompt'[d], n),
              InTurn => Turn(payment'[d], n),
              Undisturbed =>
                /\ Calm(init'[d], payment'[d], n)
                /\ \/ payment'[d].status = payment[d].status
                   \/ "COMPLETED" \notin {payment'[d].status, payment[d].status},
              \A c \in Callbacks : Deposit(c) = d =>
                /\ HonestCall(callback[c], payment'[d], prompt'[d])
                /\ InTurn => TurnCall(callback[c], payment'[d], n)
                /\ Undisturbed => CalmCall(callback[c], payment'[d])
       PROVE  IInv'
  <2>1. TypeOK'
    BY <1>3, <1>10
  <2>2. \A x \in Deposits : x # d =>
          /\ init'[x] = init[x] /\ payment'[x] = payment[x] /\ prompt'[x] = prompt[x]
          /\ credited'[x] = credited[x] /\ topic'[x] = topic[x]
    BY <1>2, <1>10
  <2>3. UNCHANGED <<faults, callback, deposited>>
    BY <1>2
  <2>4. InTurn => /\ Turn(payment'[d], n)
                  /\ \A c \in Callbacks :
                       Deposit(c) = d => TurnCall(callback[c], payment'[d], n)
    BY <1>10
  <2>5. Undisturbed => /\ Calm(init'[d], payment'[d], n)
                       /\ \A c \in Callbacks :
                            Deposit(c) = d => CalmCall(callback[c], payment'[d])
                       /\ \/ payment'[d].status = payment[d].status
                          \/ "COMPLETED" \notin {payment'[d].status, payment[d].status}
    BY <1>10
  <2> QED BY <1>0, <1>10, <2>1, <2>2, <2>3, <2>4, <2>5, RowStep
<1>5. CASE CheckDailyLimit(d) \/ PublishInitiated(d)
  <2>1. /\ UNCHANGED <<payment, prompt>>
        /\ \/ init[d] = "idle" /\ \E pc \in {"create", "rejected"} : Goto(d, pc)
           \/ init[d] = "publish" /\ Goto(d, "done")
           \/ init[d] = "publish" /\ Goto(d, "fail") /\ "publish" \in faults
    BY <1>5 DEF CheckDailyLimit, PublishInitiated, At, mpesa
  <2>2. \E pc \in InitPC : Goto(d, pc)
    BY <2>1 DEF InitPC
  <2>3. /\ init' \in [Deposits -> InitPC]
        /\ \A x \in Deposits : x # d => init'[x] = init[x]
    BY <1>1, <2>2, GotoStep
  <2>4. \/ init[d] = "idle" /\ init'[d] \in {"create", "rejected"}
        \/ init[d] = "publish" /\ init'[d] = "done"
        \/ init[d] = "publish" /\ init'[d] = "fail" /\ ~Undisturbed
    BY <1>1, <2>1, GotoStep DEF InitPC, Undisturbed
  <2>5. Honest(init'[d], payment[d], prompt[d], n)
    BY <1>1, <2>4 DEF Honest, Early
  <2>6. Undisturbed => Calm(init'[d], payment[d], n)
    BY <1>1, <2>4 DEF Calm
  <2>7. \A c \in Callbacks : Deposit(c) = d =>
          /\ HonestCall(callback[c], payment'[d], prompt'[d])
          /\ InTurn => TurnCall(callback[c], payment'[d], n)
          /\ Undisturbed => CalmCall(callback[c], payment'[d])
    BY <2>1, RowFacts DEF n
  <2> QED BY <1>1, <1>4, <1>10, <2>1, <2>3, <2>5, <2>6, <2>7
<1>6. CASE CreatePayment(d)
  <2>1. init[d] = "create" /\ SetStatus(d, "INITIATED") /\ Goto(d, "push")
        /\ UNCHANGED prompt
    BY <1>6 DEF CreatePayment, At, mpesa
  <2>2. /\ init' \in [Deposits -> InitPC] /\ init'[d] = "push"
        /\ \A x \in Deposits : x # d => init'[x] = init[x]
    BY <1>1, <2>1, GotoStep DEF InitPC
  <2>3. /\ payment' \in [Deposits -> Payment] /\ payment'[d].status = "INITIATED"
        /\ payment'[d].checkoutRequestId = payment[d].checkoutRequestId
        /\ \A x \in Deposits : x # d => payment'[x] = payment[x]
    BY <1>1, <2>1, SetStatusStep DEF Statuses
  <2>4. /\ payment[d].status \notin Final /\ payment[d].checkoutRequestId = FALSE
        /\ \A c \in Callbacks : Deposit(c) = d => callback[c].pc \in {"idle", "find"}
        /\ InTurn => n = 0
    BY <2>1, NotFoundYet DEF Early, n
  <2>5. Honest(init'[d], payment'[d], prompt'[d], n)
    BY <1>1, <2>1, <2>2, <2>3, <2>4 DEF Honest, Early, Final
  <2>6. /\ InTurn => Turn(payment'[d], n)
        /\ Undisturbed => Calm(init'[d], payment'[d], n)
    BY <2>2, <2>4 DEF Turn, Calm, Undisturbed
  <2>8. "COMPLETED" \notin {payment'[d].status, payment[d].status}
    BY <2>3, <2>4 DEF Final
  <2> QED BY <1>4, <1>10, <2>1, <2>2, <2>3, <2>4, <2>5, <2>6, <2>8, Untouched
<1>7. CASE StkPush(d)
  <2>1. /\ init[d] = "push" /\ UNCHANGED payment
        /\ \/ Goto(d, "record") \/ Goto(d, "fail")
        /\ prompt' = [prompt EXCEPT ![d] = "pending"] \/ UNCHANGED prompt
        /\ Goto(d, "record") => prompt' = [prompt EXCEPT ![d] = "pending"]
    BY <1>1, <1>7, GotoStep DEF StkPush, At, InitPC
  <2>2. /\ init' \in [Deposits -> InitPC] /\ init'[d] \in {"record", "fail"}
        /\ \A x \in Deposits : x # d => init'[x] = init[x]
    BY <1>1, <2>1, GotoStep DEF InitPC
  <2>3. /\ prompt' \in [Deposits -> {"none", "pending", "paid", "declined"}]
        /\ \A x \in Deposits : x # d => prompt'[x] = prompt[x]
    BY <1>4, <2>1
  <2>4. /\ payment[d].status \notin Final /\ payment[d].checkoutRequestId = FALSE
        /\ \A c \in Callbacks : Deposit(c) = d => callback[c].pc \in {"idle", "find"}
        /\ n = 0
    <3>1. n = 0
      BY <1>1, <2>1 DEF Honest
    <3>2. init[d] \in Early
      BY <2>1 DEF Early
    <3> QED BY <3>1, <3>2, NotFoundYet
  <2>5. Honest(init'[d], payment'[d], prompt'[d], n)
    <3>1. payment'[d] = payment[d]
      BY <2>1
    <3> QED BY <2>2, <2>4, <3>1 DEF Honest, Early
  <2>6. /\ InTurn => Turn(payment'[d], n)
        /\ Undisturbed => Calm(init'[d], payment'[d], n)
    BY <2>1, <2>4 DEF Turn, Calm
  <2> QED BY <1>4, <1>10, <2>1, <2>2, <2>3, <2>4, <2>5, <2>6, Untouched
<1>8. CASE RecordCheckout(d)
  <2> DEFINE q == [status |-> "PENDING_MPESA", checkoutRequestId |-> TRUE]
  <2>1. init[d] = "record" /\ payment' = [payment EXCEPT ![d] = q] /\ Goto(d, "publish")
        /\ UNCHANGED prompt
    BY <1>8 DEF RecordCheckout, At, mpesa
  <2>2. q \in Payment /\ q.status = "PENDING_MPESA"
    BY DEF Payment, Statuses
  <2> HIDE DEF q
  <2>3. /\ init' \in [Deposits -> InitPC] /\ init'[d] = "publish"
        /\ \A x \in Deposits : x # d => init'[x] = init[x]
    BY <1>1, <2>1, GotoStep DEF InitPC
  <2>4. /\ payment' \in [Deposits -> Payment] /\ payment'[d].status = "PENDING_MPESA"
        /\ \A x \in Deposits : x # d => payment'[x] = payment[x]
    BY <1>4, <2>1, <2>2
  <2>5. /\ payment[d].status \notin Final
        /\ \A c \in Callbacks : Deposit(c) = d => callback[c].pc \in {"idle", "find"}
        /\ InTurn => n = 0
    BY <2>1, NotFoundYet DEF Early, n
  <2>6. Honest(init'[d], payment'[d], prompt'[d], n)
    BY <1>1, <2>1, <2>3 DEF Honest, Early
  <2>7. /\ InTurn => Turn(payment'[d], n)
        /\ Undisturbed => Calm(init'[d], payment'[d], n)
    BY <2>3, <2>5 DEF Turn, Calm, Undisturbed
  <2>9. "COMPLETED" \notin {payment'[d].status, payment[d].status}
    BY <2>4, <2>5 DEF Final
  <2>10. /\ prompt' \in [Deposits -> {"none", "pending", "paid", "declined"}]
         /\ \A x \in Deposits : prompt'[x] = prompt[x]
    BY <1>4, <2>1
  <2> QED BY <1>10, <2>3, <2>4, <2>5, <2>6, <2>7, <2>9, <2>10, Untouched
<1>9. CASE InitiationFails(d)
  <2>1. init[d] = "fail" /\ SetStatus(d, "FAILED") /\ Goto(d, "failed")
        /\ UNCHANGED prompt
    BY <1>9 DEF InitiationFails, At, mpesa
  <2>2. /\ init' \in [Deposits -> InitPC] /\ init'[d] = "failed"
        /\ \A x \in Deposits : x # d => init'[x] = init[x]
    BY <1>1, <2>1, GotoStep DEF InitPC
  <2>3. /\ payment' \in [Deposits -> Payment] /\ payment'[d].status = "FAILED"
        /\ payment'[d].checkoutRequestId = payment[d].checkoutRequestId
        /\ \A x \in Deposits : x # d => payment'[x] = payment[x]
    BY <1>1, <2>1, SetStatusStep DEF Statuses, Final
  <2>4. Undisturbed =>
          /\ payment[d].status \notin Final
          /\ \A c \in Callbacks : Deposit(c) = d => callback[c].pc \in {"idle", "find"}
          /\ n = 0
    BY <2>1, NotFoundYet DEF n, Undisturbed
  <2>5. Honest(init'[d], payment'[d], prompt'[d], n)
    BY <1>1, <2>1, <2>2 DEF Honest, Early
  <2>6. \A c \in Callbacks : Deposit(c) = d =>
          /\ HonestCall(callback[c], payment'[d], prompt'[d])
          /\ InTurn => TurnCall(callback[c], payment'[d], n)
    <3>1. \A c \in Callbacks : Deposit(c) = d =>
            /\ HonestCall(callback[c], payment[d], prompt[d])
            /\ InTurn => TurnCall(callback[c], payment[d], n)
      BY RowFacts DEF n
    <3> QED BY <2>1, <2>3, <3>1 DEF HonestCall, TurnCall, Final
  <2>7. /\ InTurn => Turn(payment'[d], n)
        /\ Undisturbed => Calm(init'[d], payment'[d], n)
    BY <1>1, <2>2, <2>3, <2>4 DEF Turn, Calm, Final
  <2>9. Undisturbed => "COMPLETED" \notin {payment'[d].status, payment[d].status}
    BY <2>3, <2>4 DEF Final
  <2>10. Undisturbed => \A c \in Callbacks : Deposit(c) = d => CalmCall(callback[c], payment'[d])
    BY <2>4, Untouched
  <2> QED BY <1>4, <1>10, <2>1, <2>2, <2>3, <2>5, <2>6, <2>7, <2>9, <2>10
<1> QED BY <1>5, <1>6, <1>7, <1>8, <1>9 DEF Initiate

LEMMA PayInv ==
  ASSUME IInv, NEW d \in Deposits, Pay(d)
  PROVE  IInv'
<1> DEFINE n == Owed(d)
<1>1. /\ TypeOK /\ n = credited[d] + topic[d] /\ n \in Nat
      /\ Honest(init[d], payment[d], prompt[d], n)
      /\ InTurn => Turn(payment[d], n)
      /\ Undisturbed => Calm(init[d], payment[d], n)
  BY RowFacts DEF Owed
<1>2. /\ UNCHANGED <<faults, callback, deposited, init, payment, credited, topic, sent,
                     unmatched, dropped>>
      /\ prompt[d] = "pending"
      /\ prompt' \in [Deposits -> {"none", "pending", "paid", "declined"}]
      /\ \A x \in Deposits : x # d => prompt'[x] = prompt[x]
  BY <1>1 DEF Pay, effects, TypeOK
<1>3. \A c \in Callbacks : Deposit(c) = d =>
        /\ HonestCall(callback[c], payment[d], prompt[d])
        /\ InTurn => TurnCall(callback[c], payment[d], n)
        /\ Undisturbed => CalmCall(callback[c], payment[d])
  BY RowFacts
<1> HIDE DEF n
<1>4. TypeOK'
  BY <1>1, <1>2 DEF TypeOK
<1>5. Honest(init'[d], payment'[d], prompt'[d], n)
  BY <1>1, <1>2 DEF Honest
<1>6. \A c \in Callbacks : Deposit(c) = d => HonestCall(callback[c], payment'[d], prompt'[d])
  BY <1>2, <1>3 DEF HonestCall
<1>7. /\ n = credited'[d] + topic'[d]
      /\ InTurn => Turn(payment'[d], n)
                   /\ \A c \in Callbacks :
                        Deposit(c) = d => TurnCall(callback[c], payment'[d], n)
  BY <1>1, <1>2, <1>3
<1>8. Undisturbed => /\ Calm(init'[d], payment'[d], n)
                     /\ \A c \in Callbacks :
                          Deposit(c) = d => CalmCall(callback[c], payment'[d])
                     /\ payment'[d].status = payment[d].status
  BY <1>1, <1>2, <1>3
<1>9. /\ UNCHANGED <<faults, callback, deposited>>
      /\ \A x \in Deposits : x # d =>
           /\ init'[x] = init[x] /\ payment'[x] = payment[x] /\ prompt'[x] = prompt[x]
           /\ credited'[x] = credited[x] /\ topic'[x] = topic[x]
  BY <1>2
<1> QED BY <1>4, <1>5, <1>6, <1>7, <1>8, <1>9, RowStep

(* The wallet turns a message into a credit or loses it; only a second      *)
(* consumption adds to what is owed.                                        *)
LEMMA CreditInv ==
  ASSUME IInv, NEW d \in Deposits, HandleDepositCompleted(d)
  PROVE  IInv'
<1> DEFINE n == Owed(d)
           m == credited'[d] + topic'[d]
<1>1. /\ TypeOK /\ n = credited[d] + topic[d] /\ n \in Nat
      /\ credited[d] \in Nat /\ topic[d] \in Nat
      /\ Honest(init[d], payment[d], prompt[d], n)
      /\ InTurn => Turn(payment[d], n)
      /\ Undisturbed => Calm(init[d], payment[d], n)
  BY RowFacts DEF Owed
<1>2. /\ UNCHANGED <<faults, callback, deposited, init, payment, prompt, sent, unmatched>>
      /\ topic[d] > 0 /\ dropped' \in {dropped, dropped \cup {d}}
      /\ \/ /\ credited' = [credited EXCEPT ![d] = credited[d] + 1]
            /\ \/ topic' = [topic EXCEPT ![d] = topic[d] - 1]
               \/ ~InTurn /\ UNCHANGED topic
         \/ UNCHANGED credited /\ topic' = [topic EXCEPT ![d] = topic[d] - 1]
  BY DEF HandleDepositCompleted, mpesa, InTurn
<1>3. \A c \in Callbacks : Deposit(c) = d =>
        /\ HonestCall(callback[c], payment[d], prompt[d])
        /\ InTurn => TurnCall(callback[c], payment[d], n)
        /\ Undisturbed => CalmCall(callback[c], payment[d])
  BY RowFacts
<1>4. credited[d] + 1 \in Nat /\ topic[d] - 1 \in Nat
  BY <1>1, <1>2
<1>5. credited \in [Deposits -> Nat] /\ topic \in [Deposits -> Nat]
  BY <1>1 DEF TypeOK
<1>6. /\ credited' \in [Deposits -> Nat] /\ topic' \in [Deposits -> Nat]
      /\ \A x \in Deposits : x # d => credited'[x] = credited[x] /\ topic'[x] = topic[x]
      /\ \/ /\ credited'[d] = credited[d] + 1
            /\ \/ topic'[d] = topic[d] - 1
               \/ ~InTurn /\ topic'[d] = topic[d]
         \/ credited'[d] = credited[d] /\ topic'[d] = topic[d] - 1
  BY <1>2, <1>4, <1>5
<1>7. n > 0 /\ m \in Nat /\ (m \in {n, n - 1} \/ ~InTurn)
  BY <1>1, <1>2, <1>6
<1>8. Undisturbed => InTurn
  BY DEF Undisturbed
<1> HIDE DEF n, m
<1>9. TypeOK'
  <2>1. dropped' \subseteq Deposits
    BY <1>1, <1>2 DEF TypeOK
  <2> QED BY <1>1, <1>2, <1>6, <2>1 DEF TypeOK
<1>10. Honest(init'[d], payment'[d], prompt'[d], m)
  <2>1. Honest(init[d], payment[d], prompt[d], m)
    BY <1>1, <1>7 DEF Honest
  <2> QED BY <1>2, <2>1
<1>11. InTurn => /\ Turn(payment'[d], m)
                 /\ \A c \in Callbacks :
                      Deposit(c) = d => TurnCall(callback[c], payment'[d], m)
  <2> SUFFICES ASSUME InTurn
               PROVE  /\ Turn(payment[d], m)
                      /\ \A c \in Callbacks :
                           Deposit(c) = d => TurnCall(callback[c], payment[d], m)
    BY <1>2
  <2>1. n > 0 /\ n <= 1 /\ n \in Nat /\ m <= n /\ payment[d].status \in Final
    BY <1>1, <1>7 DEF Turn
  <2>2. Turn(payment[d], m)
    BY <1>7, <2>1 DEF Turn
  <2>3. \A c \in Callbacks : Deposit(c) = d =>
          ~(Undecided(callback[c]) \/ callback[c].pc \in Effects)
    BY <1>3, <2>1 DEF TurnCall
  <2> QED BY <2>2, <2>3 DEF TurnCall
<1>12. Undisturbed => /\ Calm(init'[d], payment'[d], m)
                      /\ \A c \in Callbacks :
                           Deposit(c) = d => CalmCall(callback[c], payment'[d])
                      /\ payment'[d].status = payment[d].status
  <2>1. Undisturbed => Calm(init[d], payment[d], m)
    BY <1>1, <1>7, <1>8 DEF Calm
  <2> QED BY <1>2, <1>3, <2>1
<1>13. \A c \in Callbacks : Deposit(c) = d => HonestCall(callback[c], payment'[d], prompt'[d])
  BY <1>2, <1>3
<1>14. /\ UNCHANGED <<faults, callback, deposited>> /\ m = credited'[d] + topic'[d]
       /\ \A x \in Deposits : x # d =>
            /\ init'[x] = init[x] /\ payment'[x] = payment[x] /\ prompt'[x] = prompt[x]
            /\ credited'[x] = credited[x] /\ topic'[x] = topic[x]
  BY <1>2, <1>6 DEF m
<1> QED BY <1>9, <1>10, <1>11, <1>12, <1>13, <1>14, RowStep

(* The handlers before their count, of which there is at most one. *)
UncountedIn(cb) == {cb[x].deposit : x \in {y \in Callbacks : cb[y].pc = "count"}}

LEMMA UncountedAlone ==
  ASSUME NEW cb, NEW c \in Callbacks, \A x \in Callbacks : x # c => cb[x].pc = "idle"
  PROVE  UncountedIn(cb) = IF cb[c].pc = "count" THEN {cb[c].deposit} ELSE {}
BY DEF UncountedIn

(* A handler that runs alone keeps the tracker in step with the payments:   *)
(* it completes one and is then before its count, counts what it completed, *)
(* or does neither.                                                         *)
LEMMA TrackerStep ==
  ASSUME IInv, Undisturbed, NEW c \in Callbacks, NEW d \in Deposits, d = Deposit(c),
         Alone(c), \A x \in Callbacks : x # c => callback'[x] = callback[x],
         \A x \in Deposits : x # d => payment'[x] = payment[x],
         callback'[c].pc = "count" => callback'[c].deposit = d,
         \/ /\ callback[c].pc # "count" /\ callback'[c].pc # "count"
            /\ \/ payment'[d].status = payment[d].status
               \/ "COMPLETED" \notin {payment'[d].status, payment[d].status}
            /\ deposited' = deposited
         \/ /\ callback[c].pc # "count" /\ callback'[c].pc = "count"
            /\ payment[d].status # "COMPLETED" /\ payment'[d].status = "COMPLETED"
            /\ deposited' = deposited
         \/ /\ callback[c].pc = "count" /\ callback'[c].pc # "count"
            /\ payment[d].status = "COMPLETED" /\ payment'[d].status = "COMPLETED"
            /\ deposited' = deposited + Amount
  PROVE  /\ IsFiniteSet(Completed')
         /\ deposited' = Amount * Cardinality(Completed' \ Uncounted')
<1>1. Uncounted = UncountedIn(callback) /\ Uncounted' = UncountedIn(callback')
  BY DEF Uncounted, UncountedIn, OnCall, Deposit
<1>2. /\ Uncounted = IF callback[c].pc = "count" THEN {d} ELSE {}
      /\ Uncounted' = IF callback'[c].pc = "count" THEN {d} ELSE {}
  <2>1. UncountedIn(callback) = IF callback[c].pc = "count" THEN {callback[c].deposit}
                                                            ELSE {}
    BY UncountedAlone DEF Alone
  <2>2. \A x \in Callbacks : x # c => callback'[x].pc = "idle"
    BY DEF Alone
  <2>3. UncountedIn(callback') = IF callback'[c].pc = "count"
                                 THEN {callback'[c].deposit} ELSE {}
    BY <2>2, UncountedAlone
  <2> QED BY <1>1, <2>1, <2>3 DEF Deposit
<1>3. /\ IsFiniteSet(Completed) /\ deposited = Amount * Cardinality(Completed \ Uncounted)
      /\ Amount \in Nat
  BY StateFacts DEF IInv
<1>4. Completed' = {x \in Deposits : payment'[x].status = "COMPLETED"}
  BY DEF Completed
<1>5. CASE /\ callback[c].pc # "count" /\ callback'[c].pc # "count"
           /\ \/ payment'[d].status = payment[d].status
              \/ "COMPLETED" \notin {payment'[d].status, payment[d].status}
           /\ deposited' = deposited
  <2>1. Completed' = Completed
    BY <1>4, <1>5 DEF Completed
  <2> QED BY <1>2, <1>3, <1>5, <2>1
<1>6. CASE /\ callback[c].pc # "count" /\ callback'[c].pc = "count"
           /\ payment[d].status # "COMPLETED" /\ payment'[d].status = "COMPLETED"
           /\ deposited' = deposited
  <2>1. Completed' = Completed \cup {d} /\ d \notin Completed
    BY <1>4, <1>6 DEF Completed
  <2>2. IsFiniteSet(Completed \cup {d})
    BY <1>3, FS_AddElement
  <2>3. Completed' \ Uncounted' = Completed \ Uncounted
    BY <1>2, <1>6, <2>1
  <2> QED BY <1>3, <1>6, <2>1, <2>2, <2>3
<1>7. CASE /\ callback[c].pc = "count" /\ callback'[c].pc # "count"
           /\ payment[d].status = "COMPLETED" /\ payment'[d].status = "COMPLETED"
           /\ deposited' = deposited + Amount
  <2> DEFINE S == Completed \ {d}
  <2>1. Completed' = Completed /\ d \in Completed
    BY <1>4, <1>7 DEF Completed
  <2>2. Completed \ Uncounted = S /\ Completed' \ Uncounted' = S \cup {d}
    BY <1>2, <1>7, <2>1
  <2>3. IsFiniteSet(S) /\ d \notin S
    BY <1>3, FS_Subset
  <2> HIDE DEF S
  <2>4. Cardinality(S \cup {d}) = Cardinality(S) + 1 /\ Cardinality(S) \in Nat
    BY <2>3, FS_AddElement, FS_CardinalityType
  <2>5. \A i \in Nat : Amount * (i + 1) = Amount * i + Amount
    BY <1>3
  <2>6. deposited' = Amount * Cardinality(S \cup {d})
    BY <1>3, <1>7, <2>2, <2>4, <2>5
  <2> QED BY <1>3, <2>1, <2>2, <2>6
<1> QED BY <1>5, <1>6, <1>7

(* A step of one handler, which changes at most its own deposit. *)
LEMMA CallStep ==
  ASSUME IInv, TypeOK', UNCHANGED <<faults, init, prompt>>,
         NEW c \in Callbacks, callback[c].pc # "idle",
         NEW d \in Deposits, d = Deposit(c),
         \A x \in Callbacks : x # c => callback'[x] = callback[x],
         \A x \in Deposits : x # d => /\ payment'[x] = payment[x]
                                      /\ credited'[x] = credited[x] /\ topic'[x] = topic[x],
         payment'[d].checkoutRequestId = payment[d].checkoutRequestId,
         NEW n, n = credited'[d] + topic'[d],
         Honest(init[d], payment'[d], prompt[d], n),
         InTurn => Turn(payment'[d], n),
         Undisturbed => /\ Calm(init[d], payment'[d], n)
                        /\ IsFiniteSet(Completed')
                        /\ deposited' = Amount * Cardinality(Completed' \ Uncounted'),
         \/ callback'[c].pc = "idle"
         \/ /\ callback'[c].deposit = d
            /\ HonestCall(callback'[c], payment'[d], prompt[d])
            /\ InTurn => TurnCall(callback'[c], payment'[d], n)
            /\ Undisturbed => CalmCall(callback'[c], payment'[d])
  PROVE  IInv'
<1> DEFINE K(x) == callback'[x]
           D(x) == callback'[x].deposit
           N(x) == credited'[x] + topic'[x]
<1>1. /\ InTurn' <=> InTurn
      /\ Undisturbed' <=> Undisturbed
      /\ Undisturbed => InTurn
  BY DEF InTurn, Undisturbed
<1>2. \A x \in Callbacks : Deposit(x) \in Deposits /\ Deposit(x) = callback[x].deposit
  BY StateFacts DEF IInv, Deposit
<1>3. InTurn => Alone(c)
  BY DEF IInv
<1>4. \A x \in Deposits : Honest(init'[x], payment'[x], prompt'[x], N(x))
  BY DEF IInv, Owed
<1>5. ASSUME NEW x \in Callbacks, x # c
      PROVE  /\ HonestCall(K(x), payment'[D(x)], prompt'[D(x)])
             /\ InTurn => K(x).pc = "idle"
  <2>1. HonestCall(callback[x], payment[Deposit(x)], prompt[Deposit(x)])
    BY DEF IInv
  <2>2. HonestCall(callback[x], payment'[Deposit(x)], prompt[Deposit(x)])
    BY <1>2, <2>1 DEF HonestCall
  <2> QED BY <1>2, <1>3, <1>5, <2>2 DEF Alone
<1>6. ASSUME NEW x \in Callbacks
      PROVE  /\ HonestCall(K(x), payment'[D(x)], prompt'[D(x)])
             /\ InTurn => TurnCall(K(x), payment'[D(x)], N(D(x)))
             /\ Undisturbed => CalmCall(K(x), payment'[D(x)])
  <2>1. CASE K(x).pc = "idle"
    BY <2>1, Untouched
  <2>2. CASE x # c /\ K(x).pc # "idle"
    BY <1>1, <1>5, <2>2
  <2>3. CASE x = c /\ K(x).pc # "idle"
    BY <2>3
  <2> QED BY <2>1, <2>2, <2>3
<1>7. InTurn => /\ \A x \in Deposits : Turn(payment'[x], N(x))
                /\ \A x \in Callbacks : callback'[x].pc # "idle" => Alone(x)'
  <2>1. InTurn => \A x \in Deposits : Turn(payment'[x], N(x))
    BY DEF IInv, Owed
  <2>2. InTurn => \A x \in Callbacks : callback'[x].pc # "idle" => Alone(x)'
    BY <1>5 DEF Alone
  <2> QED BY <2>1, <2>2
<1>8. Undisturbed => \A x \in Deposits : Calm(init'[x], payment'[x], N(x))
  BY DEF IInv, Owed
<1> QED BY <1>1, <1>4, <1>6, <1>7, <1>8 DEF IInv, Owed, Deposit

LEMMA CallBackInv ==
  ASSUME IInv, NEW c \in Callbacks, NEW d \in Deposits, CallBack(c, d)
  PROVE  IInv'
<1>1. TypeOK
  BY DEF IInv
<1>2. PICK success \in BOOLEAN :
        callback' = [callback EXCEPT ![c] = [pc |-> "find", deposit |-> d,
                                             success |-> success, status |-> "NONE"]]
  BY DEF CallBack
<1> DEFINE k == [pc |-> "find", deposit |-> d, success |-> success, status |-> "NONE"]
<1>3. k \in Callback /\ k.pc = "find"
  BY DEF Callback, Statuses
<1>4. callback' = [callback EXCEPT ![c] = k]
  BY <1>2
<1> HIDE DEF k
<1>5. /\ callback' \in [Callbacks -> Callback] /\ callback'[c].pc = "find"
      /\ \A x \in Callbacks : x # c => callback'[x] = callback[x]
  BY <1>1, <1>3, <1>4 DEF TypeOK
<1>6. /\ UNCHANGED <<faults, payment, prompt, init, unmatched, deposited, topic, credited, dropped>>
      /\ callback[c].pc = "idle"
      /\ InTurn => \A x \in Callbacks : callback[x].pc = "idle"
      /\ sent[d] < MaxCallbacks /\ sent' = [sent EXCEPT ![d] = sent[d] + 1]
  BY DEF CallBack, effects, InTurn
<1>7. sent' \in [Deposits -> 0..MaxCallbacks]
  <2>1. sent[d] \in Nat /\ MaxCallbacks \in Nat
    BY <1>1, StateFacts
  <2>2. sent[d] + 1 \in 0..MaxCallbacks
    BY <1>6, <2>1
  <2> QED BY <1>1, <1>6, <2>2 DEF TypeOK
<1>8. TypeOK'
  BY <1>1, <1>5, <1>6, <1>7 DEF TypeOK
<1>9. /\ InTurn' <=> InTurn
      /\ Undisturbed' <=> Undisturbed
      /\ Undisturbed => InTurn
  BY <1>6 DEF InTurn, Undisturbed
<1>10. ASSUME NEW x \in Callbacks
       PROVE  LET y == callback'[x].deposit
              IN  /\ HonestCall(callback'[x], payment[y], prompt[y])
                  /\ InTurn => TurnCall(callback'[x], payment[y], Owed(y))
                  /\ Undisturbed => CalmCall(callback'[x], payment[y])
  <2>1. CASE x = c
    BY <1>5, <2>1, Untouched
  <2>2. CASE x # c
    BY <1>5, <2>2 DEF IInv, Deposit
  <2> QED BY <2>1, <2>2
<1>11. InTurn => /\ Uncounted = {} /\ Uncounted' = {}
                 /\ \A x \in Callbacks : callback'[x].pc # "idle" => Alone(x)'
  <2>1. ASSUME InTurn
        PROVE  \A x \in Callbacks : /\ callback[x].pc # "count" /\ callback'[x].pc # "count"
                                    /\ x # c => callback'[x].pc = "idle"
    BY <1>5, <1>6, <2>1
  <2> QED BY <2>1 DEF Uncounted, OnCall, Alone
<1>12. Completed' = Completed
  BY <1>6 DEF Completed
<1>13. \A x \in Deposits : Owed(x)' = Owed(x)
  BY <1>6 DEF Owed
<1>14. \A x \in Callbacks : callback'[x].deposit \in Deposits
  BY <1>5 DEF Callback
<1>15. /\ \A x \in Deposits : Honest(init'[x], payment'[x], prompt'[x], Owed(x)')
       /\ \A x \in Callbacks : HonestCall(callback'[x], payment'[Deposit(x)'],
                                          prompt'[Deposit(x)'])
  BY <1>6, <1>10, <1>13 DEF IInv, Deposit
<1>16. InTurn => /\ \A x \in Deposits : Turn(payment'[x], Owed(x)')
                 /\ \A x \in Callbacks :
                      TurnCall(callback'[x], payment'[Deposit(x)'], Owed(Deposit(x))')
  <2>1. InTurn => \A x \in Deposits : Turn(payment'[x], Owed(x)')
    BY <1>6, <1>13 DEF IInv
  <2>2. InTurn => \A x \in Callbacks :
                    TurnCall(callback'[x], payment'[Deposit(x)'], Owed(Deposit(x))')
    BY <1>6, <1>10, <1>13, <1>14 DEF Deposit, Owed
  <2> QED BY <2>1, <2>2
<1>17. Undisturbed =>
         /\ \A x \in Deposits : Calm(init'[x], payment'[x], Owed(x)')
         /\ \A x \in Callbacks : CalmCall(callback'[x], payment'[Deposit(x)'])
         /\ IsFiniteSet(Completed')
         /\ deposited' = Amount * Cardinality(Completed' \ Uncounted')
  <2>1. Undisturbed => \A x \in Deposits : Calm(init'[x], payment'[x], Owed(x)')
    BY <1>6, <1>13 DEF IInv
  <2>2. Undisturbed => \A x \in Callbacks : CalmCall(callback'[x], payment'[Deposit(x)'])
    BY <1>6, <1>10 DEF Deposit
  <2>3. Undisturbed => /\ IsFiniteSet(Completed')
                       /\ deposited' = Amount * Cardinality(Completed' \ Uncounted')
    BY <1>6, <1>9, <1>11, <1>12 DEF IInv
  <2> QED BY <2>1, <2>2, <2>3
<1> QED BY <1>8, <1>9, <1>11, <1>15, <1>16, <1>17 DEF IInv

LEMMA HandleInv ==
  ASSUME IInv, NEW c \in Callbacks, HandleStkCallback(c)
  PROVE  IInv'
<1> DEFINE d == Deposit(c)
           k == callback[c]
           k2 == callback'[c]
           p == payment[d]
           n == Owed(d)
<1>1. /\ TypeOK /\ d \in Deposits /\ k \in Callback /\ k.deposit = d
      /\ p \in Payment /\ Amount \in Nat /\ deposited \in Nat
  BY StateFacts DEF IInv, Deposit
<1>2. /\ n = credited[d] + topic[d] /\ n \in Nat /\ credited[d] \in Nat /\ topic[d] \in Nat
      /\ Honest(init[d], p, prompt[d], n) /\ HonestCall(k, p, prompt[d])
      /\ InTurn => Turn(p, n) /\ TurnCall(k, p, n)
      /\ Undisturbed => Calm(init[d], p, n) /\ CalmCall(k, p)
  BY <1>1, RowFacts DEF Owed
<1>3. /\ UNCHANGED <<faults, init, prompt, sent, credited>> /\ k.pc # "idle"
      /\ Undisturbed => InTurn
      /\ InTurn => Alone(c)
      /\ dropped' \subseteq Deposits
  BY <1>1 DEF TypeOK, HandleStkCallback, FindPayment, StoreCallback, VerifyStkPayment, Complete,
         IncrementDailyLimit, PublishCompleted, Fail, OnCall, mpesa, effects, IInv,
         Undisturbed
<1>4. k.pc # "find" => /\ p.checkoutRequestId = TRUE
                       /\ init[d] \notin Early /\ (Undisturbed => init[d] # "fail")
  BY <1>2, <1>3 DEF HonestCall, Honest, Calm
<1>5. /\ \A pc \in CallPC : Continue(c, pc) =>
           /\ callback' \in [Callbacks -> Callback] /\ k2.pc = pc
           /\ k2.deposit = d /\ k2.status = k.status
           /\ \A x \in Callbacks : x # c => callback'[x] = callback[x]
      /\ End(c) =>
           /\ callback' \in [Callbacks -> Callback] /\ k2.pc = "idle"
           /\ \A x \in Callbacks : x # c => callback'[x] = callback[x]
  BY <1>1, ContinueStep
<1> HIDE DEF n
(* A step that leaves the tables alone and is not the count. *)
<1>6. ASSUME UNCHANGED <<payment, deposited, topic>>, unmatched' \subseteq Deposits,
             callback' \in [Callbacks -> Callback],
             \A x \in Callbacks : x # c => callback'[x] = callback[x],
             k.pc # "count" /\ k2.pc # "count",
             \/ k2.pc = "idle"
             \/ /\ k2.deposit = d /\ HonestCall(k2, p, prompt[d])
                /\ InTurn => TurnCall(k2, p, n)
                /\ Undisturbed => CalmCall(k2, p)
      PROVE  IInv'
  <2>1. TypeOK'
    BY <1>1, <1>3, <1>6 DEF TypeOK
  <2>2. n = credited'[d] + topic'[d]
    BY <1>2, <1>3, <1>6
  <2>3. ASSUME Undisturbed
        PROVE  /\ IsFiniteSet(Completed')
               /\ deposited' = Amount * Cardinality(Completed' \ Uncounted')
    <3>1. \A x \in Deposits : x # d => payment'[x] = payment[x]
      BY <1>6
    <3>2. payment'[d].status = payment[d].status /\ deposited' = deposited
      BY <1>6
    <3> QED BY <1>1, <1>3, <1>6, <2>3, <3>1, <3>2, TrackerStep
  <2>4. \A x \in Deposits : /\ payment'[x] = payment[x]
                            /\ credited'[x] = credited[x] /\ topic'[x] = topic[x]
    BY <1>3, <1>6
  <2>5. /\ Honest(init[d], payment'[d], prompt[d], n)
        /\ InTurn => Turn(payment'[d], n)
        /\ Undisturbed => Calm(init[d], payment'[d], n)
    BY <1>1, <1>2, <2>4
  <2>6. \/ k2.pc = "idle"
        \/ /\ k2.deposit = d /\ HonestCall(k2, payment'[d], prompt[d])
           /\ InTurn => TurnCall(k2, payment'[d], n)
           /\ Undisturbed => CalmCall(k2, payment'[d])
    BY <1>1, <1>6, <2>4
  <2> QED BY <1>1, <1>3, <1>6, <2>1, <2>2, <2>3, <2>4, <2>5, <2>6, CallStep
<1>7. CASE FindPayment(c)
  <2>1. /\ k.pc = "find" /\ UNCHANGED <<payment, deposited, topic>>
        /\ unmatched' \subseteq Deposits
    BY <1>1, <1>7 DEF FindPayment, OnCall, effects, TypeOK
  <2>2. CASE End(c)
    BY <1>5, <1>6, <2>1, <2>2
  <2>3. CASE /\ p.checkoutRequestId
             /\ callback' = [callback EXCEPT ![c] = [k EXCEPT !.pc = "store",
                                                              !.status = p.status]]
    <3> DEFINE s == p.status
               y == [k EXCEPT !.pc = "store", !.status = s]
    <3>1. s \in Statuses /\ p.checkoutRequestId = TRUE
      BY <1>1, <2>3 DEF Payment
    <3>2. y \in Callback /\ y.pc = "store" /\ y.status = s /\ y.deposit = d
      <4> HIDE DEF s
      <4> QED BY <1>1, <3>1 DEF Callback
    <3>3. callback' = [callback EXCEPT ![c] = y]
      BY <2>3
    <3> HIDE DEF y
    <3>4. /\ callback' \in [Callbacks -> Callback] /\ k2 = y
          /\ \A x \in Callbacks : x # c => callback'[x] = callback[x]
      BY <1>1, <3>2, <3>3 DEF TypeOK
    <3>5. HonestCall(k2, p, prompt[d])
      BY <3>1, <3>2, <3>4 DEF HonestCall, Effects
    <3>6. InTurn => TurnCall(k2, p, n)
      BY <1>2, <3>2, <3>4 DEF Turn, TurnCall, Undecided, Verdicts, Effects
    <3>7. Undisturbed => CalmCall(k2, p)
      BY <3>2, <3>4 DEF CalmCall, Undecided, Verdicts, Effects
    <3> QED BY <1>6, <2>1, <3>2, <3>4, <3>5, <3>6, <3>7
  <2> QED BY <1>7, <2>2, <2>3 DEF FindPayment
<1>8. CASE StoreCallback(c) \/ VerifyStkPayment(c)
  <2>1. /\ UNCHANGED <<payment, deposited, topic, unmatched>>
        /\ k.pc \in {"store", "verify"}
        /\ \/ End(c)
           \/ /\ Undecided(k)
              /\ \E pc \in Verdicts : /\ Continue(c, pc)
                                      /\ pc = "complete" => prompt[d] = "paid"
    BY <1>8 DEF StoreCallback, VerifyStkPayment, AlreadyProcessed, OnCall, effects,
                Undecided, Verdicts
  <2>2. unmatched' \subseteq Deposits
    BY <1>1, <2>1 DEF TypeOK
  <2>3. CASE End(c)
    BY <1>5, <1>6, <2>1, <2>2, <2>3
  <2>4. ASSUME NEW pc \in Verdicts, Continue(c, pc), Undecided(k),
               pc = "complete" => prompt[d] = "paid"
        PROVE  IInv'
    <3>1. /\ callback' \in [Callbacks -> Callback] /\ k2.pc = pc /\ k2.deposit = d
          /\ \A x \in Callbacks : x # c => callback'[x] = callback[x]
      BY <1>5, <2>4 DEF Verdicts, CallPC
    <3>2. HonestCall(k2, p, prompt[d])
      BY <1>4, <2>1, <2>4, <3>1 DEF HonestCall, Verdicts, Effects
    <3>3. InTurn => TurnCall(k2, p, n)
      BY <1>2, <2>4, <3>1 DEF TurnCall, Verdicts, Effects
    <3>4. Undisturbed => CalmCall(k2, p)
      BY <1>2, <2>4, <3>1 DEF CalmCall, Verdicts, Effects
    <3>5. k.pc # "count" /\ k2.pc # "count"
      BY <2>1, <3>1 DEF Verdicts
    <3> QED BY <1>6, <2>1, <2>2, <3>1, <3>2, <3>3, <3>4, <3>5
  <2> QED BY <2>1, <2>3, <2>4
<1>9. CASE Complete(c)
  <2>1. /\ k.pc = "complete" /\ SetStatus(d, "COMPLETED") /\ Continue(c, "count")
        /\ UNCHANGED <<deposited, topic, unmatched>>
    BY <1>9 DEF Complete, OnCall, effects
  <2>2. /\ payment' \in [Deposits -> Payment] /\ payment'[d].status = "COMPLETED"
        /\ payment'[d].checkoutRequestId = p.checkoutRequestId
        /\ \A x \in Deposits : x # d => payment'[x] = payment[x]
    BY <1>1, <2>1, SetStatusStep DEF Statuses, Final
  <2>3. /\ callback' \in [Callbacks -> Callback] /\ k2.pc = "count" /\ k2.deposit = d
        /\ \A x \in Callbacks : x # c => callback'[x] = callback[x]
    BY <1>5, <2>1 DEF CallPC
  <2>4. TypeOK'
    BY <1>1, <1>3, <2>1, <2>2, <2>3 DEF TypeOK
  <2>5. /\ InTurn => n = 0
        /\ Undisturbed => p.status \notin Final
        /\ prompt[d] = "paid"
    BY <1>2, <2>1 DEF TurnCall, CalmCall, HonestCall, Undecided, Verdicts
  <2>6. /\ Honest(init[d], payment'[d], prompt[d], n)
        /\ InTurn => Turn(payment'[d], n)
        /\ Undisturbed => Calm(init[d], payment'[d], n)
    <3>1. init[d] \notin Early /\ (Undisturbed => init[d] # "fail")
      BY <1>4, <2>1
    <3>2. Honest(init[d], payment'[d], prompt[d], n)
      BY <1>2, <2>5, <3>1 DEF Honest, Early
    <3> QED BY <2>2, <2>5, <3>1, <3>2 DEF Turn, Calm, Final
  <2>7. /\ HonestCall(k2, payment'[d], prompt[d])
        /\ InTurn => TurnCall(k2, payment'[d], n)
        /\ Undisturbed => CalmCall(k2, payment'[d])
    BY <1>4, <2>1, <2>2, <2>3, <2>5
       DEF HonestCall, TurnCall, CalmCall, Undecided, Verdicts, Effects, Final
  <2>8. ASSUME Undisturbed
        PROVE  /\ IsFiniteSet(Completed')
               /\ deposited' = Amount * Cardinality(Completed' \ Uncounted')
    <3>1. /\ k.pc # "count" /\ k2.pc = "count" /\ payment[d].status # "COMPLETED"
          /\ payment'[d].status = "COMPLETED" /\ deposited' = deposited
      BY <2>1, <2>2, <2>3, <2>5, <2>8 DEF Final
    <3> QED BY <1>1, <1>3, <2>2, <2>3, <2>8, <3>1, TrackerStep
  <2>9. /\ n = credited'[d] + topic'[d]
        /\ \A x \in Deposits : x # d => /\ payment'[x] = payment[x]
                                        /\ credited'[x] = credited[x] /\ topic'[x] = topic[x]
    BY <1>2, <1>3, <2>1, <2>2
  <2> QED BY <1>1, <1>3, <2>2, <2>3, <2>4, <2>6, <2>7, <2>8, <2>9, CallStep
<1>10. CASE IncrementDailyLimit(c)
  <2>1. /\ k.pc = "count" /\ Continue(c, "publish") /\ deposited' = deposited + Amount
        /\ UNCHANGED <<payment, topic, unmatched>>
    BY <1>10 DEF IncrementDailyLimit, OnCall
  <2>2. /\ callback' \in [Callbacks -> Callback] /\ k2.pc = "publish" /\ k2.deposit = d
        /\ \A x \in Callbacks : x # c => callback'[x] = callback[x]
    BY <1>5, <2>1 DEF CallPC
  <2>3. TypeOK'
    <3>1. deposited' \in Nat
      BY <1>1, <2>1
    <3> QED BY <1>1, <1>3, <2>1, <2>2, <3>1 DEF TypeOK
  <2>4. /\ HonestCall(k2, p, prompt[d])
        /\ InTurn => TurnCall(k2, p, n)
        /\ Undisturbed => CalmCall(k2, p)
    BY <1>2, <2>1, <2>2 DEF HonestCall, TurnCall, CalmCall, Undecided, Verdicts, Effects
  <2>5. /\ n = credited'[d] + topic'[d]
        /\ \A x \in Deposits : /\ payment'[x] = payment[x]
                               /\ credited'[x] = credited[x] /\ topic'[x] = topic[x]
    BY <1>2, <1>3, <2>1
  <2>6. ASSUME Undisturbed
        PROVE  /\ IsFiniteSet(Completed')
               /\ deposited' = Amount * Cardinality(Completed' \ Uncounted')
    <3>1. /\ k.pc = "count" /\ k2.pc # "count" /\ payment[d].status = "COMPLETED"
          /\ payment'[d].status = "COMPLETED" /\ deposited' = deposited + Amount
      BY <1>1, <1>2, <2>1, <2>2, <2>5, <2>6 DEF CalmCall, Effects
    <3> QED BY <1>1, <1>3, <2>2, <2>5, <2>6, <3>1, TrackerStep
  <2>7. payment'[d] = p
    BY <1>1, <2>5
  <2> QED BY <1>1, <1>2, <1>3, <2>2, <2>3, <2>4, <2>5, <2>6, <2>7, CallStep
<1>11. CASE PublishCompleted(c)
  <2> DEFINE m == credited'[d] + topic'[d]
  <2>1. /\ k.pc = "publish" /\ End(c) /\ UNCHANGED <<payment, deposited, unmatched>>
        /\ topic' = [topic EXCEPT ![d] = topic[d] + 1] \/ UNCHANGED topic
    BY <1>11 DEF PublishCompleted, OnCall
  <2>2. /\ callback' \in [Callbacks -> Callback] /\ k2.pc = "idle"
        /\ \A x \in Callbacks : x # c => callback'[x] = callback[x]
    BY <1>5, <2>1
  <2>3. /\ topic' \in [Deposits -> Nat] /\ topic'[d] \in {topic[d], topic[d] + 1}
        /\ \A x \in Deposits : x # d => topic'[x] = topic[x]
    <3>1. topic \in [Deposits -> Nat] /\ topic[d] + 1 \in Nat
      BY <1>1, <1>2 DEF TypeOK
    <3> QED BY <1>1, <2>1, <3>1
  <2>4. m \in {n, n + 1}
    BY <1>1, <1>2, <1>3, <2>3
  <2>5. TypeOK'
    BY <1>1, <1>3, <2>1, <2>2, <2>3 DEF TypeOK
  <2>6. /\ prompt[d] = "paid"
        /\ InTurn => n = 0 /\ p.status \in Final
        /\ Undisturbed => p.status = "COMPLETED"
    BY <1>2, <2>1 DEF HonestCall, TurnCall, CalmCall, Effects
  <2> HIDE DEF m
  <2>7. /\ Honest(init[d], p, prompt[d], m)
        /\ InTurn => Turn(p, m)
        /\ Undisturbed => Calm(init[d], p, m)
    <3>1. Honest(init[d], p, prompt[d], m)
      BY <1>2, <2>6 DEF Honest
    <3>2. InTurn => Turn(p, m)
      BY <2>4, <2>6 DEF Turn
    <3>3. Undisturbed => Calm(init[d], p, m)
      BY <1>2, <2>6 DEF Calm
    <3> QED BY <3>1, <3>2, <3>3
  <2>8. payment'[d] = p /\ m = credited'[d] + topic'[d]
        /\ \A x \in Deposits : x # d => /\ payment'[x] = payment[x]
                                        /\ credited'[x] = credited[x] /\ topic'[x] = topic[x]
    BY <1>1, <1>3, <2>1, <2>3 DEF m
  <2>9. ASSUME Undisturbed
        PROVE  /\ IsFiniteSet(Completed')
               /\ deposited' = Amount * Cardinality(Completed' \ Uncounted')
    <3>1. /\ k.pc # "count" /\ k2.pc # "count" /\ deposited' = deposited
          /\ payment'[d].status = payment[d].status
      BY <2>1, <2>2, <2>8
    <3> QED BY <1>1, <1>3, <2>2, <2>8, <2>9, <3>1, TrackerStep
  <2> QED BY <1>1, <1>3, <2>2, <2>5, <2>7, <2>8, <2>9, CallStep
<1>12. CASE Fail(c)
  <2>1. /\ k.pc \in {"unverified", "fail"} /\ SetStatus(d, "FAILED") /\ End(c)
        /\ UNCHANGED <<deposited, topic, unmatched>>
    BY <1>12 DEF Fail, OnCall, effects
  <2>2. /\ payment' \in [Deposits -> Payment] /\ payment'[d].status = "FAILED"
        /\ payment'[d].checkoutRequestId = p.checkoutRequestId
        /\ \A x \in Deposits : x # d => payment'[x] = payment[x]
    BY <1>1, <2>1, SetStatusStep DEF Statuses, Final
  <2>3. /\ callback' \in [Callbacks -> Callback] /\ k2.pc = "idle"
        /\ \A x \in Callbacks : x # c => callback'[x] = callback[x]
    BY <1>5, <2>1
  <2>4. TypeOK'
    BY <1>1, <1>3, <2>1, <2>2, <2>3 DEF TypeOK
  <2>5. /\ InTurn => n = 0
        /\ Undisturbed => p.status \notin Final
    BY <1>2, <2>1 DEF TurnCall, CalmCall, Undecided, Verdicts
  <2>6. /\ Honest(init[d], payment'[d], prompt[d], n)
        /\ InTurn => Turn(payment'[d], n)
        /\ Undisturbed => Calm(init[d], payment'[d], n)
    <3>1. init[d] \notin Early /\ (Undisturbed => init[d] # "fail")
      BY <1>4, <2>1
    <3>2. Honest(init[d], payment'[d], prompt[d], n)
      BY <1>2, <3>1 DEF Honest, Early
    <3> QED BY <1>3, <2>5, <3>1, <3>2 DEF Turn, Calm
  <2>7. ASSUME Undisturbed
        PROVE  /\ IsFiniteSet(Completed')
               /\ deposited' = Amount * Cardinality(Completed' \ Uncounted')
    <3>1. /\ k.pc # "count" /\ k2.pc # "count" /\ deposited' = deposited
          /\ "COMPLETED" \notin {payment'[d].status, payment[d].status}
      BY <2>1, <2>2, <2>3, <2>5, <2>7 DEF Final
    <3> QED BY <1>1, <1>3, <2>2, <2>3, <2>7, <3>1, TrackerStep
  <2>8. /\ n = credited'[d] + topic'[d]
        /\ \A x \in Deposits : x # d => /\ payment'[x] = payment[x]
                                        /\ credited'[x] = credited[x] /\ topic'[x] = topic[x]
    BY <1>2, <1>3, <2>1, <2>2
  <2> QED BY <1>1, <1>3, <2>2, <2>3, <2>4, <2>6, <2>7, <2>8, CallStep
<1> QED BY <1>7, <1>8, <1>9, <1>10, <1>11, <1>12 DEF HandleStkCallback

LEMMA InitInv == Init => IInv
<1> SUFFICES ASSUME Init PROVE IInv
  OBVIOUS
<1>1. /\ \A d \in Deposits : /\ init[d] = "idle" /\ prompt[d] = "none"
                             /\ payment[d].status = "NONE"
                             /\ payment[d].checkoutRequestId = FALSE
                             /\ credited[d] = 0 /\ topic[d] = 0
      /\ \A c \in Callbacks : callback[c] = Idle
      /\ deposited = 0
  BY DEF Init
<1>2. TypeOK
  <2>1. [status |-> "NONE", checkoutRequestId |-> FALSE] \in Payment
    BY DEF Payment, Statuses
  <2>2. 0 \in 0..MaxCallbacks
    BY DepositAssumption
  <2> QED BY <2>1, <2>2, IdleType DEF Init, TypeOK
<1>3. \A d \in Deposits : Owed(d) = 0
  BY <1>1 DEF Owed
<1>4. \A d \in Deposits : Honest(init[d], payment[d], prompt[d], Owed(d))
  BY <1>1, <1>3 DEF Honest, Final
<1>5. \A d \in Deposits : Turn(payment[d], Owed(d)) /\ Calm(init[d], payment[d], Owed(d))
  BY <1>1, <1>3 DEF Turn, Calm
<1>6. \A c \in Callbacks : callback[c].pc = "idle"
  BY <1>1, IdleType
<1>7. Completed = {} /\ Uncounted = {}
  BY <1>1, <1>6 DEF Completed, Uncounted, OnCall
<1>8. IsFiniteSet(Completed) /\ deposited = Amount * Cardinality(Completed \ Uncounted)
  <2>1. Completed \ Uncounted = {} /\ Amount \in Nat
    BY <1>7, DepositAssumption
  <2> QED BY <1>1, <1>7, <2>1, FS_EmptySet
<1> QED BY <1>2, <1>4, <1>5, <1>6, <1>8, Untouched DEF IInv

LEMMA NextInv == IInv /\ [Next]_vars => IInv'
<1> SUFFICES ASSUME IInv, [Next]_vars PROVE IInv'
  OBVIOUS
<1>1. CASE UNCHANGED vars
  BY <1>1 DEF vars, mpesa, effects, IInv, TypeOK, InTurn, Undisturbed, Owed, Deposit, Alone,
              Completed, Uncounted, OnCall
<1> QED BY <1>1, InitiateInv, PayInv, CreditInv, CallBackInv, HandleInv DEF Next

(* Every state that deposits reach is well typed.                           *)
THEOREM TypeCorrect == Spec => []TypeOK
<1>1. IInv => TypeOK
  BY DEF IInv
<1> QED BY <1>1, InitInv, NextInv, PTL DEF Spec

(* The inductive invariant: what a handler read of a payment is still true, *)
(* as far as the faults allow.                                              *)
THEOREM InductiveInvariant == Spec => []IInv
BY InitInv, NextInv, PTL DEF Spec

LEMMA ShownOfIInv == IInv => ShownIsCredited
<1> SUFFICES ASSUME IInv, Undisturbed
             PROVE  LET done == {d \in Deposits : credited[d] > 0}
                    IN  /\ \A d \in done : getPaymentStatus(d) = "COMPLETED"
                        /\ Amount * Cardinality(done)
                             <= getAllPayments(Final).completedDepositsKes
  BY DEF ShownIsCredited
<1> DEFINE done == {d \in Deposits : credited[d] > 0}
           shown == {d \in DOMAIN getPaymentHistory : payment[d].status \in Final}
           counted == {d \in shown : payment[d].status = "COMPLETED"}
<1>1. \A d \in done : payment[d].status = "COMPLETED"
  <2>1. ASSUME NEW d \in done PROVE Owed(d) > 0
    BY <2>1, StateFacts DEF IInv, Owed
  <2> QED BY <2>1 DEF IInv, Calm
<1>2. \A d \in done : getPaymentStatus(d) = "COMPLETED"
  BY <1>1 DEF getPaymentStatus, getPaymentHistory
<1>3. counted = Completed
  BY DEF getPaymentHistory, Completed, Final
<1>4. done \subseteq Completed
  BY <1>1 DEF Completed
<1>5. IsFiniteSet(Completed) /\ Amount \in Nat
  BY StateFacts DEF IInv
<1> HIDE DEF done
<1>6. /\ Cardinality(done) \in Nat /\ Cardinality(Completed) \in Nat
      /\ Cardinality(done) <= Cardinality(Completed)
  BY <1>4, <1>5, FS_Subset, FS_CardinalityType
<1>7. \A i, j \in Nat : i <= j => Amount * i <= Amount * j
  BY <1>5
<1>8. Amount * Cardinality(done) <= Amount * Cardinality(Completed)
  BY <1>6, <1>7
<1>9. getAllPayments(Final).completedDepositsKes = Amount * Cardinality(Completed)
  BY <1>3 DEF getAllPayments
<1> QED BY <1>2, <1>8, <1>9 DEF done

(* The wallet is credited only for what M-Pesa took, under all faults; once *)
(* at most, if callbacks come in turn; and the daily tracker, the user's    *)
(* history and the admins' total agree with it: for all numbers of          *)
(* deposits, callbacks and handlers.                                        *)
THEOREM CreditsMatchPaymentsHolds == Spec => []CreditsMatchPayments
<1>1. IInv => CreditOnlyPaid
  <2> SUFFICES ASSUME IInv, NEW d \in Deposits, credited[d] > 0
               PROVE  prompt[d] = "paid"
    BY DEF CreditOnlyPaid
  <2>1. Owed(d) > 0
    BY StateFacts DEF IInv, Owed
  <2> QED BY <2>1 DEF IInv, Honest
<1>2. IInv => CreditedOnceInTurn
  BY DEF IInv, CreditedOnceInTurn, Turn, Owed
<1>3. IInv => TrackerCountsCompleted
  BY DEF IInv, TrackerCountsCompleted
<1>4. IInv => CreditsMatchPayments
  BY <1>1, <1>2, <1>3, ShownOfIInv DEF CreditsMatchPayments
<1> QED BY <1>4, InductiveInvariant, PTL

LEMMA FinalStep ==
  ASSUME IInv, Next, Undisturbed, NEW d \in Deposits, payment[d].status \in Final
  PROVE  payment'[d].status = payment[d].status
<1>1. TypeOK
  BY DEF IInv
<1>2. CASE UNCHANGED payment
  BY <1>2
<1>3. ASSUME NEW x \in Deposits,
             CreatePayment(x) \/ RecordCheckout(x) \/ InitiationFails(x)
      PROVE  payment'[d].status = payment[d].status
  <2>1. init[x] \in Early \/ init[x] = "fail"
    BY <1>3 DEF CreatePayment, RecordCheckout, InitiationFails, At, Early
  <2>2. x # d
    BY <2>1, NotFoundYet
  <2>3. \A s \in Statuses : SetStatus(x, s) => payment'[d] = payment[d]
    BY <1>1, <2>2, SetStatusStep
  <2>4. RecordCheckout(x) => payment'[d] = payment[d]
    BY <1>1, <2>2 DEF RecordCheckout, TypeOK
  <2> QED BY <1>3, <2>3, <2>4 DEF CreatePayment, InitiationFails, Statuses, Final
<1>4. ASSUME NEW c \in Callbacks, Complete(c) \/ Fail(c)
      PROVE  payment'[d].status = payment[d].status
  <2>1. callback[c].pc \in Verdicts
    BY <1>4 DEF Complete, Fail, OnCall, Verdicts
  <2>2. payment[Deposit(c)].status \notin Final
    BY <2>1 DEF IInv, CalmCall, Undecided
  <2>3. Deposit(c) # d /\ Deposit(c) \in Deposits
    BY <1>1, <2>2, StateFacts
  <2>4. \A s \in Statuses : SetStatus(Deposit(c), s) => payment'[d] = payment[d]
    BY <1>1, <2>3, SetStatusStep
  <2> QED BY <1>4, <2>4 DEF Complete, Fail, Statuses, Final
<1> QED BY <1>2, <1>3, <1>4
        DEF Next, Initiate, CheckDailyLimit, StkPush, PublishInitiated, Pay, CallBack,
            HandleDepositCompleted, HandleStkCallback, FindPayment, StoreCallback,
            VerifyStkPayment, IncrementDailyLimit, PublishCompleted

(* A completed or failed payment stays what it is, as long as callbacks are *)
(* handled in turn and every publish succeeds.                              *)
THEOREM FinalIsFinalHolds == Spec => FinalIsFinal
<1> DEFINE A == Undisturbed => \A d \in Deposits : payment[d].status \in Final =>
                                 payment'[d].status = payment[d].status
<1>1. IInv /\ [Next]_vars => [A]_payment
  BY FinalStep DEF vars
<1>2. Spec => [][A]_payment
  <2>1. Spec => []IInv
    BY InductiveInvariant
  <2>2. Spec => [][Next]_vars
    BY PTL DEF Spec
  <2> HIDE DEF A
  <2> QED BY <1>1, <2>1, <2>2, PTL
<1> QED BY <1>2 DEF FinalIsFinal

================================================================================
