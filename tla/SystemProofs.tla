---------------------------- MODULE SystemProofs ----------------------------
(***************************************************************************)
(* The system around the ledger: whatever is lost, late, repeated or       *)
(* crashes, the processes take only steps of module Payments, and what the *)
(* ledger books is what the providers did.                                 *)
(*                                                                         *)
(* The argument has three layers.  SystemTypeOK is inductive by itself.    *)
(* With it every system step is a ledger step (StepIsLedgerStep), so all   *)
(* that is proved of the ledger holds of the system.  With the life cycle  *)
(* of a payment (StatusMoves) two invariants relate the statuses of the    *)
(* ledger to those at the provider: ReturnInvariant for refunds and        *)
(* OrderInvariant for orders.                                              *)
(***************************************************************************)
EXTENDS PaymentSystem, RowLocks, LedgerProofs, SequenceTheorems

USE AccountAssumption, BoundAssumption, SystemAssumption

-----------------------------------------------------------------------------
(* Types *)

\* The processes start in their states.
LEMMA SystemInitType == SystemInit => SystemTypeOK
BY DEF SystemInit, SystemTypeOK

\* The payment a busy thread works on.
LEMMA CallerType ==
  ASSUME SystemTypeOK, NEW t \in Thread, caller[t].pc \in {"call", "ok", "error"}
  PROVE  /\ caller[t].payment \in Serial
         /\ caller[t] = At(caller[t].pc, caller[t].payment)
         /\ caller[t] # Idle
<1>1. caller[t] # Idle
  BY DEF Idle
<1>2. PICK pc \in {"call", "ok", "error"}, p \in Serial : caller[t] = At(pc, p)
  BY <1>1 DEF SystemTypeOK
<1>3. caller[t].payment = p /\ caller[t].pc = pc
  BY <1>2 DEF At
<1>4. QED
  BY <1>1, <1>2, <1>3

\* Steps of orders and of cancel_order keep the types.
LEMMA OrderStepType ==
  ASSUME SystemTypeOK, NEW p \in Serial, OrderStep(p)
  PROVE  SystemTypeOK'
<1> USE DEF SystemTypeOK, vars, provider, processes, clock
<1>1. CASE SystemPlaceOrder(p)
  BY <1>1 DEF SystemPlaceOrder
<1>2. CASE ClientPays(p) \/ OrderTimesOut(p) \/ PaymentNotified(p)
  BY <1>2 DEF ClientPays, OrderTimesOut, PaymentNotified
<1>3. ASSUME NEW ch \in Channel, CloseOrder(p, ch) PROVE SystemTypeOK'
  BY <1>3 DEF CloseOrder
<1>4. CASE CommitCancel(p) \/ RollBackCancel(p) \/ CancelDies(p)
  BY <1>4 DEF CommitCancel, RollBackCancel, CancelDies
<1>5. QED
  BY <1>1, <1>2, <1>3, <1>4 DEF OrderStep

\* Decisions, notices and polls of refunds keep the types.
LEMMA RefundStepType ==
  ASSUME SystemTypeOK, NEW p \in Serial, RefundStep(p)
  PROVE  SystemTypeOK'
<1> USE DEF SystemTypeOK, vars, provider, processes, clock
<1>1. CASE RefundDecided(p)
  BY <1>1 DEF RefundDecided
<1>2. CASE RefundNotified(p) \/ RefundGetsLate(p)
  BY <1>2 DEF RefundNotified, RefundGetsLate
<1>3. CASE Poll(p)
  BY <1>3 DEF Poll, PollResult
<1>4. CASE BookPolled(p)
  BY <1>4 DEF BookPolled
<1>5. QED
  BY <1>1, <1>2, <1>3, <1>4 DEF RefundStep

\* The three steps of request_refund, and its death, keep the types.
LEMMA ThreadStepType ==
  ASSUME SystemTypeOK, NEW t \in Thread, ThreadStep(t)
  PROVE  SystemTypeOK'
<1> USE DEF SystemTypeOK, vars, provider, processes, clock
<1>1. ASSUME NEW p \in Serial, StartRefund(t, p) PROVE SystemTypeOK'
  BY <1>1 DEF StartRefund
<1>2. CASE CallRefund(t)
  <2>1. caller[t].payment \in Serial
    BY <1>2, CallerType DEF CallRefund
  <2>2. returned' \in [Serial -> {"NONE", "PROCESSING", "SUCCESS", "FAILED"}]
    BY <1>2, <2>1 DEF CallRefund, Accepted
  <2>3. caller' \in [Thread -> {Idle} \cup {At(pc, p) : pc \in {"call", "ok", "error"},
                                                        p \in Serial}]
    BY <1>2, <2>1 DEF CallRefund
  <2>4. QED
    BY <1>2, <2>2, <2>3 DEF CallRefund
<1>3. CASE BookAnswer(t) \/ CallerDies(t)
  BY <1>3 DEF BookAnswer, CallerDies
<1>4. QED
  BY <1>1, <1>2, <1>3 DEF ThreadStep

\* The steps of PaymentUnfreezeView keep the types.
LEMMA TimerStepType ==
  ASSUME SystemTypeOK, NEW t \in Timer, TimerStep(t)
  PROVE  SystemTypeOK'
<1> USE DEF SystemTypeOK, vars, provider, processes, clock
<1>1. CASE StartUnfreeze(t)
  BY <1>1 DEF StartUnfreeze
<1>2. CASE UnfreezeNext(t)
  BY <1>2 DEF UnfreezeNext
<1>3. CASE UnfreezeAborts(t) \/ UnfreezeDies(t)
  BY <1>3 DEF UnfreezeAborts, UnfreezeDies
<1>4. QED
  BY <1>1, <1>2, <1>3 DEF TimerStep

\* Every step of the system keeps the types.
LEMMA SystemNextType == SystemTypeOK /\ [SystemNext]_system => SystemTypeOK'
<1> SUFFICES ASSUME SystemTypeOK, [SystemNext]_system PROVE SystemTypeOK'
  OBVIOUS
<1>1. CASE \E p \in Serial : FreezeExpires(p)
  BY <1>1 DEF FreezeExpires, SystemTypeOK, vars, provider, processes
<1>2. CASE SubmitPolls
  BY <1>2 DEF SubmitPolls, SystemTypeOK, vars, provider, clock
<1>3. CASE SystemMoneyOut
  BY <1>3 DEF SystemMoneyOut, SystemTypeOK, provider, processes, clock
<1>4. CASE UNCHANGED system
  BY <1>4 DEF SystemTypeOK, system, provider, processes, clock
<1>5. QED
  BY <1>1, <1>2, <1>3, <1>4, OrderStepType, RefundStepType, ThreadStepType,
     TimerStepType DEF SystemNext

\* Every process and provider keeps to its states, for any number of
\* payments, threads, timers and crashes.
THEOREM SystemTypeCorrect == SystemSpec => []SystemTypeOK
BY SystemInitType, SystemNextType, PTL DEF SystemSpec

-----------------------------------------------------------------------------
(* The system implements the ledger *)

\* Every step of the system is a transaction of the ledger or leaves the
\* ledger alone.
LEMMA StepIsLedgerStep ==
  SystemTypeOK /\ [SystemNext]_system => [Next]_vars
<1> SUFFICES ASSUME SystemTypeOK, [SystemNext]_system PROVE [Next]_vars
  OBVIOUS
<1>1. ASSUME NEW p \in Serial, OrderStep(p) PROVE PaymentStep(p) \/ UNCHANGED vars
  <2>1. SystemPlaceOrder(p) => PaymentStep(p)
    BY DEF SystemPlaceOrder, PaymentStep
  <2>2. PaymentNotified(p) \/ CommitCancel(p) => PaymentStep(p)
    BY DEF PaymentNotified, CommitCancel, PaymentStep
  <2>3. ClientPays(p) \/ OrderTimesOut(p) \/ RollBackCancel(p) \/ CancelDies(p)
          \/ (\E ch \in Channel : CloseOrder(p, ch)) => UNCHANGED vars
    BY DEF ClientPays, OrderTimesOut, RollBackCancel, CancelDies, CloseOrder
  <2>4. QED
    BY <1>1, <2>1, <2>2, <2>3 DEF OrderStep
<1>2. ASSUME NEW p \in Serial, BookSuccess(p) \/ BookFailure(p)
      PROVE  PaymentStep(p) \/ UNCHANGED vars
  BY <1>2 DEF BookSuccess, BookFailure, PaymentStep
<1>3. ASSUME NEW p \in Serial, RefundStep(p) PROVE PaymentStep(p) \/ UNCHANGED vars
  <2>1. RefundNotified(p) => PaymentStep(p)
    BY DEF RefundNotified, PaymentStep
  <2>2. BookPolled(p) => PaymentStep(p) \/ UNCHANGED vars
    BY <1>2 DEF BookPolled
  <2>3. RefundDecided(p) \/ Poll(p) \/ RefundGetsLate(p) => UNCHANGED vars
    BY DEF RefundDecided, Poll, RefundGetsLate
  <2>4. QED
    BY <1>3, <2>1, <2>2, <2>3 DEF RefundStep
<1>4. ASSUME NEW t \in Thread, ThreadStep(t)
      PROVE  (\E p \in Serial : PaymentStep(p)) \/ UNCHANGED vars
  <2>1. ASSUME NEW p \in Serial, StartRefund(t, p) PROVE PaymentStep(p)
    BY <2>1 DEF StartRefund, PaymentStep
  <2>2. BookAnswer(t) => (\E p \in Serial : PaymentStep(p)) \/ UNCHANGED vars
    <3> SUFFICES ASSUME BookAnswer(t)
                 PROVE  (\E p \in Serial : PaymentStep(p)) \/ UNCHANGED vars
      OBVIOUS
    <3>1. caller[t].payment \in Serial
      BY CallerType DEF BookAnswer
    <3>2. \/ BookSuccess(caller[t].payment) \/ BookFailure(caller[t].payment)
          \/ UNCHANGED vars
      BY DEF BookAnswer
    <3>3. QED
      BY <1>2, <3>1, <3>2
  <2>3. CallRefund(t) \/ CallerDies(t) => UNCHANGED vars
    BY DEF CallRefund, CallerDies
  <2>4. QED
    BY <1>4, <2>1, <2>2, <2>3 DEF ThreadStep
<1>5. ASSUME NEW t \in Timer, TimerStep(t)
      PROVE  (\E p \in Serial : PaymentStep(p)) \/ UNCHANGED vars
  <2>1. UnfreezeNext(t) => (\E p \in Serial : PaymentStep(p)) \/ UNCHANGED vars
    <3> SUFFICES ASSUME UnfreezeNext(t)
                 PROVE  (\E p \in Serial : PaymentStep(p)) \/ UNCHANGED vars
      OBVIOUS
    <3>1. PICK p \in batch[t] : OnPaymentUnfreeze(p) \/ SkipChanged(p)
      BY DEF UnfreezeNext
    <3>2. p \in Serial
      BY DEF SystemTypeOK
    <3>3. QED
      BY <3>1, <3>2 DEF SkipChanged, PaymentStep
  <2>2. StartUnfreeze(t) \/ UnfreezeAborts(t) \/ UnfreezeDies(t) => UNCHANGED vars
    BY DEF StartUnfreeze, UnfreezeAborts, UnfreezeDies
  <2>3. QED
    BY <1>5, <2>1, <2>2 DEF TimerStep
<1>6. CASE (\E p \in Serial : FreezeExpires(p)) \/ SubmitPolls \/ UNCHANGED system
  BY <1>6 DEF FreezeExpires, SubmitPolls, system
<1>7. CASE SystemMoneyOut
  BY <1>7 DEF SystemMoneyOut, Next
<1>8. QED
  BY <1>1, <1>3, <1>4, <1>5, <1>6, <1>7 DEF SystemNext, Next

\* The processes implement the ledger: no callback, answer, poll or timer acts
\* on what it read before without testing it again under the lock.
THEOREM SystemImplementsLedger == SystemSpec => LedgerSpec
<1>1. SystemInit => Init
  BY DEF SystemInit
<1>2. QED
  BY <1>1, StepIsLedgerStep, SystemTypeCorrect, PTL DEF SystemSpec, LedgerSpec, Spec

\* What is proved of the ledger holds of the system around it.
COROLLARY SystemLedgerCorrect == SystemSpec => [](TypeOK /\ LedgerInvariant)
BY SystemImplementsLedger, TypeCorrect, LedgerCorrect, PTL DEF LedgerSpec

\* No purse is overdrawn, whatever the processes do and wherever they die.
THEOREM SystemNoOverdraft == SystemSpec => []NoOverdraft
BY SystemImplementsLedger, NoOverdraftCorrect, PTL DEF LedgerSpec

\* The system implements the escrow: no order of callbacks, answers, polls,
\* timers and crashes makes the ledger hand out more than it holds, or one sale
\* twice.
THEOREM SystemImplementsEscrow == SystemSpec => ImplementsEscrow
BY SystemImplementsLedger, EscrowCorrect, PTL DEF LedgerSpec

-----------------------------------------------------------------------------
(* The life cycle of a payment *)

\* Where a payment may be once its refund was asked for; it never leaves.
Refunding(p) ==
  payments[p].status \in {"REFUND_REQUESTED", "REFUND_FAILED", "REFUND"}

\* Payment p goes from a status in S to s; nothing else moves.
Turns(p, S, s) ==
  /\ payments[p].status \in S /\ payments'[p].status = s
  /\ payments[p].status # "NONE" => payments'[p].pay_channel = payments[p].pay_channel
  /\ \A q \in Serial \ {p} : payments'[q] = payments[q]

\* The status moves that exist.
StatusMove(x, y) ==
  \/ x = y
  \/ x = "NONE" /\ y = "UNPAID"
  \/ x = "UNPAID" /\ y \in {"CANCELLED", "FROZEN"}
  \/ x = "FROZEN" /\ y \in {"REFUND_REQUESTED", "FINISHED"}
  \/ x = "REFUND_REQUESTED" /\ y \in {"REFUND_FAILED", "REFUND"}
  \/ x = "REFUND_FAILED" /\ y = "REFUND_REQUESTED"

\* What a step may do to the payments: statuses move along the life cycle,
\* and a payment keeps the channel it was placed with.
LifeCycleStep ==
  \A p \in Serial :
    /\ StatusMove(payments[p].status, payments'[p].status)
    /\ payments[p].status # "NONE" => payments'[p].pay_channel = payments[p].pay_channel

\* Which status each transaction takes, and which it leaves behind.
LEMMA TransactionTurns ==
  ASSUME TypeOK, NEW p \in Serial
  PROVE  /\ CancelOrder(p) => Turns(p, {"UNPAID"}, "CANCELLED")
         /\ OnPaymentSuccess(p) => Turns(p, {"UNPAID"}, "FROZEN")
         /\ RequestRefund(p) => Turns(p, {"FROZEN", "REFUND_FAILED"}, "REFUND_REQUESTED")
         /\ OnRefundFail(p) => Turns(p, {"REFUND_REQUESTED"}, "REFUND_FAILED")
         /\ OnRefundSuccess(p) => Turns(p, {"REFUND_REQUESTED"}, "REFUND")
         /\ OnPaymentUnfreeze(p) => Turns(p, {"FROZEN"}, "FINISHED")
<1>1. ASSUME NEW S, NEW s, payments[p].status \in S,
             payments' = [payments EXCEPT ![p].status = s]
      PROVE  Turns(p, S, s)
  <2>1. payments \in [Serial -> Payment] /\ payments[p] \in Payment
    BY DEF TypeOK
  <2>2. QED
    BY <1>1, <2>1 DEF Turns, Payment
<1>2. QED
  BY <1>1 DEF CancelOrder, OnPaymentSuccess, RequestRefund, OnRefundFail,
     OnRefundSuccess, RefundPending, OnPaymentUnfreeze, UnfreezeShared, UnfreezePlain

\* Placing an order creates a payment that waits for its money.
LEMMA PlaceOrderTurns ==
  ASSUME TypeOK, NEW p \in Serial, NEW ch \in Channel, NEW m \in Merchant,
         NEW c \in CouponId \cup {NoCoupon}, NEW price \in OrderPrice,
         PlaceOrder(p, ch, m, c, price)
  PROVE  Turns(p, {"NONE"}, "UNPAID")
<1>1. payments \in [Serial -> Payment]
  BY DEF TypeOK
<1>2. QED
  BY <1>1 DEF PlaceOrder, Turns

\* Payouts leave the payments alone.
LEMMA MoneyOutKeepsPayments == MoneyOut => payments' = payments
BY DEF MoneyOut, Withdraw, Transfer, Settle

\* Every step of the ledger follows the life cycle.
LEMMA LedgerLifeCycle == TypeOK /\ [Next]_vars => LifeCycleStep
<1> SUFFICES ASSUME TypeOK, [Next]_vars PROVE LifeCycleStep
  OBVIOUS
<1>1. ASSUME NEW p \in Serial, PaymentStep(p) PROVE LifeCycleStep
  <2>1. ASSUME NEW S, NEW s, Turns(p, S, s), \A x \in S : StatusMove(x, s)
        PROVE  LifeCycleStep
    <3>1. \A x : StatusMove(x, x)
      BY DEF StatusMove
    <3>2. StatusMove(payments[p].status, payments'[p].status)
      BY <2>1 DEF Turns
    <3>3. \A q \in Serial \ {p} : payments'[q] = payments[q]
      BY <2>1 DEF Turns
    <3>4. payments[p].status # "NONE" => payments'[p].pay_channel = payments[p].pay_channel
      BY <2>1 DEF Turns
    <3>5. ASSUME NEW q \in Serial
          PROVE  /\ StatusMove(payments[q].status, payments'[q].status)
                 /\ payments[q].status # "NONE"
                      => payments'[q].pay_channel = payments[q].pay_channel
      <4>1. CASE q = p
        BY <4>1, <3>2, <3>4
      <4>2. CASE q # p
        BY <4>2, <3>1, <3>3, Zenon
      <4>3. QED
        BY <4>1, <4>2
    <3>6. QED
      BY <3>5, Zenon DEF LifeCycleStep
  <2>2. ASSUME NEW ch \in Channel, NEW m \in Merchant, NEW c \in CouponId \cup {NoCoupon},
               NEW price \in OrderPrice, PlaceOrder(p, ch, m, c, price)
        PROVE  LifeCycleStep
    <3>1. Turns(p, {"NONE"}, "UNPAID")
      BY <2>2, PlaceOrderTurns
    <3>2. \A x \in {"NONE"} : StatusMove(x, "UNPAID")
      BY DEF StatusMove
    <3>3. QED
      BY <2>1, <3>1, <3>2
  <2>3. /\ \A x \in {"UNPAID"} : StatusMove(x, "CANCELLED") /\ StatusMove(x, "FROZEN")
        /\ \A x \in {"FROZEN", "REFUND_FAILED"} : StatusMove(x, "REFUND_REQUESTED")
        /\ \A x \in {"REFUND_REQUESTED"} :
             StatusMove(x, "REFUND_FAILED") /\ StatusMove(x, "REFUND")
        /\ \A x \in {"FROZEN"} : StatusMove(x, "FINISHED")
    BY DEF StatusMove
  <2>4. CASE CancelOrder(p)
    BY <2>1, <2>3, <2>4, TransactionTurns
  <2>5. CASE OnPaymentSuccess(p)
    BY <2>1, <2>3, <2>5, TransactionTurns
  <2>6. CASE RequestRefund(p)
    BY <2>1, <2>3, <2>6, TransactionTurns
  <2>7. CASE OnRefundFail(p)
    BY <2>1, <2>3, <2>7, TransactionTurns
  <2>8. CASE OnRefundSuccess(p)
    BY <2>1, <2>3, <2>8, TransactionTurns
  <2>9. CASE OnPaymentUnfreeze(p)
    BY <2>1, <2>3, <2>9, TransactionTurns
  <2>10. QED
    BY <1>1, <2>2, <2>4, <2>5, <2>6, <2>7, <2>8, <2>9 DEF PaymentStep
<1>2. CASE MoneyOut \/ UNCHANGED vars
  BY <1>2, MoneyOutKeepsPayments DEF vars, LifeCycleStep, StatusMove
<1>3. QED
  BY <1>1, <1>2 DEF Next

-----------------------------------------------------------------------------
(* Refunds: the ledger and the provider *)

\* The inductive invariant of refunds.  A process or a provider that knows of
\* the refund of p holds p in the statuses of a refund, and every word of a
\* success - a notice, an answer of Alipay, the result of a poll - is true.
ReturnInvariant ==
  \A p \in Serial :
    /\ returned[p] # "NONE" => Refunding(p)
    /\ returned[p] = "PROCESSING" => payments[p].pay_channel # "ALIPAY"
    /\ payments[p].status = "REFUND" \/ <<p, "SUCCESS">> \in notices
         \/ polled[p] = "SUCCESS" => returned[p] = "SUCCESS"
    /\ \A t \in Thread :
         /\ caller[t].pc = "call" /\ caller[t].payment = p => Refunding(p)
         /\ caller[t].pc = "ok" /\ caller[t].payment = p
              => /\ Refunding(p)
                 /\ payments[p].pay_channel = "ALIPAY" => returned[p] = "SUCCESS"

\* A step that keeps what the provider did, tells nobody anything new, and
\* books a refund only if it was returned, keeps the invariant.
LEMMA NoNews ==
  ASSUME ReturnInvariant, LifeCycleStep,
         returned' = returned, notices' = notices,
         \A p \in Serial : polled'[p] = polled[p] \/ polled'[p] = "none",
         \A t \in Thread : caller'[t] = caller[t] \/ caller'[t] = Idle,
         \A p \in Serial : payments'[p].status = "REFUND" =>
           payments[p].status = "REFUND" \/ returned[p] = "SUCCESS"
  PROVE  ReturnInvariant'
<1> SUFFICES ASSUME NEW p \in Serial
             PROVE  /\ returned[p] # "NONE" => Refunding(p)'
                    /\ returned[p] = "PROCESSING" => payments'[p].pay_channel # "ALIPAY"
                    /\ payments'[p].status = "REFUND" \/ <<p, "SUCCESS">> \in notices
                         \/ polled'[p] = "SUCCESS" => returned[p] = "SUCCESS"
                    /\ \A t \in Thread :
                         /\ caller'[t].pc = "call" /\ caller'[t].payment = p
                              => Refunding(p)'
                         /\ caller'[t].pc = "ok" /\ caller'[t].payment = p
                              => /\ Refunding(p)'
                                 /\ payments'[p].pay_channel = "ALIPAY"
                                      => returned[p] = "SUCCESS"
  BY DEF ReturnInvariant
<1>1. Refunding(p) =>
        Refunding(p)' /\ payments'[p].pay_channel = payments[p].pay_channel
  BY DEF Refunding, LifeCycleStep, StatusMove
<1>2. /\ returned[p] # "NONE" => Refunding(p)'
      /\ returned[p] = "PROCESSING" => payments'[p].pay_channel # "ALIPAY"
  BY <1>1 DEF ReturnInvariant
<1>3. payments'[p].status = "REFUND" \/ <<p, "SUCCESS">> \in notices
        \/ polled'[p] = "SUCCESS" => returned[p] = "SUCCESS"
  BY DEF ReturnInvariant
<1>4. ASSUME NEW t \in Thread, caller'[t].pc \in {"call", "ok"}, caller'[t].payment = p
      PROVE  /\ Refunding(p)'
             /\ caller'[t].pc = "ok" /\ payments'[p].pay_channel = "ALIPAY"
                  => returned[p] = "SUCCESS"
  <2>1. caller'[t] = caller[t]
    BY <1>4 DEF Idle
  <2>2. Refunding(p)
    BY <1>4, <2>1 DEF ReturnInvariant
  <2>3. QED
    BY <1>1, <1>4, <2>1, <2>2 DEF ReturnInvariant
<1>5. QED
  BY <1>2, <1>3, <1>4

\* What a step of the ledger does to "REFUND": only on_refund_success books it.
LEMMA BookedBy ==
  ASSUME TypeOK, NEW p \in Serial,
         OnRefundSuccess(p) => returned[p] = "SUCCESS",
         \/ CancelOrder(p) \/ OnPaymentSuccess(p) \/ RequestRefund(p)
         \/ OnRefundFail(p) \/ OnRefundSuccess(p) \/ OnPaymentUnfreeze(p)
         \/ UNCHANGED vars
  PROVE  \A q \in Serial : payments'[q].status = "REFUND" =>
           payments[q].status = "REFUND" \/ returned[q] = "SUCCESS"
<1>1. CASE UNCHANGED vars
  BY <1>1 DEF vars
<1>2. ASSUME NEW S, NEW s, Turns(p, S, s), s # "REFUND" \/ returned[p] = "SUCCESS"
      PROVE  \A q \in Serial : payments'[q].status = "REFUND" =>
               payments[q].status = "REFUND" \/ returned[q] = "SUCCESS"
  BY <1>2 DEF Turns
<1>3. QED
  <2>1. "REFUND" \notin {"CANCELLED", "FROZEN", "REFUND_REQUESTED", "REFUND_FAILED",
                         "FINISHED"}
    OBVIOUS
  <2>2. CASE CancelOrder(p)
    BY <1>2, <2>1, <2>2, TransactionTurns
  <2>3. CASE OnPaymentSuccess(p)
    BY <1>2, <2>1, <2>3, TransactionTurns
  <2>4. CASE RequestRefund(p)
    BY <1>2, <2>1, <2>4, TransactionTurns
  <2>5. CASE OnRefundFail(p)
    BY <1>2, <2>1, <2>5, TransactionTurns
  <2>6. CASE OnRefundSuccess(p)
    BY <1>2, <2>6, TransactionTurns
  <2>7. CASE OnPaymentUnfreeze(p)
    BY <1>2, <2>1, <2>7, TransactionTurns
  <2>8. QED
    BY <1>1, <2>2, <2>3, <2>4, <2>5, <2>6, <2>7

\* Steps of orders neither ask for a refund nor book one.
LEMMA OrderStepReturn ==
  ASSUME TypeOK, SystemTypeOK, LifeCycleStep, ReturnInvariant,
         NEW p \in Serial, OrderStep(p)
  PROVE  ReturnInvariant'
<1> USE DEF provider, processes
<1>1. /\ returned' = returned /\ notices' = notices
      /\ polled' = polled /\ caller' = caller
  BY DEF OrderStep, SystemPlaceOrder, ClientPays, OrderTimesOut, PaymentNotified,
     CloseOrder, CommitCancel, RollBackCancel, CancelDies
<1>2. \A q \in Serial : payments'[q].status = "REFUND" =>
        payments[q].status = "REFUND" \/ returned[q] = "SUCCESS"
  <2>1. CASE SystemPlaceOrder(p)
    <3>1. PICK ch \in Channel, m \in Merchant, c \in CouponId \cup {NoCoupon},
               price \in OrderPrice : PlaceOrder(p, ch, m, c, price)
      BY <2>1 DEF SystemPlaceOrder
    <3>2. Turns(p, {"NONE"}, "UNPAID")
      BY <3>1, PlaceOrderTurns
    <3>3. QED
      BY <3>2 DEF Turns
  <2>2. CASE ~SystemPlaceOrder(p)
    <3>1. OnPaymentSuccess(p) \/ CancelOrder(p) \/ UNCHANGED vars
      BY <2>2 DEF OrderStep, ClientPays, OrderTimesOut, PaymentNotified,
         CloseOrder, CommitCancel, RollBackCancel, CancelDies
    <3>2. OnPaymentSuccess(p) \/ CancelOrder(p) => ~OnRefundSuccess(p)
      BY DEF OnPaymentSuccess, CancelOrder, OnRefundSuccess, RefundPending
    <3>3. CASE UNCHANGED vars
      BY <3>3 DEF vars
    <3>4. QED
      BY <3>1, <3>2, <3>3, BookedBy
  <2>3. QED
    BY <2>1, <2>2
<1>3. QED
  BY <1>1, <1>2, NoNews

\* A notice or a poll books a refund only on the word of the provider.
LEMMA RefundStepReturn ==
  ASSUME TypeOK, SystemTypeOK, LifeCycleStep, ReturnInvariant,
         NEW p \in Serial, RefundStep(p)
  PROVE  ReturnInvariant'
<1> USE DEF provider, processes
<1>1. CASE RefundDecided(p)
  <2>1. payments' = payments /\ caller' = caller /\ polled' = polled
    BY <1>1 DEF RefundDecided, vars
  <2>2. PICK outcome \in {"SUCCESS", "FAILED"} :
          /\ returned' = [returned EXCEPT ![p] = outcome]
          /\ notices' = notices \cup {<<p, outcome>>}
    BY <1>1 DEF RefundDecided
  <2>3. returned[p] = "PROCESSING"
    BY <1>1 DEF RefundDecided
  <2>4. returned \in [Serial -> {"NONE", "PROCESSING", "SUCCESS", "FAILED"}]
    BY DEF SystemTypeOK
  <2>5. ASSUME NEW q \in Serial, q # p
        PROVE  /\ returned'[q] = returned[q]
               /\ <<q, "SUCCESS">> \in notices' => <<q, "SUCCESS">> \in notices
    BY <2>2, <2>4, <2>5
  <2>6. returned'[p] = outcome
    BY <2>2, <2>4
  <2>7. /\ Refunding(p) /\ payments[p].pay_channel # "ALIPAY"
        /\ payments[p].status # "REFUND" /\ <<p, "SUCCESS">> \notin notices
        /\ polled[p] # "SUCCESS"
    BY <2>3 DEF ReturnInvariant
  <2>8. <<p, "SUCCESS">> \in notices' => outcome = "SUCCESS"
    BY <2>2, <2>7
  <2>9. QED
    BY <2>1, <2>5, <2>6, <2>7, <2>8 DEF ReturnInvariant, Refunding
<1>2. CASE Poll(p)
  <2>1. /\ payments' = payments /\ caller' = caller
        /\ returned' = returned /\ notices' = notices
        /\ polled' = [polled EXCEPT ![p] = PollResult(p)]
    BY <1>2 DEF Poll, vars
  <2>2. PollResult(p) = "SUCCESS" => returned[p] = "SUCCESS"
    BY DEF PollResult
  <2>3. \A q \in Serial : polled'[q] = "SUCCESS" =>
          polled[q] = "SUCCESS" \/ returned[q] = "SUCCESS"
    BY <2>1, <2>2 DEF SystemTypeOK
  <2>4. QED
    BY <2>1, <2>3 DEF ReturnInvariant, Refunding
<1>3. CASE RefundNotified(p) \/ BookPolled(p) \/ RefundGetsLate(p)
  <2>1. /\ returned' = returned /\ notices' = notices /\ caller' = caller
        /\ \A q \in Serial : polled'[q] = polled[q] \/ polled'[q] = "none"
    BY <1>3 DEF RefundNotified, BookPolled, RefundGetsLate, SystemTypeOK
  <2>2. \A q \in Serial : payments'[q].status = "REFUND" =>
          payments[q].status = "REFUND" \/ returned[q] = "SUCCESS"
    <3>1. CASE UNCHANGED vars
      BY <3>1 DEF vars
    <3>2. CASE OnRefundFail(p)
      <4>1. Turns(p, {"REFUND_REQUESTED"}, "REFUND_FAILED")
        BY <3>2, TransactionTurns
      <4>2. QED
        BY <4>1 DEF Turns
    <3>3. CASE OnRefundSuccess(p) /\ returned[p] = "SUCCESS"
      BY <3>3, BookedBy
    <3>4. QED
      BY <1>3, <3>1, <3>2, <3>3 DEF RefundNotified, BookPolled, RefundGetsLate,
         BookSuccess, BookFailure, ReturnInvariant
  <2>3. QED
    BY <2>1, <2>2, NoNews
<1>4. QED
  BY <1>1, <1>2, <1>3 DEF RefundStep

\* request_refund: the call cannot make the provider forget a refund, and only
\* an answer of Alipay is booked as its outcome.
LEMMA ThreadStepReturn ==
  ASSUME TypeOK, SystemTypeOK, LifeCycleStep, ReturnInvariant,
         NEW t \in Thread, ThreadStep(t)
  PROVE  ReturnInvariant'
<1> USE DEF provider, processes
<1>0. caller \in [Thread -> {Idle} \cup {At(pc, p) : pc \in {"call", "ok", "error"},
                                                     p \in Serial}]
  BY DEF SystemTypeOK
<1>1. ASSUME NEW p \in Serial, StartRefund(t, p) PROVE ReturnInvariant'
  <2>1. /\ returned' = returned /\ notices' = notices /\ polled' = polled
        /\ caller' = [caller EXCEPT ![t] = At("call", p)]
    BY <1>1 DEF StartRefund
  <2>2. Turns(p, {"FROZEN", "REFUND_FAILED"}, "REFUND_REQUESTED")
    BY <1>1, TransactionTurns DEF StartRefund
  <2>3. \A q \in Serial : Refunding(q) =>
          Refunding(q)' /\ payments'[q].pay_channel = payments[q].pay_channel
    BY DEF Refunding, LifeCycleStep, StatusMove
  <2>4. /\ Refunding(p)' /\ payments'[p].status # "REFUND"
        /\ \A q \in Serial \ {p} : payments'[q].status = payments[q].status
    BY <2>2 DEF Turns, Refunding
  <2>5. ASSUME NEW r \in Thread
        PROVE  \/ caller'[r] = caller[r]
               \/ caller'[r].pc = "call" /\ caller'[r].payment = p
    BY <1>0, <2>1 DEF At
  <2>6. ASSUME NEW q \in Serial
        PROVE  /\ returned'[q] # "NONE" => Refunding(q)'
               /\ returned'[q] = "PROCESSING" => payments'[q].pay_channel # "ALIPAY"
               /\ payments'[q].status = "REFUND" \/ <<q, "SUCCESS">> \in notices'
                    \/ polled'[q] = "SUCCESS" => returned'[q] = "SUCCESS"
    BY <2>1, <2>3, <2>4 DEF ReturnInvariant
  <2>7. ASSUME NEW q \in Serial, NEW r \in Thread, caller'[r].payment = q
        PROVE  /\ caller'[r].pc = "call" => Refunding(q)'
               /\ caller'[r].pc = "ok" =>
                    /\ Refunding(q)'
                    /\ payments'[q].pay_channel = "ALIPAY" => returned'[q] = "SUCCESS"
    <3>1. CASE caller'[r] = caller[r]
      BY <2>1, <2>3, <2>7, <3>1 DEF ReturnInvariant
    <3>2. CASE caller'[r].pc = "call" /\ caller'[r].payment = p
      BY <2>4, <2>7, <3>2
    <3>3. QED
      BY <2>5, <3>1, <3>2
  <2>8. QED
    BY <2>6, <2>7 DEF ReturnInvariant
<1>2. CASE CallRefund(t)
  <2> DEFINE p == caller[t].payment
  <2>1. p \in Serial /\ caller[t].pc = "call"
    BY <1>2, CallerType DEF CallRefund
  <2>2. payments' = payments /\ notices' = notices /\ polled' = polled
    BY <1>2 DEF CallRefund, vars
  <2>3. \/ returned' = Accepted(p) /\ \E a \in {"ok", "error"} :
             caller' = [caller EXCEPT ![t] = At(a, p)]
        \/ returned' = returned /\ caller' = [caller EXCEPT ![t] = At("error", p)]
    BY <1>2 DEF CallRefund
  <2>4. Refunding(p)
    BY <2>1 DEF ReturnInvariant
  <2>5. returned \in [Serial -> {"NONE", "PROCESSING", "SUCCESS", "FAILED"}]
    BY DEF SystemTypeOK
  <2> HIDE DEF p
  <2>6. /\ \A q \in Serial \ {p} : returned'[q] = returned[q]
        /\ returned[p] = "SUCCESS" => returned'[p] = "SUCCESS"
        /\ returned'[p] = "PROCESSING" => payments[p].pay_channel # "ALIPAY"
    <3>1. CASE returned' = returned
      BY <3>1, <2>1 DEF ReturnInvariant
    <3>2. CASE returned' = Accepted(p)
      BY <3>2, <2>1, <2>5 DEF ReturnInvariant, Accepted
    <3>3. QED
      BY <2>3, <3>1, <3>2
  <2>7. returned' = Accepted(p) /\ payments[p].pay_channel = "ALIPAY"
          => returned'[p] = "SUCCESS"
    BY <2>1, <2>5 DEF ReturnInvariant, Accepted
  <2>8. ASSUME NEW r \in Thread
        PROVE  \/ caller'[r] = caller[r]
               \/ caller'[r].pc = "error"
               \/ caller'[r].pc = "ok" /\ caller'[r].payment = p /\ returned' = Accepted(p)
    BY <1>0, <2>3 DEF At
  <2>9. /\ \A q \in Serial : returned'[q] # "NONE" => Refunding(q)
        /\ \A q \in Serial : returned'[q] = "PROCESSING" =>
             payments[q].pay_channel # "ALIPAY"
        /\ \A q \in Serial : returned[q] = "SUCCESS" => returned'[q] = "SUCCESS"
    BY <2>4, <2>6 DEF ReturnInvariant
  <2>10. ASSUME NEW q \in Serial, NEW r \in Thread, caller'[r].payment = q
         PROVE  /\ caller'[r].pc = "call" => Refunding(q)
                /\ caller'[r].pc = "ok" =>
                     /\ Refunding(q)
                     /\ payments[q].pay_channel = "ALIPAY" => returned'[q] = "SUCCESS"
    <3>1. CASE caller'[r] = caller[r]
      BY <2>9, <2>10, <3>1 DEF ReturnInvariant
    <3>2. CASE caller'[r].pc = "error"
      BY <3>2
    <3>3. CASE caller'[r].pc = "ok" /\ caller'[r].payment = p /\ returned' = Accepted(p)
      BY <2>4, <2>7, <2>10, <3>3
    <3>4. QED
      BY <2>8, <3>1, <3>2, <3>3
  <2>11. \A q \in Serial : Refunding(q) => Refunding(q)'
    BY <2>2 DEF Refunding
  <2>12. QED
    BY <2>2, <2>9, <2>10, <2>11 DEF ReturnInvariant
<1>3. CASE BookAnswer(t) \/ CallerDies(t)
  <2>1. /\ returned' = returned /\ notices' = notices /\ polled' = polled
        /\ \A r \in Thread : caller'[r] = caller[r] \/ caller'[r] = Idle
    BY <1>0, <1>3 DEF BookAnswer, CallerDies
  <2>2. \A q \in Serial : payments'[q].status = "REFUND" =>
          payments[q].status = "REFUND" \/ returned[q] = "SUCCESS"
    <3> DEFINE p == caller[t].payment
    <3>1. CASE UNCHANGED vars
      BY <3>1 DEF vars
    <3>2. CASE BookAnswer(t) /\ caller[t].pc = "ok" /\ DecidedAtOnce(p)
      <4>1. p \in Serial
        BY <3>2, CallerType
      <4>2. returned[p] = "SUCCESS"
        BY <3>2, <4>1 DEF DecidedAtOnce, ReturnInvariant
      <4>3. OnRefundSuccess(p) \/ UNCHANGED vars
        BY <3>2 DEF BookAnswer, BookSuccess
      <4>4. QED
        BY <4>1, <4>2, <4>3, BookedBy
    <3>3. CASE BookAnswer(t) /\ caller[t].pc = "error"
      <4>1. p \in Serial
        BY <3>3, CallerType
      <4>2. OnRefundFail(p) \/ UNCHANGED vars
        BY <3>3 DEF BookAnswer, BookFailure
      <4>3. CASE OnRefundFail(p)
        <5>1. Turns(p, {"REFUND_REQUESTED"}, "REFUND_FAILED")
          BY <4>1, <4>3, TransactionTurns
        <5>2. QED
          BY <4>1, <5>1 DEF Turns
      <4>4. QED
        BY <3>1, <4>2, <4>3
    <3>4. QED
      BY <1>3, <3>1, <3>2, <3>3 DEF BookAnswer, CallerDies
  <2>3. QED
    BY <2>1, <2>2, NoNews
<1>4. QED
  BY <1>1, <1>2, <1>3 DEF ThreadStep

\* The end of the freeze takes only payments that no refund was asked for.
LEMMA TimerStepReturn ==
  ASSUME TypeOK, SystemTypeOK, LifeCycleStep, ReturnInvariant,
         NEW t \in Timer, TimerStep(t)
  PROVE  ReturnInvariant'
<1>1. /\ returned' = returned /\ notices' = notices
      /\ polled' = polled /\ caller' = caller
  BY DEF TimerStep, StartUnfreeze, UnfreezeNext, UnfreezeAborts, UnfreezeDies, provider
<1>2. \A q \in Serial : payments'[q].status = "REFUND" =>
        payments[q].status = "REFUND" \/ returned[q] = "SUCCESS"
  <2>1. CASE UNCHANGED vars
    BY <2>1 DEF vars
  <2>2. ASSUME NEW p \in batch[t], OnPaymentUnfreeze(p)
        PROVE  \A q \in Serial : payments'[q].status = "REFUND" =>
                 payments[q].status = "REFUND" \/ returned[q] = "SUCCESS"
    <3>1. p \in Serial
      BY DEF SystemTypeOK
    <3>2. Turns(p, {"FROZEN"}, "FINISHED")
      BY <2>2, <3>1, TransactionTurns
    <3>3. QED
      BY <3>2 DEF Turns
  <2>3. QED
    BY <2>1, <2>2 DEF TimerStep, StartUnfreeze, UnfreezeNext, UnfreezeAborts,
       UnfreezeDies, SkipChanged
<1>3. QED
  BY <1>1, <1>2, NoNews

\* Nothing is known of any refund at first.
LEMMA SystemInitReturn == SystemInit => ReturnInvariant
BY DEF SystemInit, Init, NoPayment, ReturnInvariant, Idle

\* Every step of the system keeps ReturnInvariant.
LEMMA SystemNextReturn ==
  TypeOK /\ SystemTypeOK /\ ReturnInvariant /\ [SystemNext]_system => ReturnInvariant'
<1> SUFFICES ASSUME TypeOK, SystemTypeOK, ReturnInvariant, [SystemNext]_system
             PROVE  ReturnInvariant'
  OBVIOUS
<1>1. LifeCycleStep
  BY StepIsLedgerStep, LedgerLifeCycle
<1>2. CASE \/ \E p \in Serial : FreezeExpires(p)
           \/ SubmitPolls \/ SystemMoneyOut \/ UNCHANGED system
  <2>1. payments' = payments
    BY <1>2, MoneyOutKeepsPayments DEF FreezeExpires, SubmitPolls, SystemMoneyOut,
       system, vars
  <2>2. /\ returned' = returned /\ notices' = notices
        /\ polled' = polled /\ caller' = caller
    BY <1>2 DEF FreezeExpires, SubmitPolls, SystemMoneyOut, system, provider, processes
  <2>3. QED
    BY <1>1, <2>1, <2>2, NoNews
<1>3. QED
  BY <1>1, <1>2, OrderStepReturn, RefundStepReturn, ThreadStepReturn, TimerStepReturn
     DEF SystemNext

\* Whatever is lost, repeated, late or stale, what processes and providers
\* know of a refund is true of it.
THEOREM ReturnCorrect == SystemSpec => []ReturnInvariant
BY SystemInitReturn, SystemNextReturn, SystemTypeCorrect, SystemLedgerCorrect, PTL
   DEF SystemSpec

\* The ledger books a refund only when the provider did return the money.
THEOREM BookedRefundCorrect == SystemSpec => []BookedRefundIsReal
<1>1. ReturnInvariant => BookedRefundIsReal
  BY DEF ReturnInvariant, BookedRefundIsReal
<1>2. QED
  BY <1>1, ReturnCorrect, PTL

\* Money a provider returns is never released to the merchant.
THEOREM ReturnedCorrect == SystemSpec => []ReturnedIsNotReleased
<1>1. ReturnInvariant => ReturnedIsNotReleased
  BY DEF ReturnInvariant, Refunding, ReturnedIsNotReleased
<1>2. QED
  BY <1>1, ReturnCorrect, PTL

-----------------------------------------------------------------------------
(* Orders: the ledger and the provider *)

\* The inductive invariant of orders: what the ledger books is what the
\* provider decided, and a cancel that was told "closed" was told the truth.
OrderInvariant ==
  /\ BookedOrderIsReal
  /\ \A p \in Serial : closing[p] = "closed" =>
       order[p] = "CLOSED" /\ payments[p].status # "NONE"

\* A step that leaves the orders at the provider alone keeps the invariant
\* when it books a payment only if it was made, and cancels an order only if
\* it was closed.
LEMMA OrdersKept ==
  ASSUME OrderInvariant, LifeCycleStep, order' = order,
         \A p \in Serial : closing'[p] = closing[p] \/ closing'[p] = "no",
         \A p \in Serial :
           \/ payments'[p].status = payments[p].status
           \/ payments[p].status \notin {"NONE", "UNPAID"}
           \/ payments'[p].status = "FROZEN" /\ order[p] = "PAID"
           \/ payments'[p].status = "CANCELLED" /\ order[p] = "CLOSED"
  PROVE  OrderInvariant'
<1>1. ASSUME NEW p \in Serial
      PROVE  /\ payments'[p].status = "UNPAID" \/ order[p] # "OPEN"
             /\ payments'[p].status \in {"FROZEN", "REFUND_REQUESTED", "REFUND_FAILED",
                                         "REFUND", "FINISHED"} => order[p] = "PAID"
             /\ payments'[p].status = "CANCELLED" => order[p] = "CLOSED"
             /\ payments[p].status # "NONE" => payments'[p].status # "NONE"
  BY DEF OrderInvariant, BookedOrderIsReal, LifeCycleStep, StatusMove
<1>2. QED
  BY <1>1 DEF OrderInvariant, BookedOrderIsReal

\* A transaction of a payment that was booked before is such a step.
LEMMA BookedTurns ==
  ASSUME NEW p \in Serial, NEW S, NEW s, Turns(p, S, s),
         \/ S \cap {"NONE", "UNPAID"} = {}
         \/ s = "FROZEN" /\ order[p] = "PAID"
         \/ s = "CANCELLED" /\ order[p] = "CLOSED"
  PROVE  \A q \in Serial :
           \/ payments'[q].status = payments[q].status
           \/ payments[q].status \notin {"NONE", "UNPAID"}
           \/ payments'[q].status = "FROZEN" /\ order[q] = "PAID"
           \/ payments'[q].status = "CANCELLED" /\ order[q] = "CLOSED"
BY DEF Turns

\* The transactions of refunds and of the end of the freeze.
LEMMA LaterTransactions ==
  ASSUME TypeOK, NEW p \in Serial,
         \/ RequestRefund(p) \/ OnRefundFail(p) \/ OnRefundSuccess(p)
         \/ OnPaymentUnfreeze(p) \/ UNCHANGED vars
  PROVE  \A q \in Serial :
           \/ payments'[q].status = payments[q].status
           \/ payments[q].status \notin {"NONE", "UNPAID"}
<1>1. ASSUME NEW S, NEW s, Turns(p, S, s), S \cap {"NONE", "UNPAID"} = {}
      PROVE  \A q \in Serial :
               \/ payments'[q].status = payments[q].status
               \/ payments[q].status \notin {"NONE", "UNPAID"}
  BY <1>1 DEF Turns
<1>2. /\ {"FROZEN", "REFUND_FAILED"} \cap {"NONE", "UNPAID"} = {}
      /\ {"REFUND_REQUESTED"} \cap {"NONE", "UNPAID"} = {}
      /\ {"FROZEN"} \cap {"NONE", "UNPAID"} = {}
  OBVIOUS
<1>3. CASE RequestRefund(p)
  BY <1>1, <1>2, <1>3, TransactionTurns
<1>4. CASE OnRefundFail(p)
  BY <1>1, <1>2, <1>4, TransactionTurns
<1>5. CASE OnRefundSuccess(p)
  BY <1>1, <1>2, <1>5, TransactionTurns
<1>6. CASE OnPaymentUnfreeze(p)
  BY <1>1, <1>2, <1>6, TransactionTurns
<1>7. CASE UNCHANGED vars
  BY <1>7 DEF vars
<1>8. QED
  BY <1>3, <1>4, <1>5, <1>6, <1>7

\* Orders: paid, timed out, closed, notified, cancelled.
LEMMA OrderStepOrder ==
  ASSUME TypeOK, SystemTypeOK, LifeCycleStep, OrderInvariant,
         NEW p \in Serial, OrderStep(p)
  PROVE  OrderInvariant'
<1> USE DEF provider, processes
<1>0. /\ order \in [Serial -> {"NONE", "OPEN", "PAID", "CLOSED"}]
      /\ closing \in [Serial -> {"no", "closed", "error"}]
  BY DEF SystemTypeOK
<1>1. CASE SystemPlaceOrder(p)
  <2>1. PICK ch \in Channel, m \in Merchant, c \in CouponId \cup {NoCoupon},
             price \in OrderPrice : PlaceOrder(p, ch, m, c, price)
    BY <1>1 DEF SystemPlaceOrder
  <2>2. Turns(p, {"NONE"}, "UNPAID")
    BY <2>1, PlaceOrderTurns
  <2>3. order' = [order EXCEPT ![p] = "OPEN"] /\ closing' = closing
    BY <1>1 DEF SystemPlaceOrder
  <2>4. payments[p].status = "NONE" /\ payments'[p].status = "UNPAID"
        /\ \A q \in Serial \ {p} : payments'[q].status = payments[q].status
    BY <2>2 DEF Turns
  <2>5. closing[p] # "closed"
    BY <2>4 DEF OrderInvariant
  <2>6. QED
    BY <1>0, <2>3, <2>4, <2>5 DEF OrderInvariant, BookedOrderIsReal
<1>2. CASE ClientPays(p) \/ OrderTimesOut(p)
  <2>1. payments' = payments /\ closing' = closing /\ order[p] = "OPEN"
    BY <1>2 DEF ClientPays, OrderTimesOut, vars
  <2>2. \/ order' = [order EXCEPT ![p] = "PAID"]
        \/ order' = [order EXCEPT ![p] = "CLOSED"]
    BY <1>2 DEF ClientPays, OrderTimesOut
  <2>3. payments[p].status = "UNPAID" /\ closing[p] # "closed"
    BY <2>1 DEF OrderInvariant, BookedOrderIsReal
  <2>4. QED
    BY <1>0, <2>1, <2>2, <2>3 DEF OrderInvariant, BookedOrderIsReal
<1>3. ASSUME NEW ch \in Channel, CloseOrder(p, ch) PROVE OrderInvariant'
  <2>1. payments' = payments /\ payments[p].status = "UNPAID"
    BY <1>3 DEF CloseOrder, vars
  <2>2. \/ /\ order' = [order EXCEPT ![p] = "CLOSED"]
           /\ \E a \in {"closed", "error"} : closing' = [closing EXCEPT ![p] = a]
        \/ order' = order /\ closing' = [closing EXCEPT ![p] = "error"]
    BY <1>3 DEF CloseOrder
  <2>3. QED
    BY <1>0, <2>1, <2>2 DEF OrderInvariant, BookedOrderIsReal
<1>4. CASE PaymentNotified(p)
  <2>1. Turns(p, {"UNPAID"}, "FROZEN") /\ order[p] = "PAID"
    BY <1>4, TransactionTurns DEF PaymentNotified
  <2>2. order' = order /\ closing' = closing
    BY <1>4 DEF PaymentNotified
  <2>3. QED
    BY <2>1, <2>2, BookedTurns, OrdersKept
<1>5. CASE CommitCancel(p)
  <2>1. Turns(p, {"UNPAID"}, "CANCELLED")
    BY <1>5, TransactionTurns DEF CommitCancel
  <2>2. order[p] = "CLOSED"
    BY <1>5 DEF CommitCancel, OrderInvariant
  <2>3. order' = order /\ closing' = [closing EXCEPT ![p] = "no"]
    BY <1>5 DEF CommitCancel
  <2>4. \A q \in Serial : closing'[q] = closing[q] \/ closing'[q] = "no"
    BY <1>0, <2>3
  <2>5. QED
    BY <2>1, <2>2, <2>3, <2>4, BookedTurns, OrdersKept
<1>6. CASE RollBackCancel(p) \/ CancelDies(p)
  <2>1. payments' = payments /\ order' = order /\ closing' = [closing EXCEPT ![p] = "no"]
    BY <1>6 DEF RollBackCancel, CancelDies, vars
  <2>2. QED
    BY <1>0, <2>1 DEF OrderInvariant, BookedOrderIsReal
<1>7. QED
  BY <1>1, <1>2, <1>3, <1>4, <1>5, <1>6 DEF OrderStep

\* Nothing was ordered at first.
LEMMA SystemInitOrder == SystemInit => OrderInvariant
BY DEF SystemInit, Init, NoPayment, OrderInvariant, BookedOrderIsReal

\* Every step of the system keeps OrderInvariant.
LEMMA SystemNextOrder ==
  TypeOK /\ SystemTypeOK /\ OrderInvariant /\ [SystemNext]_system => OrderInvariant'
<1> SUFFICES ASSUME TypeOK, SystemTypeOK, OrderInvariant, [SystemNext]_system
             PROVE  OrderInvariant'
  OBVIOUS
<1>1. LifeCycleStep
  BY StepIsLedgerStep, LedgerLifeCycle
<1>2. ASSUME order' = order, closing' = closing,
             \/ payments' = payments
             \/ \E p \in Serial :
                  \/ RequestRefund(p) \/ OnRefundFail(p) \/ OnRefundSuccess(p)
                  \/ OnPaymentUnfreeze(p) \/ UNCHANGED vars
      PROVE  OrderInvariant'
  BY <1>1, <1>2, LaterTransactions, OrdersKept
<1>3. ASSUME NEW p \in Serial, RefundStep(p) PROVE OrderInvariant'
  <2>1. order' = order /\ closing' = closing
    BY <1>3 DEF RefundStep, RefundDecided, RefundNotified, Poll, BookPolled,
       RefundGetsLate, provider, processes
  <2>2. OnRefundFail(p) \/ OnRefundSuccess(p) \/ UNCHANGED vars
    BY <1>3 DEF RefundStep, RefundDecided, RefundNotified, Poll, BookPolled,
       RefundGetsLate, BookSuccess, BookFailure
  <2>3. QED
    BY <1>2, <2>1, <2>2
<1>4. ASSUME NEW t \in Thread, ThreadStep(t) PROVE OrderInvariant'
  <2>1. order' = order /\ closing' = closing
    BY <1>4 DEF ThreadStep, StartRefund, CallRefund, BookAnswer, CallerDies,
       provider, processes
  <2>2. ASSUME NEW p \in Serial, StartRefund(t, p) PROVE RequestRefund(p)
    BY <2>2 DEF StartRefund
  <2>3. CASE BookAnswer(t)
    <3>1. caller[t].payment \in Serial
      BY <2>3, CallerType DEF BookAnswer
    <3>2. \/ OnRefundFail(caller[t].payment) \/ OnRefundSuccess(caller[t].payment)
          \/ UNCHANGED vars
      BY <2>3 DEF BookAnswer, BookSuccess, BookFailure
    <3>3. QED
      BY <1>2, <2>1, <3>1, <3>2
  <2>4. CASE CallRefund(t) \/ CallerDies(t)
    BY <1>2, <2>1, <2>4 DEF CallRefund, CallerDies, vars
  <2>5. QED
    BY <1>2, <1>4, <2>1, <2>2, <2>3, <2>4 DEF ThreadStep
<1>5. ASSUME NEW t \in Timer, TimerStep(t) PROVE OrderInvariant'
  <2>1. order' = order /\ closing' = closing
    BY <1>5 DEF TimerStep, StartUnfreeze, UnfreezeNext, UnfreezeAborts, UnfreezeDies,
       provider
  <2>2. \/ payments' = payments
        \/ \E p \in Serial : OnPaymentUnfreeze(p)
    <3>1. UNCHANGED vars => payments' = payments
      BY DEF vars
    <3>2. batch[t] \subseteq Serial
      BY DEF SystemTypeOK
    <3>3. QED
      BY <1>5, <3>1, <3>2 DEF TimerStep, StartUnfreeze, UnfreezeNext, UnfreezeAborts,
         UnfreezeDies, SkipChanged
  <2>3. QED
    BY <1>2, <2>1, <2>2
<1>6. CASE \/ \E p \in Serial : FreezeExpires(p)
           \/ SubmitPolls \/ SystemMoneyOut \/ UNCHANGED system
  <2>1. payments' = payments
    BY <1>6, MoneyOutKeepsPayments DEF FreezeExpires, SubmitPolls, SystemMoneyOut,
       system, vars
  <2>2. order' = order /\ closing' = closing
    BY <1>6 DEF FreezeExpires, SubmitPolls, SystemMoneyOut, system, provider, processes
  <2>3. QED
    BY <1>2, <2>1, <2>2
<1>7. QED
  BY <1>1, <1>3, <1>4, <1>5, <1>6, OrderStepOrder DEF SystemNext

\* What the ledger books of an order is what the provider decided.
THEOREM OrderCorrect == SystemSpec => []OrderInvariant
BY SystemInitOrder, SystemNextOrder, SystemTypeCorrect, SystemLedgerCorrect, PTL
   DEF SystemSpec

\* A merchant is credited only for orders that were paid, and a cancelled order
\* can no longer be paid, however a close races with a payment.
THEOREM BookedOrderCorrect == SystemSpec => []BookedOrderIsReal
<1>1. OrderInvariant => BookedOrderIsReal
  BY DEF OrderInvariant
<1>2. QED
  BY <1>1, OrderCorrect, PTL

-----------------------------------------------------------------------------
(* Locks of rows                                                             *)

USE LockAssumption

-----------------------------------------------------------------------------
(* Accounts in the order of their keys                                     *)

\* s lists accounts in the order of their keys.
InOrder(s) == \A i, j \in DOMAIN s : i < j => Id[s[i]] < Id[s[j]]

\* Of a set of accounts that is not empty one has the least key.
LEMMA LeastAccount ==
  ASSUME NEW S \in SUBSET Account, S # {}
  PROVE  \E a \in S : \A b \in S : Id[a] <= Id[b]
<1> DEFINE B == {Id[a] : a \in S}
           R == OpToRel(<, Nat)
<1>1. B \subseteq Nat /\ B # {}
  OBVIOUS
<1>2. PICK m \in B : \A y \in B : ~(<<y, m>> \in R)
  <2>1. IsWellFoundedOn(R, Nat)
    BY NatLessThanWellFounded
  <2> HIDE DEF B, R
  <2>2. QED
    BY <1>1, <2>1, WFMin
<1>3. \A y \in B : y \in Nat /\ m \in Nat /\ ~(y < m)
  BY <1>1, <1>2 DEF OpToRel
<1>4. PICK a \in S : m = Id[a]
  BY <1>2
<1>5. \A b \in S : Id[b] \in B
  OBVIOUS
<1> HIDE DEF B
<1>6. \A b \in S : Id[a] <= Id[b]
  BY <1>3, <1>4, <1>5
<1>7. QED
  BY <1>6

\* A finite set of accounts can be listed in the order of their keys.
LEMMA OrderExists ==
  \A n \in Nat : \A S \in SUBSET Account :
    IsFiniteSet(S) /\ Cardinality(S) = n => \E s \in [1..n -> S] : InOrder(s)
<1> DEFINE Listed(n) == \A S \in SUBSET Account :
             IsFiniteSet(S) /\ Cardinality(S) = n => \E s \in [1..n -> S] : InOrder(s)
           K == {n \in Nat : Listed(n)}
<1>1. 0 \in K
  <2>1. ASSUME NEW S \in SUBSET Account
        PROVE  \E s \in [1..0 -> S] : InOrder(s)
    <3> DEFINE s == [i \in 1..0 |-> Platform]
    <3>1. s \in [1..0 -> S] /\ InOrder(s)
      BY DEF InOrder
    <3>2. QED
      BY <3>1
  <2>2. QED
    BY <2>1
<1>2. \A n \in Nat : n \in K => n + 1 \in K
  <2>1. SUFFICES ASSUME NEW n \in Nat, Listed(n),
                        NEW S \in SUBSET Account, IsFiniteSet(S), Cardinality(S) = n + 1
                 PROVE  \E s \in [1..(n + 1) -> S] : InOrder(s)
    OBVIOUS
  <2>2. S # {}
    BY <2>1, FS_EmptySet
  <2>3. PICK a \in S : \A b \in S : Id[a] <= Id[b]
    BY <2>2, LeastAccount
  <2>4. IsFiniteSet(S \ {a}) /\ Cardinality(S \ {a}) = n
    <3>1. /\ IsFiniteSet(S \ {a})
          /\ Cardinality(S \ {a}) = IF a \in S THEN Cardinality(S) - 1 ELSE Cardinality(S)
      BY <2>1, FS_RemoveElement
    <3>2. QED
      BY <2>1, <3>1
  <2>5. PICK r \in [1..n -> S \ {a}] : InOrder(r)
    BY <2>1, <2>4
  <2> DEFINE s == [i \in 1..(n + 1) |-> IF i = 1 THEN a ELSE r[i - 1]]
  <2>6. \A i \in 2..(n + 1) : i - 1 \in 1..n /\ s[i] = r[i - 1] /\ s[i] \in S \ {a}
    <3>1. \A i \in 2..(n + 1) : i - 1 \in 1..n /\ s[i] = r[i - 1]
      OBVIOUS
    <3> HIDE DEF s
    <3>2. QED
      BY <3>1
  <2>7. s \in [1..(n + 1) -> S] /\ s[1] = a
    <3>1. s = [i \in 1..(n + 1) |-> s[i]] /\ s[1] = a
      OBVIOUS
    <3>2. \A i \in 1..(n + 1) : s[i] \in S
      <4>1. \A i \in 1..(n + 1) : i = 1 \/ i \in 2..(n + 1)
        OBVIOUS
      <4> HIDE DEF s
      <4>2. QED
        BY <2>6, <3>1, <4>1
    <3> HIDE DEF s
    <3>3. QED
      BY <3>1, <3>2
  <2> HIDE DEF s
  <2>8. ASSUME NEW i \in 1..(n + 1), NEW j \in 1..(n + 1), i < j
        PROVE  Id[s[i]] < Id[s[j]]
    <3>1. j \in 2..(n + 1)
      BY <2>8
    <3>2. CASE i = 1
      <4>1. s[j] \in S /\ s[j] # a /\ Id[s[j]] \in Nat /\ Id[a] \in Nat
        BY <2>6, <3>1
      <4>2. Id[s[j]] # Id[a]
        BY <4>1
      <4>3. QED
        BY <2>3, <2>7, <3>2, <4>1, <4>2
    <3>3. CASE i # 1
      <4>1. i \in 2..(n + 1) /\ i - 1 < j - 1
        BY <2>8, <3>3
      <4>2. i - 1 \in DOMAIN r /\ j - 1 \in DOMAIN r
        BY <2>6, <3>1, <4>1
      <4>3. Id[r[i - 1]] < Id[r[j - 1]]
        BY <2>5, <4>1, <4>2 DEF InOrder
      <4>4. QED
        BY <2>6, <3>1, <4>1, <4>3
    <3>4. QED
      BY <3>2, <3>3
  <2>9. InOrder(s)
    BY <2>7, <2>8 DEF InOrder
  <2>10. QED
    BY <2>7, <2>9
<1> HIDE DEF K
<1>3. \A n \in Nat : n \in K
  BY <1>1, <1>2, SetInduction
<1>4. QED
  BY <1>3 DEF K

\* The locks on a set of accounts: all of them, in the order of their keys.
LEMMA AccountLocksAre ==
  ASSUME NEW S \in SUBSET Account, IsFiniteSet(S)
  PROVE  \E n \in Nat : \E s \in [1..n -> S] :
           /\ AccountLocks(S) = [i \in 1..n |-> TheAccount(s[i])]
           /\ InOrder(s)
           /\ \A a \in S : \E i \in 1..n : s[i] = a
<1> DEFINE n == Cardinality(S)
           Sorted(s) == \A i, j \in DOMAIN s : i < j => Id[s[i]] < Id[s[j]]
           s0 == CHOOSE s \in [1..n -> S] : Sorted(s)
<1>1. n \in Nat
  BY FS_CardinalityType
<1>2. \E s \in [1..n -> S] : Sorted(s)
  BY <1>1, OrderExists DEF InOrder
<1> HIDE DEF n
<1>3. s0 \in [1..n -> S] /\ Sorted(s0)
  <2> HIDE DEF Sorted
  <2>1. QED
    BY <1>2
<1>4. AccountLocks(S) = [i \in DOMAIN s0 |-> TheAccount(s0[i])]
  BY DEF AccountLocks, n
<1> HIDE DEF s0
<1>5. InOrder(s0) /\ DOMAIN s0 = 1..n
  BY <1>3 DEF InOrder
<1>6. \A i, j \in 1..n : s0[i] = s0[j] => i = j
  <2>1. SUFFICES ASSUME NEW i \in 1..n, NEW j \in 1..n, s0[i] = s0[j], i # j
                 PROVE  FALSE
    OBVIOUS
  <2>2. Id[s0[i]] \in Nat /\ Id[s0[j]] \in Nat
    BY <1>3
  <2>3. i < j \/ j < i
    BY <1>1, <2>1
  <2>4. QED
    BY <1>5, <2>1, <2>2, <2>3 DEF InOrder
<1>7. s0 \in Injection(1..n, S)
  BY <1>3, <1>6 DEF Injection, IsInjective
<1>8. Cardinality(1..n) = n
  BY <1>1, FS_Interval
<1>9. s0 \in Surjection(1..n, S)
  <2>1. Cardinality(1..n) = Cardinality(S)
    BY <1>8 DEF n
  <2>2. QED
    BY <1>7, <2>1, FS_Injection
<1>10. \A a \in S : \E i \in 1..n : s0[i] = a
  BY <1>9 DEF Surjection
<1>11. QED
  BY <1>1, <1>3, <1>4, <1>5, <1>10

-----------------------------------------------------------------------------
(* Plans                                                                   *)

Lockable == {TheAccount(a) : a \in Account} \cup {ThePayment(p) : p \in Serial}
              \cup {TheRefund(p) : p \in Serial} \cup {TheCoupon(c) : c \in CouponId}

\* The order in which all transactions take locks, but those that unfreeze a
\* payment with a coupon
Rank(l) == IF l[1] = "account" THEN Id[l[2]]
           ELSE IF l[1] = "coupon" THEN MaxId + 1
           ELSE IF l[1] = "payment" THEN MaxId + 2 ELSE MaxId + 3

\* The accounts that share in a payment with a coupon
Owners(x) == {Platform, x.merchant, coupons[x.coupon].originator, Inviter[x.merchant]}

CouponOf(x) == IF HasCoupon(x) THEN {TheCoupon(x.coupon)} ELSE {}

\* The rows a transaction writes when it commits
Writes(kind, p) ==
  LET x == payments[p]
      both == {TheAccount(Platform), TheAccount(x.merchant)}
  IN  CASE kind = "pay" -> both \cup {ThePayment(p)}
        [] kind = "refund" -> both \cup CouponOf(x) \cup {ThePayment(p), TheRefund(p)}
        [] kind \in {"fail", "request"} -> {ThePayment(p), TheRefund(p)}
        [] kind = "cancel" -> CouponOf(x) \cup {ThePayment(p)}
        [] kind = "unfreeze" ->
             {ThePayment(p)} \cup (IF HasCoupon(x) THEN {TheAccount(a) : a \in Owners(x)}
                                                   ELSE {TheAccount(x.merchant)})

Rises(s) == \A i, j \in 1..Len(s) : i < j => Rank(s[i]) < Rank(s[j])

\* A payment that a transaction of this kind may be about
Subject(kind, p) ==
  /\ p \in Serial /\ payments[p].status # "NONE"
  /\ kind = "unfreeze" /\ HasCoupon(payments[p]) => Inviter[payments[p].merchant] # NoMarketer

LEMMA RankOf ==
  /\ \A a \in Account : Rank(TheAccount(a)) = Id[a] /\ Id[a] \in 1..MaxId
  /\ \A a \in Merchant : Id[Platform] < Id[a] /\ a \in Account
  /\ \A c : Rank(TheCoupon(c)) = MaxId + 1
  /\ \A p : Rank(ThePayment(p)) = MaxId + 2 /\ Rank(TheRefund(p)) = MaxId + 3
<1>1. /\ \A a \in Account : Rank(TheAccount(a)) = Id[a] /\ Id[a] \in 1..MaxId
      /\ \A c : Rank(TheCoupon(c)) = MaxId + 1
      /\ \A p : Rank(ThePayment(p)) = MaxId + 2 /\ Rank(TheRefund(p)) = MaxId + 3
  BY DEF Rank, TheAccount, TheCoupon, ThePayment, TheRefund
<1>2. ASSUME NEW a \in Merchant
      PROVE  Id[Platform] < Id[a] /\ a \in Account
  <2>1. a \in Account /\ Platform \in Account /\ a # Platform
    BY AccountAssumption DEF Account
  <2>2. Id[a] # Id[Platform] /\ Id[a] \in 1..MaxId
    BY <2>1
  <2>3. QED
    BY <2>1, <2>2
<1>3. QED
  BY <1>1, <1>2

\* What is locked together is told apart.
LEMMA LocksDiffer ==
  /\ \A a, b : TheAccount(a) = TheAccount(b) => a = b
  /\ \A a, b : ThePayment(a) = ThePayment(b) => a = b
  /\ \A a, b : TheRefund(a) = TheRefund(b) => a = b
  /\ \A a, b : TheCoupon(a) = TheCoupon(b) => a = b
  /\ \A a, b : /\ TheAccount(a) # ThePayment(b) /\ TheAccount(a) # TheRefund(b)
               /\ TheAccount(a) # TheCoupon(b) /\ ThePayment(a) # TheRefund(b)
               /\ ThePayment(a) # TheCoupon(b) /\ TheRefund(a) # TheCoupon(b)
  BY DEF TheAccount, ThePayment, TheRefund, TheCoupon

\* The merchant and the coupon of a payment
LEMMA SubjectRows ==
  ASSUME TypeOK, NEW p \in Serial
  PROVE  /\ payments[p].merchant \in Merchant
         /\ TheAccount(Platform) \in Lockable
         /\ \A a \in Account : TheAccount(a) \in Lockable
         /\ TheAccount(payments[p].merchant) \in Lockable
         /\ ThePayment(p) \in Lockable /\ TheRefund(p) \in Lockable
         /\ HasCoupon(payments[p]) =>
              /\ payments[p].coupon \in CouponId
              /\ TheCoupon(payments[p].coupon) \in Lockable
              /\ coupons[payments[p].coupon].originator \in Merchant
<1>1. payments[p].merchant \in Merchant /\ payments[p].merchant \in Account /\ Platform \in Account
  BY PartsType DEF Payment, Account
<1>2. QED
  BY <1>1, CouponType DEF Lockable

\* The plan of a payment whose locks have one order
LEMMA PlainPlan ==
  ASSUME TypeOK, NEW p \in Serial, NEW kind \in Kind \ {"withdraw"},
         ~(kind = "unfreeze" /\ HasCoupon(payments[p]))
  PROVE  LET s == Locks(kind, p)
         IN  /\ s \in Seq(Lockable)
             /\ Rises(s)
             /\ \A l \in Writes(kind, p) : \E i \in 1..Len(s) : s[i] = l
             /\ \A i \in 1..Len(s) : s[i] \in Writes(kind, p)
             /\ kind \in {"fail", "request"} => s[1] = ThePayment(p)
             /\ kind = "cancel" => s[1] \in {ThePayment(p), TheCoupon(payments[p].coupon)}
<1> DEFINE x == payments[p]
           A == TheAccount(Platform)
           M == TheAccount(x.merchant)
           C == TheCoupon(x.coupon)
           P == ThePayment(p)
           R == TheRefund(p)
           Good(s, W) ==
             /\ s \in Seq(Lockable)
             /\ Rises(s)
             /\ \A l \in W : \E i \in 1..Len(s) : s[i] = l
             /\ \A i \in 1..Len(s) : s[i] \in W
<1>1. /\ A \in Lockable /\ M \in Lockable /\ P \in Lockable /\ R \in Lockable
      /\ HasCoupon(x) => C \in Lockable
  BY SubjectRows
<1>2. /\ Rank(A) \in Nat /\ Rank(M) \in Nat /\ Rank(A) < Rank(M) /\ Rank(M) <= MaxId
      /\ Rank(C) = MaxId + 1 /\ Rank(P) = MaxId + 2 /\ Rank(R) = MaxId + 3
  <2>1. x.merchant \in Merchant /\ Platform \in Account
    BY SubjectRows DEF Account
  <2>2. Id[Platform] < Id[x.merchant] /\ x.merchant \in Account
    BY <2>1, RankOf
  <2>3. Rank(A) = Id[Platform] /\ Rank(M) = Id[x.merchant]
    BY <2>1, <2>2, RankOf
  <2>4. Id[Platform] \in 1..MaxId /\ Id[x.merchant] \in 1..MaxId
    BY <2>1, <2>2
  <2>5. Rank(C) = MaxId + 1 /\ Rank(P) = MaxId + 2 /\ Rank(R) = MaxId + 3
    BY RankOf
  <2> HIDE DEF A, M, C, P, R
  <2>6. QED
    BY <2>2, <2>3, <2>4, <2>5
<1>3. Locks(kind, p) =
        CASE kind = "pay" -> <<A, M, P>>
          [] kind = "refund" -> IF HasCoupon(x) THEN <<A, M, C, P, R>> ELSE <<A, M, P, R>>
          [] kind \in {"fail", "request"} -> <<P, R>>
          [] kind = "cancel" -> IF HasCoupon(x) THEN <<C, P>> ELSE <<P>>
          [] kind = "unfreeze" -> <<M, P>>
  BY DEF Locks, PayLocks, RefundLocks, UnfreezeLocks, CouponLock, Kind
<1>4. Writes(kind, p) =
        CASE kind = "pay" -> {A, M, P}
          [] kind = "refund" -> IF HasCoupon(x) THEN {A, M, C, P, R} ELSE {A, M, P, R}
          [] kind \in {"fail", "request"} -> {P, R}
          [] kind = "cancel" -> IF HasCoupon(x) THEN {C, P} ELSE {P}
          [] kind = "unfreeze" -> {P, M}
  BY DEF Writes, CouponOf, Kind
<1> HIDE DEF A, M, C, P, R
<1>5. Good(<<A, M, P>>, {A, M, P})
  BY <1>1, <1>2 DEF Rises
<1>6. HasCoupon(x) => Good(<<A, M, C, P, R>>, {A, M, C, P, R})
  BY <1>1, <1>2 DEF Rises
<1>7. Good(<<A, M, P, R>>, {A, M, P, R})
  BY <1>1, <1>2 DEF Rises
<1>8. Good(<<P, R>>, {P, R}) /\ <<P, R>>[1] = P
  BY <1>1, <1>2 DEF Rises
<1>9. HasCoupon(x) => Good(<<C, P>>, {C, P}) /\ <<C, P>>[1] = C
  BY <1>1, <1>2 DEF Rises
<1>10. Good(<<P>>, {P}) /\ <<P>>[1] = P
  BY <1>1, <1>2 DEF Rises
<1>11. Good(<<M, P>>, {P, M})
  BY <1>1, <1>2 DEF Rises
<1>12. /\ Good(Locks(kind, p), Writes(kind, p))
       /\ kind \in {"fail", "request"} => Locks(kind, p)[1] = P
       /\ kind = "cancel" => Locks(kind, p)[1] \in {P, C}
  <2> HIDE DEF Good, x
  <2>1. CASE kind = "pay"
    BY <2>1, <1>3, <1>4, <1>5
  <2>2. CASE kind = "refund"
    BY <2>2, <1>3, <1>4, <1>6, <1>7
  <2>3. CASE kind \in {"fail", "request"}
    BY <2>3, <1>3, <1>4, <1>8
  <2>4. CASE kind = "cancel"
    BY <2>4, <1>3, <1>4, <1>9, <1>10
  <2>5. CASE kind = "unfreeze"
    BY <2>5, <1>3, <1>4, <1>11
  <2>6. QED
    BY <2>1, <2>2, <2>3, <2>4, <2>5 DEF Kind
<1>13. QED
  BY <1>12 DEF P, C

\* The plan of a transaction that releases a payment with a coupon: payment,
\* coupon, and then the accounts.
LEMMA SharedPlan ==
  ASSUME TypeOK, NEW p \in Serial, HasCoupon(payments[p]), Subject("unfreeze", p)
  PROVE  LET s == Locks("unfreeze", p)
         IN  /\ s \in Seq(Lockable)
             /\ Len(s) >= 2
             /\ s[1] = ThePayment(p) /\ s[2] = TheCoupon(payments[p].coupon)
             /\ \A i \in 3..Len(s) : \E a \in Account : s[i] = TheAccount(a)
             /\ \A i, j \in 3..Len(s) : i < j => Rank(s[i]) < Rank(s[j])
             /\ \A l \in Writes("unfreeze", p) : \E i \in 1..Len(s) : s[i] = l
<1> DEFINE x == payments[p]
           S == Owners(x)
           P == ThePayment(p)
           C == TheCoupon(x.coupon)
<1>1. P \in Lockable /\ C \in Lockable /\ x.merchant \in Merchant
      /\ coupons[x.coupon].originator \in Merchant
  BY SubjectRows
<1>2. Inviter[x.merchant] \in Marketer
  BY <1>1, AccountAssumption DEF Subject
<1>3. S \subseteq Account
  BY <1>1, <1>2 DEF Owners, Account
<1>4. IsFiniteSet(S)
  <2>1. S = (({Platform} \cup {x.merchant}) \cup {coupons[x.coupon].originator})
              \cup {Inviter[x.merchant]}
    BY DEF Owners
  <2> HIDE DEF S
  <2>2. IsFiniteSet({Platform})
    BY FS_Singleton
  <2>3. QED
    BY <2>1, <2>2, FS_AddElement
<1>5. PICK n \in Nat : \E s \in [1..n -> S] :
           /\ AccountLocks(S) = [i \in 1..n |-> TheAccount(s[i])]
           /\ InOrder(s)
           /\ \A a \in S : \E i \in 1..n : s[i] = a
  <2> HIDE DEF S
  <2>1. QED
    BY <1>3, <1>4, AccountLocksAre
<1>6. PICK r \in [1..n -> S] :
           /\ AccountLocks(S) = [i \in 1..n |-> TheAccount(r[i])]
           /\ InOrder(r)
           /\ \A a \in S : \E i \in 1..n : r[i] = a
  BY <1>5
<1> DEFINE A == AccountLocks(S)
           s == <<P, C>> \o A
<1>7. Locks("unfreeze", p) = s
  BY DEF Locks, UnfreezeLocks, Owners
<1>8. Writes("unfreeze", p) = {P} \cup {TheAccount(a) : a \in S}
  BY DEF Writes
<1>9. \A a \in Account : TheAccount(a) \in Lockable /\ Rank(TheAccount(a)) = Id[a]
  BY RankOf DEF Lockable
<1>10. /\ A \in Seq(Lockable) /\ Len(A) = n
       /\ \A i \in 1..n : A[i] = TheAccount(r[i]) /\ r[i] \in S /\ r[i] \in Account
  <2> HIDE DEF S
  <2>1. A = [i \in 1..n |-> TheAccount(r[i])]
    BY <1>6
  <2>2. \A i \in 1..n : TheAccount(r[i]) \in Lockable
    BY <1>3, <1>9
  <2> HIDE DEF A
  <2>3. A \in [1..n -> Lockable]
    BY <2>1, <2>2
  <2>4. A \in Seq(Lockable)
    <3>1. A \in UNION {[1..m -> Lockable] : m \in Nat}
      BY <2>3, Zenon
    <3>2. Seq(Lockable) = UNION {[1..m -> Lockable] : m \in Nat}
      BY SeqDef, Zenon
    <3>3. QED
      BY <3>1, <3>2
  <2>5. Len(A) = n
    BY <2>3, <2>4
  <2>6. QED
    BY <1>3, <2>1, <2>4, <2>5
<1> HIDE DEF S, P, C, A
<1>11. /\ s \in Seq(Lockable) /\ Len(s) = n + 2 /\ s[1] = P /\ s[2] = C
       /\ \A i \in 3..(n + 2) : s[i] = A[i - 2] /\ i - 2 \in 1..n
  BY <1>1, <1>10
<1> HIDE DEF s
<1>12. \A i \in 3..(n + 2) : s[i] = TheAccount(r[i - 2]) /\ r[i - 2] \in Account /\ i - 2 \in 1..n
  BY <1>10, <1>11
<1>13. \A i, j \in 3..(n + 2) : i < j => Rank(s[i]) < Rank(s[j])
  <2>1. SUFFICES ASSUME NEW i \in 3..(n + 2), NEW j \in 3..(n + 2), i < j
                 PROVE  Rank(s[i]) < Rank(s[j])
    OBVIOUS
  <2>2. i - 2 \in DOMAIN r /\ j - 2 \in DOMAIN r /\ i - 2 < j - 2
    BY <1>12, <2>1
  <2>3. Id[r[i - 2]] < Id[r[j - 2]]
    BY <1>6, <2>2 DEF InOrder
  <2>4. Rank(s[i]) = Id[r[i - 2]] /\ Rank(s[j]) = Id[r[j - 2]]
    BY <1>9, <1>12
  <2>5. QED
    BY <2>3, <2>4
<1>14. \A l \in Writes("unfreeze", p) : \E i \in 1..(n + 2) : s[i] = l
  <2>1. ASSUME NEW a \in S PROVE \E i \in 1..(n + 2) : s[i] = TheAccount(a)
    <3>1. PICK k \in 1..n : r[k] = a
      BY <1>6
    <3>2. k + 2 \in 3..(n + 2) /\ (k + 2) - 2 = k
      OBVIOUS
    <3>3. s[k + 2] = TheAccount(r[k])
      BY <1>12, <3>2
    <3>4. QED
      BY <3>1, <3>2, <3>3
  <2>2. QED
    BY <1>8, <1>11, <2>1
<1>15. /\ s \in Seq(Lockable) /\ Len(s) >= 2 /\ Len(s) = n + 2
       /\ s[1] = ThePayment(p) /\ s[2] = TheCoupon(x.coupon)
       /\ \A i \in 3..(n + 2) : \E a \in Account : s[i] = TheAccount(a)
  BY <1>11, <1>12 DEF P, C
<1>16. QED
  BY <1>7, <1>13, <1>14, <1>15

-----------------------------------------------------------------------------
(* Plans stay while the ledger goes on                                     *)

\* A payment keeps its merchant and its coupon, and a coupon its originator.
LEMMA PaymentStays ==
  ASSUME CouponTables, [Next]_vars, NEW p \in Serial, payments[p].status # "NONE"
  PROVE  /\ payments'[p].status # "NONE"
         /\ payments'[p].merchant = payments[p].merchant
         /\ payments'[p].coupon = payments[p].coupon
         /\ HasCoupon(payments[p]) =>
              coupons'[payments[p].coupon].originator = coupons[payments[p].coupon].originator
<1>1. CouponTables' /\ CouponMoves /\ Steady
  BY NextTables
<1>2. TypeOK /\ payments \in [Serial -> Payment]
  BY DEF CouponTables, TypeOK
<1>3. payments'[p].coupon = payments[p].coupon
  <2>1. ASSUME NEW q \in Serial, NEW s, payments' = [payments EXCEPT ![q].status = s]
        PROVE  payments'[p].coupon = payments[p].coupon
    BY <1>2, <2>1 DEF Payment
  <2>2. ASSUME NEW q \in Serial, PaymentStep(q)
        PROVE  payments'[p].coupon = payments[p].coupon
    <3>1. CASE \E ch \in Channel, m \in Merchant, c \in CouponId \cup {NoCoupon},
                  price \in OrderPrice : PlaceOrder(q, ch, m, c, price)
      <4>1. p # q
        BY <3>1 DEF PlaceOrder
      <4>2. payments'[p] = payments[p]
        BY <1>2, <3>1, <4>1 DEF PlaceOrder
      <4>3. QED
        BY <4>2
    <3>2. CASE CancelOrder(q)
      BY <2>1, <3>2 DEF CancelOrder
    <3>3. CASE OnPaymentSuccess(q)
      BY <2>1, <3>3 DEF OnPaymentSuccess
    <3>4. CASE RequestRefund(q)
      BY <2>1, <3>4 DEF RequestRefund
    <3>5. CASE OnRefundFail(q)
      BY <2>1, <3>5 DEF OnRefundFail
    <3>6. CASE OnRefundSuccess(q)
      BY <2>1, <3>6 DEF OnRefundSuccess
    <3>7. CASE OnPaymentUnfreeze(q)
      BY <2>1, <3>7 DEF OnPaymentUnfreeze, UnfreezeShared, UnfreezePlain
    <3>8. QED
      BY <2>2, <3>1, <3>2, <3>3, <3>4, <3>5, <3>6, <3>7 DEF PaymentStep
  <2>3. CASE MoneyOut
    BY <2>3 DEF MoneyOut, Withdraw, Transfer, Settle
  <2>4. CASE UNCHANGED vars
    BY <2>4 DEF vars
  <2>5. QED
    BY <2>2, <2>3, <2>4 DEF Next
<1>4. ASSUME HasCoupon(payments[p])
      PROVE  coupons'[payments[p].coupon].originator = coupons[payments[p].coupon].originator
  <2> DEFINE u == payments[p].coupon
  <2>1. u \in CouponId /\ coupons[u].status \in {"USED", "DESTROYED"}
    BY <1>2, <1>4, CouponType DEF CouponTables, CouponMatchesPayment
  <2> HIDE DEF u
  <2>2. ASSUME NEW c \in CouponId, TakesCoupon(c)
        PROVE  coupons'[u].originator = coupons[u].originator
    BY <2>1, <2>2 DEF TakesCoupon
  <2>3. ASSUME NEW v \in CouponId, NEW c \in CouponId, RenewsCoupon(v, c)
        PROVE  coupons'[u].originator = coupons[u].originator
    BY <2>1, <2>3 DEF RenewsCoupon, SameTerms
  <2>4. coupons'[u].originator = coupons[u].originator
    BY <1>1, <2>2, <2>3 DEF CouponMoves
  <2>5. QED
    BY <2>4 DEF u
<1>5. QED
  BY <1>1, <1>3, <1>4 DEF Steady

\* So the locks a transaction has planned stay those it would plan now.
LEMMA PlanStays ==
  ASSUME CouponTables, [Next]_vars, NEW kind \in Kind \ {"withdraw"}, NEW p, Subject(kind, p)
  PROVE  Locks(kind, p)' = Locks(kind, p) /\ Subject(kind, p)'
<1>1. /\ p \in Serial /\ payments[p].status # "NONE" /\ payments'[p].status # "NONE"
      /\ payments'[p].merchant = payments[p].merchant
      /\ payments'[p].coupon = payments[p].coupon
      /\ HasCoupon(payments[p]) =>
           coupons'[payments[p].coupon].originator = coupons[payments[p].coupon].originator
  BY PaymentStays DEF Subject
<1>2. Subject(kind, p)'
  BY <1>1 DEF Subject, HasCoupon
<1>3. /\ PayLocks(p)' = PayLocks(p)
      /\ CouponLock(payments[p])' = CouponLock(payments[p])
  BY <1>1 DEF PayLocks, CouponLock, HasCoupon
<1>4. RefundLocks(p)' = RefundLocks(p)
  BY <1>1, <1>3 DEF RefundLocks
<1>5. UnfreezeLocks(p)' = UnfreezeLocks(p)
  <2>1. CASE HasCoupon(payments[p])
    <3>1. Owners(payments[p])' = Owners(payments[p])
      BY <1>1, <2>1 DEF Owners
    <3>2. AccountLocks(Owners(payments[p]))' = AccountLocks(Owners(payments[p]))
      BY <3>1 DEF AccountLocks
    <3>3. /\ UnfreezeLocks(p) = <<ThePayment(p), TheCoupon(payments[p].coupon)>>
                                  \o AccountLocks(Owners(payments[p]))
          /\ UnfreezeLocks(p)' = <<ThePayment(p), TheCoupon(payments[p].coupon)>>
                                  \o AccountLocks(Owners(payments[p]))'
      BY <1>1, <2>1 DEF UnfreezeLocks, Owners, HasCoupon
    <3>4. QED
      BY <3>2, <3>3
  <2>2. CASE ~HasCoupon(payments[p])
    BY <1>1, <2>2 DEF UnfreezeLocks, HasCoupon
  <2>3. QED
    BY <2>1, <2>2
<1>6. Locks(kind, p)' = Locks(kind, p)
  BY <1>3, <1>4, <1>5 DEF Locks
<1>7. QED
  BY <1>2, <1>6

-----------------------------------------------------------------------------
(* The invariant                                                           *)

Plan(kind, p) == IF kind = "withdraw" THEN <<TheAccount(p)>> ELSE Locks(kind, p)

\* What a transaction of this kind may be about
Concerns(kind, p) == IF kind = "withdraw" THEN p \in Merchant \cup Marketer
                                          ELSE Subject(kind, p)

TxnRow == [kind : Kind, payment : Serial \cup Merchant \cup Marketer,
           held : SUBSET Lockable, todo : Seq(Lockable)]

\* A transaction holds the first locks of its plan and has to take the others.
Follows(row, plan) ==
  \E k \in 0..Len(plan) :
    /\ row.held = {plan[i] : i \in 1..k}
    /\ Len(row.todo) = Len(plan) - k
    /\ \A i \in 1..Len(row.todo) : row.todo[i] = plan[k + i]

OnPlan(row) == Follows(row, Plan(row.kind, row.payment))

TxnsGoOn ==
  \A t \in Txn : Running(t) => Concerns(txns[t].kind, txns[t].payment) /\ OnPlan(txns[t])

\* A row is locked by one transaction.
LocksExclude ==
  \A t, u \in Txn : t # u /\ Running(t) /\ Running(u) =>
    \A l \in txns[t].held : l \notin txns[u].held

LockInvariant ==
  /\ CouponInvariant
  /\ RefundMatchesPayment
  /\ txns \in [Txn -> {NoTxn} \cup TxnRow]
  /\ TxnsGoOn
  /\ LocksExclude

LEMMA RunningRow ==
  ASSUME LockInvariant, NEW t \in Txn
  PROVE  /\ Running(t) => /\ txns[t] \in TxnRow
                          /\ Concerns(txns[t].kind, txns[t].payment) /\ OnPlan(txns[t])
         /\ ~Running(t) => txns[t] = NoTxn
  BY DEF LockInvariant, Running, NoTxn, TxnRow, Kind, TxnsGoOn

LEMMA PlanType ==
  ASSUME TypeOK, NEW kind \in Kind, NEW p, Concerns(kind, p)
  PROVE  /\ Plan(kind, p) \in Seq(Lockable)
         /\ p \in Serial \cup Merchant \cup Marketer
<1>1. CASE kind = "withdraw"
  <2>1. p \in Account /\ TheAccount(p) \in Lockable
    BY <1>1 DEF Concerns, Account, Lockable
  <2>2. QED
    BY <1>1, <2>1 DEF Concerns, Plan
<1>2. CASE kind = "unfreeze" /\ HasCoupon(payments[p])
  <2>1. Subject("unfreeze", p) /\ p \in Serial
    BY <1>2 DEF Concerns, Subject
  <2>2. Locks("unfreeze", p) \in Seq(Lockable)
    BY <1>2, <2>1, SharedPlan
  <2>3. QED
    BY <1>2, <2>1, <2>2 DEF Plan
<1>3. CASE kind # "withdraw" /\ ~(kind = "unfreeze" /\ HasCoupon(payments[p]))
  <2>1. p \in Serial
    BY <1>3 DEF Concerns, Subject
  <2>2. kind \in Kind \ {"withdraw"}
    BY <1>3
  <2>3. Locks(kind, p) \in Seq(Lockable)
    BY <1>3, <2>1, <2>2, PlainPlan
  <2>4. QED
    BY <1>3, <2>1, <2>3 DEF Plan
<1>4. QED
  BY <1>1, <1>2, <1>3

\* Whatever connections do, the ledger takes a step of its own or none.
LEMMA LockLedgerStep == LockInvariant /\ [LockNext]_locking => [Next]_vars
<1> SUFFICES ASSUME LockInvariant, [LockNext]_locking
             PROVE  [Next]_vars
  OBVIOUS
<1>1. CASE Order
  BY <1>1 DEF Order, Next, PaymentStep
<1>2. ASSUME NEW t \in Txn, Commit(t)
      PROVE  Next
  <2> DEFINE p == txns[t].payment
  <2>1. Running(t) /\ txns[t] \in TxnRow /\ Concerns(txns[t].kind, p)
    BY <1>2, RunningRow DEF Commit, Complete
  <2>2. CASE txns[t].kind = "withdraw"
    <3>1. \E ch \in Channel, n \in Amount : Withdraw(p, ch, n)
      BY <1>2, <2>2 DEF Commit
    <3>2. p \in Merchant \cup Marketer
      BY <2>1, <2>2 DEF Concerns
    <3> HIDE DEF p
    <3>3. QED
      BY <3>1, <3>2 DEF Next, MoneyOut
  <2>3. CASE txns[t].kind # "withdraw"
    <3>1. p \in Serial /\ txns[t].kind \in Kind
      BY <2>1, <2>3 DEF Concerns, Subject, TxnRow
    <3>2. \/ OnPaymentSuccess(p) \/ OnRefundSuccess(p) \/ OnRefundFail(p)
          \/ RequestRefund(p) \/ CancelOrder(p) \/ OnPaymentUnfreeze(p)
      BY <1>2, <2>3, <3>1 DEF Commit, Kind
    <3> HIDE DEF p
    <3>3. QED
      BY <3>1, <3>2 DEF Next, PaymentStep
  <2>4. QED
    BY <2>2, <2>3
<1>3. ASSUME NEW t \in Txn, TxnStep(t), ~Commit(t)
      PROVE  UNCHANGED vars
  BY <1>3 DEF TxnStep, Begin, BeginWithdraw, Lock, RollBack, Victim
<1>4. CASE UNCHANGED locking
  BY <1>4 DEF locking
<1>5. QED
  BY <1>1, <1>2, <1>3, <1>4 DEF LockNext

\* A transaction that does nothing is not disturbed by what others commit.
LEMMA OthersStay ==
  ASSUME CouponTables, [Next]_vars, NEW row \in TxnRow,
         Concerns(row.kind, row.payment), OnPlan(row)
  PROVE  Concerns(row.kind, row.payment)' /\ OnPlan(row)'
<1>1. row.kind \in Kind
  BY DEF TxnRow
<1>2. CASE row.kind = "withdraw"
  BY <1>2 DEF Concerns, OnPlan, Plan
<1>3. CASE row.kind # "withdraw"
  <2>1. Subject(row.kind, row.payment)
    BY <1>3 DEF Concerns
  <2>2. Locks(row.kind, row.payment)' = Locks(row.kind, row.payment) /\ Subject(row.kind, row.payment)'
    BY <1>1, <1>3, <2>1, PlanStays
  <2>3. Plan(row.kind, row.payment)' = Plan(row.kind, row.payment)
    BY <1>3, <2>2 DEF Plan
  <2>4. QED
    BY <1>3, <2>2, <2>3 DEF Concerns, OnPlan
<1>4. QED
  BY <1>2, <1>3

\* One connection goes on, and the others stay on their plans.
LEMMA ConnectionMoves ==
  ASSUME LockInvariant, [LockNext]_locking, NEW t \in Txn, NEW row \in {NoTxn} \cup TxnRow,
         txns' = [txns EXCEPT ![t] = row],
         row \in TxnRow => /\ Concerns(row.kind, row.payment)' /\ OnPlan(row)'
                           /\ \A u \in Txn : u # t /\ Running(u) =>
                                \A l \in row.held : l \notin txns[u].held
  PROVE  LockInvariant'
<1>1. [Next]_vars /\ CouponTables /\ TypeOK
  BY LockLedgerStep DEF LockInvariant, CouponInvariant, CouponTables
<1>2. CouponInvariant' /\ RefundMatchesPayment'
  BY <1>1, NextCoupons, NextRefundMatches DEF LockInvariant
<1>3. txns \in [Txn -> {NoTxn} \cup TxnRow]
  BY DEF LockInvariant
<1>4. txns' \in [Txn -> {NoTxn} \cup TxnRow]
  BY <1>3
<1>5. txns'[t] = row /\ \A u \in Txn : u # t => txns'[u] = txns[u]
  BY <1>3
<1>6. row.kind # "none" => row \in TxnRow
  BY DEF NoTxn
<1>7. TxnsGoOn'
  <2>1. ASSUME NEW u \in Txn, Running(u)'
        PROVE  Concerns(txns[u].kind, txns[u].payment)' /\ OnPlan(txns[u])'
    <3>1. CASE u = t
      BY <1>5, <1>6, <2>1, <3>1 DEF Running
    <3>2. CASE u # t
      <4> DEFINE r == txns[u]
      <4>1. txns'[u] = r /\ Running(u)
        BY <1>5, <2>1, <3>2 DEF Running
      <4>2. r \in TxnRow /\ Concerns(r.kind, r.payment) /\ OnPlan(r)
        BY <4>1, RunningRow
      <4>3. PICK v \in TxnRow : v = r
        BY <4>2
      <4>4. Concerns(v.kind, v.payment) /\ OnPlan(v)
        BY <4>2, <4>3
      <4>5. Concerns(v.kind, v.payment)' /\ OnPlan(v)'
        BY <1>1, <4>4, OthersStay
      <4>6. txns'[u] = v
        BY <4>1, <4>3
      <4>7. QED
        BY <4>5, <4>6
    <3>3. QED
      BY <3>1, <3>2
  <2>2. QED
    BY <2>1 DEF TxnsGoOn
<1>8. LocksExclude'
  <2>1. SUFFICES ASSUME NEW a \in Txn, NEW b \in Txn, a # b, Running(a)', Running(b)',
                        NEW l, l \in txns'[a].held, l \in txns'[b].held
                 PROVE  FALSE
    BY DEF LocksExclude
  <2>2. \A u \in Txn : u # t /\ Running(u)' => Running(u)
    BY <1>5 DEF Running
  <2>3. CASE a = t
    BY <1>5, <1>6, <2>1, <2>2, <2>3 DEF Running
  <2>4. CASE b = t
    BY <1>5, <1>6, <2>1, <2>2, <2>4 DEF Running
  <2>5. CASE a # t /\ b # t
    <3>1. Running(a) /\ Running(b) /\ l \in txns[a].held /\ l \in txns[b].held
      BY <1>5, <2>1, <2>2, <2>5
    <3>2. QED
      BY <2>1, <3>1 DEF LockInvariant, LocksExclude
  <2>6. QED
    BY <2>3, <2>4, <2>5
<1>9. QED
  BY <1>2, <1>4, <1>7, <1>8 DEF LockInvariant

\* A transaction that begins has its whole plan before it.
LEMMA BeginKeeps ==
  ASSUME LockInvariant, [LockNext]_locking, UNCHANGED vars, NEW t \in Txn,
         NEW kind \in Kind, NEW p, Concerns(kind, p),
         txns' = [txns EXCEPT ![t] = Begun(kind, p, Plan(kind, p))]
  PROVE  LockInvariant'
<1>1. /\ Plan(kind, p) \in Seq(Lockable) /\ p \in Serial \cup Merchant \cup Marketer
  BY PlanType DEF LockInvariant, CouponInvariant, CouponTables
<1>2. PICK row \in TxnRow : row = Begun(kind, p, Plan(kind, p))
  BY <1>1 DEF TxnRow, Begun
<1>3. PICK s \in Seq(Lockable) : s = Plan(kind, p)
  BY <1>1
<1>4. row.kind = kind /\ row.payment = p /\ row.held = {} /\ row.todo = s
  BY <1>2, <1>3 DEF Begun
<1>5. Concerns(kind, p)' /\ Plan(kind, p)' = s
  <2>1. payments' = payments /\ coupons' = coupons
    BY DEF vars
  <2>2. QED
    BY <1>3, <2>1 DEF Plan, Concerns, Subject, Locks, PayLocks, RefundLocks, UnfreezeLocks, CouponLock
<1>6. OnPlan(row)'
  <2>1. 0 \in 0..Len(s) /\ Len(s) \in Nat
    OBVIOUS
  <2>2. /\ {} = {s[i] : i \in 1..0}
        /\ Len(s) = Len(s) - 0
        /\ \A i \in 1..Len(s) : s[i] = s[0 + i]
    BY <2>1
  <2>3. Follows(row, s)
    BY <1>4, <2>1, <2>2 DEF Follows
  <2>4. QED
    BY <1>4, <1>5, <2>3 DEF OnPlan
<1>7. txns' = [txns EXCEPT ![t] = row]
  BY <1>2
<1>8. Concerns(row.kind, row.payment)'
  BY <1>4, <1>5
<1>9. \A u \in Txn : u # t /\ Running(u) => \A l \in row.held : l \notin txns[u].held
  BY <1>4
<1>10. QED
  BY <1>6, <1>7, <1>8, <1>9, ConnectionMoves

\* A transaction takes the next lock of its plan, which nobody holds.
LEMMA LockKeeps ==
  ASSUME LockInvariant, [LockNext]_locking, NEW t \in Txn, Lock(t)
  PROVE  LockInvariant'
<1>1. PICK old \in TxnRow : old = txns[t]
  BY RunningRow DEF Lock
<1>2. /\ Running(t) /\ old.todo # << >> /\ UNCHANGED vars
      /\ txns' = [txns EXCEPT ![t].held = @ \cup {Head(old.todo)}, ![t].todo = Tail(@)]
      /\ Concerns(old.kind, old.payment) /\ OnPlan(old)
  BY <1>1, RunningRow DEF Lock, NextLock
<1>3. PICK l \in Lockable : l = Head(old.todo) /\ l = old.todo[1]
  BY <1>2 DEF TxnRow
<1>4. PICK row \in TxnRow :
        row = [kind |-> old.kind, payment |-> old.payment,
               held |-> old.held \cup {l}, todo |-> Tail(old.todo)]
  <2>1. Tail(old.todo) \in Seq(Lockable)
    BY <1>2 DEF TxnRow
  <2>2. QED
    BY <2>1 DEF TxnRow
<1>5. txns' = [txns EXCEPT ![t] = row]
  <2>1. txns \in [Txn -> {NoTxn} \cup TxnRow]
    BY DEF LockInvariant
  <2>2. txns' = [txns EXCEPT ![t] = [old EXCEPT !.held = @ \cup {l}, !.todo = Tail(@)]]
    BY <1>1, <1>2, <1>3, <2>1
  <2>3. [old EXCEPT !.held = @ \cup {l}, !.todo = Tail(@)] = row
    <3> DEFINE mid == [old EXCEPT !.held = old.held \cup {l}]
               new == [mid EXCEPT !.todo = Tail(old.todo)]
    <3>1. /\ mid \in TxnRow /\ mid.held = old.held \cup {l}
          /\ mid.kind = old.kind /\ mid.payment = old.payment /\ mid.todo = old.todo
      <4>1. old.held \cup {l} \in SUBSET Lockable
        BY DEF TxnRow
      <4>2. QED
        BY <4>1 DEF TxnRow
    <3> HIDE DEF mid
    <3>2. /\ new \in TxnRow /\ new.held = mid.held
          /\ new.kind = mid.kind /\ new.payment = mid.payment /\ new.todo = Tail(old.todo)
      <4>1. Tail(old.todo) \in Seq(Lockable)
        BY <1>2 DEF TxnRow
      <4>2. QED
        BY <3>1, <4>1 DEF TxnRow
    <3>3. [old EXCEPT !.held = @ \cup {l}, !.todo = Tail(@)] = new
      BY DEF mid
    <3> HIDE DEF new
    <3>4. /\ row.held = old.held \cup {l} /\ row.kind = old.kind
          /\ row.payment = old.payment /\ row.todo = Tail(old.todo)
      BY <1>4
    <3>5. new = row
      <4>1. \A r \in TxnRow :
              r = [kind |-> r.kind, payment |-> r.payment, held |-> r.held, todo |-> r.todo]
        BY DEF TxnRow
      <4>2. /\ new = [kind |-> new.kind, payment |-> new.payment, held |-> new.held, todo |-> new.todo]
            /\ row = [kind |-> row.kind, payment |-> row.payment, held |-> row.held, todo |-> row.todo]
        BY <3>2, <4>1
      <4>3. QED
        BY <3>1, <3>2, <3>4, <4>2
    <3>6. QED
      BY <3>3, <3>5
  <2>4. QED
    BY <2>2, <2>3
<1>6. row.kind = old.kind /\ row.payment = old.payment
      /\ row.held = old.held \cup {l} /\ row.todo = Tail(old.todo)
  BY <1>4
<1>7. PICK s \in Seq(Lockable) : s = Plan(old.kind, old.payment)
  <2>1. old.kind \in Kind
    BY DEF TxnRow
  <2>2. QED
    BY <1>2, <2>1, PlanType DEF LockInvariant, CouponInvariant, CouponTables
<1>8. Concerns(row.kind, row.payment)' /\ Plan(row.kind, row.payment)' = s
  <2>1. payments' = payments /\ coupons' = coupons
    BY <1>2 DEF vars
  <2>2. QED
    BY <1>2, <1>6, <1>7, <2>1
       DEF Plan, Concerns, Subject, Locks, PayLocks, RefundLocks, UnfreezeLocks, CouponLock
<1>9. OnPlan(row)'
  <2>1. PICK k \in 0..Len(s) : /\ old.held = {s[i] : i \in 1..k}
                               /\ Len(old.todo) = Len(s) - k
                               /\ \A i \in 1..Len(old.todo) : old.todo[i] = s[k + i]
    BY <1>2, <1>7 DEF OnPlan, Follows
  <2>2. old.todo \in Seq(Lockable) /\ Len(old.todo) \in Nat \ {0} /\ Len(s) \in Nat
    BY <1>2 DEF TxnRow
  <2>3. k + 1 \in 0..Len(s) /\ l = s[k + 1]
    BY <1>3, <2>1, <2>2
  <2>4. row.held = {s[i] : i \in 1..(k + 1)}
    <3>1. \A i \in 1..(k + 1) : i \in 1..k \/ i = k + 1
      OBVIOUS
    <3>2. \A i \in 1..k : i \in 1..(k + 1)
      OBVIOUS
    <3>3. k + 1 \in 1..(k + 1)
      OBVIOUS
    <3>4. {s[i] : i \in 1..(k + 1)} = {s[i] : i \in 1..k} \cup {s[k + 1]}
      BY <3>1, <3>2, <3>3, Zenon
    <3>5. QED
      BY <1>6, <2>1, <2>3, <3>4
  <2>5. /\ Len(row.todo) = Len(s) - (k + 1)
        /\ \A i \in 1..Len(row.todo) : row.todo[i] = s[(k + 1) + i]
    <3>1. /\ Len(row.todo) = Len(old.todo) - 1
          /\ \A i \in 1..Len(row.todo) : row.todo[i] = old.todo[i + 1] /\ i + 1 \in 1..Len(old.todo)
      BY <1>6, <2>2
    <3>2. ASSUME NEW i \in 1..Len(row.todo)
          PROVE  row.todo[i] = s[(k + 1) + i]
      <4>1. i + 1 \in 1..Len(old.todo) /\ k + (i + 1) = (k + 1) + i
        BY <3>1
      <4>2. old.todo[i + 1] = s[k + (i + 1)]
        BY <2>1, <4>1
      <4>3. QED
        BY <3>1, <4>1, <4>2
    <3>3. QED
      BY <2>1, <3>1, <3>2
  <2>6. Follows(row, s)
    <3>1. PICK j \in 0..Len(s) : j = k + 1
      BY <2>3
    <3>2. /\ row.held = {s[i] : i \in 1..j}
          /\ Len(row.todo) = Len(s) - j
          /\ \A i \in 1..Len(row.todo) : row.todo[i] = s[j + i]
      BY <2>4, <2>5, <3>1
    <3>3. QED
      BY <3>2 DEF Follows
  <2>7. Plan(row.kind, row.payment)' = s
    BY <1>8
  <2>8. QED
    BY <2>6, <2>7 DEF OnPlan
<1>10. \A u \in Txn : u # t /\ Running(u) => \A k \in row.held : k \notin txns[u].held
  <2>1. SUFFICES ASSUME NEW u \in Txn, u # t, Running(u), NEW k \in row.held
                 PROVE  k \notin txns[u].held
    OBVIOUS
  <2>2. CASE k \in old.held
    BY <1>1, <1>2, <2>1, <2>2 DEF LockInvariant, LocksExclude
  <2>3. CASE k = l
    <3>1. ~WaitsFor(t, u)
      BY DEF Lock
    <3>2. NextLock(t) = l /\ txns[t].todo # << >>
      BY <1>1, <1>2, <1>3 DEF NextLock
    <3>3. QED
      BY <1>2, <2>1, <2>3, <3>1, <3>2 DEF WaitsFor
  <2>4. QED
    BY <1>6, <2>2, <2>3
<1>11. QED
  BY <1>5, <1>8, <1>9, <1>10, ConnectionMoves

LEMMA ReleaseKeeps ==
  ASSUME LockInvariant, [LockNext]_locking, NEW t \in Txn, Release(t)
  PROVE  LockInvariant'
<1>1. txns' = [txns EXCEPT ![t] = NoTxn] /\ NoTxn \notin TxnRow
  BY DEF Release, NoTxn, TxnRow
<1>2. PICK row \in {NoTxn} \cup TxnRow : row = NoTxn
  OBVIOUS
<1>3. QED
  BY <1>1, <1>2, ConnectionMoves

LEMMA NobodyMoves ==
  ASSUME LockInvariant, [LockNext]_locking, UNCHANGED txns
  PROVE  LockInvariant'
<1>1. CASE \E t \in Txn : TRUE
  <2>1. PICK t \in Txn : TRUE
    BY <1>1
  <2>2. txns \in [Txn -> {NoTxn} \cup TxnRow]
    BY DEF LockInvariant
  <2>3. PICK row \in {NoTxn} \cup TxnRow : row = txns[t]
    BY <2>2
  <2>4. txns' = [txns EXCEPT ![t] = row]
    BY <2>2, <2>3
  <2>5. ASSUME row \in TxnRow
        PROVE  /\ Concerns(row.kind, row.payment)' /\ OnPlan(row)'
               /\ \A u \in Txn : u # t /\ Running(u) => \A l \in row.held : l \notin txns[u].held
    <3>1. Running(t)
      BY <2>3, <2>5 DEF Running, TxnRow, Kind
    <3>2. Concerns(row.kind, row.payment) /\ OnPlan(row)
      BY <2>3, <3>1, RunningRow
    <3>3. [Next]_vars /\ CouponTables
      BY LockLedgerStep DEF LockInvariant, CouponInvariant
    <3>4. Concerns(row.kind, row.payment)' /\ OnPlan(row)'
      BY <2>5, <3>2, <3>3, OthersStay
    <3>5. QED
      BY <2>3, <3>1, <3>4 DEF LockInvariant, LocksExclude
  <2>6. QED
    BY <2>4, <2>5, ConnectionMoves
<1>2. CASE ~\E t \in Txn : TRUE
  <2>1. [Next]_vars
    BY LockLedgerStep
  <2>2. CouponInvariant' /\ RefundMatchesPayment'
    BY <2>1, NextCoupons, NextRefundMatches DEF LockInvariant, CouponInvariant, CouponTables
  <2>3. QED
    BY <1>2, <2>2 DEF LockInvariant, TxnsGoOn, LocksExclude
<1>3. QED
  BY <1>1, <1>2

LEMMA InitLocks == LockInit => LockInvariant
<1> SUFFICES ASSUME LockInit PROVE LockInvariant
  OBVIOUS
<1>1. CouponInvariant /\ RefundMatchesPayment
  <2>1. Init
    BY DEF LockInit
  <2>2. RefundMatchesPayment
    BY <2>1 DEF Init, RefundMatchesPayment, NoPayment
  <2>3. QED
    BY <2>1, <2>2, InitCoupons
<1>2. txns \in [Txn -> {NoTxn} \cup TxnRow] /\ \A t \in Txn : ~Running(t)
  BY DEF LockInit, Running, NoTxn
<1>3. QED
  BY <1>1, <1>2 DEF LockInvariant, TxnsGoOn, LocksExclude

LEMMA NextLocks == LockInvariant /\ [LockNext]_locking => LockInvariant'
<1> SUFFICES ASSUME LockInvariant, [LockNext]_locking
             PROVE  LockInvariant'
  OBVIOUS
<1>1. CASE UNCHANGED locking
  BY <1>1, NobodyMoves DEF locking
<1>2. CASE Order
  BY <1>2, NobodyMoves DEF Order
<1>3. ASSUME NEW t \in Txn, NEW kind \in Kind \ {"withdraw"}, NEW p \in Serial, Begin(t, kind, p)
      PROVE  LockInvariant'
  <2>1. Called(kind, p)
    BY <1>3 DEF Begin
  <2>2. TypeOK /\ RefundMatchesPayment
    BY DEF LockInvariant, CouponInvariant, CouponTables
  <2>3. kind \in {"refund", "fail"} => payments[p].status # "NONE"
    BY <2>1, <2>2 DEF Called, TypeOK, RefundStatus, RefundMatchesPayment
  <2>4. Subject(kind, p)
    BY <2>1, <2>3 DEF Subject, Called, Kind
  <2>5. Concerns(kind, p) /\ Plan(kind, p) = Locks(kind, p)
    BY <2>4 DEF Concerns, Plan
  <2>6. txns' = [txns EXCEPT ![t] = Begun(kind, p, Plan(kind, p))] /\ UNCHANGED vars
    BY <1>3, <2>5 DEF Begin
  <2>7. QED
    BY <2>5, <2>6, BeginKeeps
<1>4. ASSUME NEW t \in Txn, NEW a \in Merchant \cup Marketer, BeginWithdraw(t, a)
      PROVE  LockInvariant'
  <2>1. /\ txns' = [txns EXCEPT ![t] = Begun("withdraw", a, Plan("withdraw", a))]
        /\ UNCHANGED vars /\ Concerns("withdraw", a) /\ "withdraw" \in Kind
    BY <1>4 DEF BeginWithdraw, Plan, Concerns, Kind
  <2>2. QED
    BY <2>1, BeginKeeps
<1>5. ASSUME NEW t \in Txn, Commit(t) \/ RollBack(t) \/ Victim(t)
      PROVE  LockInvariant'
  BY <1>5, ReleaseKeeps DEF Commit, RollBack, Victim
<1>6. ASSUME NEW t \in Txn, TxnStep(t)
      PROVE  LockInvariant'
  BY <1>3, <1>4, <1>5, <1>6, LockKeeps DEF TxnStep
<1>7. QED
  BY <1>1, <1>2, <1>6 DEF LockNext

-----------------------------------------------------------------------------
(* What is written is locked                                               *)

\* Money added to purses of some accounts is added to no other account.
LEMMA AddElsewhere ==
  \A f, ch, a, d : DOMAIN f = Purse =>
    /\ DOMAIN Add(f, <<a, ch>>, d) = Purse
    /\ \A b \in Account, c \in Channel : b \notin {a} =>
         Add(f, <<a, ch>>, d)[<<b, c>>] = f[<<b, c>>]
<1>1. \A b \in Account, c \in Channel : <<b, c>> \in Purse
  BY DEF Purse
<1>2. QED
  BY <1>1 DEF Add

LEMMA TwoAddsElsewhere ==
  \A f, ch, a1, d1, a2, d2 : DOMAIN f = Purse =>
    /\ DOMAIN Add(Add(f, <<a1, ch>>, d1), <<a2, ch>>, d2) = Purse
    /\ \A b \in Account, c \in Channel : b \notin {a1, a2} =>
         Add(Add(f, <<a1, ch>>, d1), <<a2, ch>>, d2)[<<b, c>>] = f[<<b, c>>]
<1> SUFFICES ASSUME NEW f, NEW ch, NEW a1, NEW d1, NEW a2, NEW d2, DOMAIN f = Purse
             PROVE  /\ DOMAIN Add(Add(f, <<a1, ch>>, d1), <<a2, ch>>, d2) = Purse
                    /\ \A b \in Account, c \in Channel : b \notin {a1, a2} =>
                         Add(Add(f, <<a1, ch>>, d1), <<a2, ch>>, d2)[<<b, c>>] = f[<<b, c>>]
  OBVIOUS
<1> DEFINE g == Add(f, <<a1, ch>>, d1)
<1>1. /\ DOMAIN g = Purse
      /\ \A b \in Account, c \in Channel : b \notin {a1} => g[<<b, c>>] = f[<<b, c>>]
  BY AddElsewhere
<1> HIDE DEF g
<1>2. /\ DOMAIN Add(g, <<a2, ch>>, d2) = Purse
      /\ \A b \in Account, c \in Channel : b \notin {a2} =>
           Add(g, <<a2, ch>>, d2)[<<b, c>>] = g[<<b, c>>]
  BY <1>1, AddElsewhere
<1>3. QED
  BY <1>1, <1>2 DEF g

LEMMA ThreeAddsElsewhere ==
  \A f, ch, a1, d1, a2, d2, a3, d3 : DOMAIN f = Purse =>
    \A b \in Account, c \in Channel : b \notin {a1, a2, a3} =>
      Add(Add(Add(f, <<a1, ch>>, d1), <<a2, ch>>, d2), <<a3, ch>>, d3)[<<b, c>>] = f[<<b, c>>]
<1> SUFFICES ASSUME NEW f, NEW ch, NEW a1, NEW d1, NEW a2, NEW d2, NEW a3, NEW d3,
                    DOMAIN f = Purse
             PROVE  \A b \in Account, c \in Channel : b \notin {a1, a2, a3} =>
                      Add(Add(Add(f, <<a1, ch>>, d1), <<a2, ch>>, d2), <<a3, ch>>, d3)[<<b, c>>]
                        = f[<<b, c>>]
  OBVIOUS
<1> DEFINE g == Add(Add(f, <<a1, ch>>, d1), <<a2, ch>>, d2)
<1>1. /\ DOMAIN g = Purse
      /\ \A b \in Account, c \in Channel : b \notin {a1, a2} => g[<<b, c>>] = f[<<b, c>>]
  BY TwoAddsElsewhere
<1> HIDE DEF g
<1>2. /\ DOMAIN Add(g, <<a3, ch>>, d3) = Purse
      /\ \A b \in Account, c \in Channel : b \notin {a3} =>
           Add(g, <<a3, ch>>, d3)[<<b, c>>] = g[<<b, c>>]
  BY <1>1, AddElsewhere
<1>3. QED
  BY <1>1, <1>2 DEF g

\* Only these rows changed.
ChangedOnly(A, P, R, C) ==
  /\ \A b \in Account, ch \in Channel : b \notin A =>
       /\ balance'[<<b, ch>>] = balance[<<b, ch>>]
       /\ withdrawable'[<<b, ch>>] = withdrawable[<<b, ch>>]
  /\ \A q \in Serial \ P : payments[q].status # "NONE" => payments'[q] = payments[q]
  /\ \A q \in Serial \ R : refunds[q] # "NONE" => refunds'[q] = refunds[q]
  /\ \A c \in CouponId \ C : coupons[c].status # "NONE" => coupons'[c] = coupons[c]

LEMMA ChangedAmong ==
  ASSUME NEW A, NEW P, NEW R, NEW C, ChangedOnly(A, P, R, C), NEW l \in Changed
  PROVE  \/ \E a \in A : l = TheAccount(a)
         \/ \E q \in P : l = ThePayment(q)
         \/ \E q \in R : l = TheRefund(q)
         \/ \E c \in C : l = TheCoupon(c)
<1>1. CASE l \in {TheAccount(a) : a \in {b \in Account : \E ch \in Channel :
             \/ balance'[<<b, ch>>] # balance[<<b, ch>>]
             \/ withdrawable'[<<b, ch>>] # withdrawable[<<b, ch>>]}}
  <2>1. PICK b \in Account : /\ l = TheAccount(b)
                             /\ \E ch \in Channel : \/ balance'[<<b, ch>>] # balance[<<b, ch>>]
                                                   \/ withdrawable'[<<b, ch>>] # withdrawable[<<b, ch>>]
    BY <1>1
  <2>2. b \in A
    BY <2>1 DEF ChangedOnly
  <2>3. QED
    BY <2>1, <2>2
<1>2. CASE l \in {ThePayment(q) : q \in {r \in Serial :
             payments[r].status # "NONE" /\ payments'[r] # payments[r]}}
  BY <1>2 DEF ChangedOnly
<1>3. CASE l \in {TheRefund(q) : q \in {r \in Serial :
             refunds[r] # "NONE" /\ refunds'[r] # refunds[r]}}
  BY <1>3 DEF ChangedOnly
<1>4. CASE l \in {TheCoupon(c) : c \in {d \in CouponId :
             coupons[d].status # "NONE" /\ coupons'[d] # coupons[d]}}
  BY <1>4 DEF ChangedOnly
<1>5. QED
  BY <1>1, <1>2, <1>3, <1>4 DEF Changed

\* The coupon of a payment that came to nothing; its successor is a new row.
LEMMA ReplaceChanges ==
  ASSUME TypeOK, NEW p \in Serial, ReplaceCoupon(payments[p])
  PROVE  \A c \in CouponId : coupons[c].status # "NONE" /\ coupons'[c] # coupons[c] =>
           HasCoupon(payments[p]) /\ c = payments[p].coupon
<1>1. CASE HasCoupon(payments[p])
  <2>1. payments[p].coupon \in CouponId /\ coupons \in [CouponId -> Coupon]
    BY <1>1, CouponType DEF TypeOK
  <2>2. PICK d \in CouponId : /\ coupons[d].status = "NONE"
                              /\ coupons' = [coupons EXCEPT
                                    ![payments[p].coupon].status = "DESTROYED",
                                    ![d] = [coupons[payments[p].coupon] EXCEPT !.status = "NOT_USED"]]
    BY <1>1 DEF ReplaceCoupon, Fresh
  <2>3. QED
    BY <1>1, <2>1, <2>2
<1>2. CASE ~HasCoupon(payments[p])
  BY <1>2 DEF ReplaceCoupon
<1>3. QED
  BY <1>1, <1>2

\* What a transaction on a payment changes when it commits
LEMMA PaymentCommitChanges ==
  ASSUME TypeOK, NEW p \in Serial, NEW kind \in Kind \ {"withdraw"},
         CASE kind = "pay" -> OnPaymentSuccess(p)
           [] kind = "refund" -> OnRefundSuccess(p)
           [] kind = "fail" -> OnRefundFail(p)
           [] kind = "request" -> RequestRefund(p)
           [] kind = "cancel" -> CancelOrder(p)
           [] kind = "unfreeze" -> OnPaymentUnfreeze(p)
  PROVE  Changed \subseteq Writes(kind, p)
<1> DEFINE x == payments[p]
           ch == x.pay_channel
           o == coupons[x.coupon].originator
           v == Inviter[x.merchant]
           C == IF HasCoupon(x) THEN {x.coupon} ELSE {}
<1>1. /\ payments \in [Serial -> Payment] /\ refunds \in [Serial -> RefundStatus]
      /\ coupons \in [CouponId -> Coupon]
  BY DEF TypeOK
<1>0. DOMAIN balance = Purse /\ DOMAIN withdrawable = Purse
  BY DEF TypeOK
<1>2. \A s : payments' = [payments EXCEPT ![p].status = s] =>
        \A q \in Serial \ {p} : payments'[q] = payments[q]
  BY <1>1
<1>3. ReplaceCoupon(x) => \A c \in CouponId \ C : coupons[c].status # "NONE" => coupons'[c] = coupons[c]
  BY ReplaceChanges
<1>4. \A A, P, R, D : ChangedOnly(A, P, R, D) => \A l \in Changed :
         \/ \E a \in A : l = TheAccount(a)
         \/ \E q \in P : l = ThePayment(q)
         \/ \E q \in R : l = TheRefund(q)
         \/ \E c \in D : l = TheCoupon(c)
  BY ChangedAmong
<1>5. CASE kind = "pay"
  <2>1. OnPaymentSuccess(p)
    BY <1>5
  <2>2. \A b \in Account, c \in Channel : b \notin {Platform, x.merchant} => balance'[<<b, c>>] = balance[<<b, c>>]
    <3>1. balance' = Add(Add(balance, <<Platform, ch>>, TotalShare(x)), <<x.merchant, ch>>, MerchantPart(x))
      BY <2>1 DEF OnPaymentSuccess
    <3>2. PICK e, m, d1, d2 : e = ch /\ m = x.merchant /\ d1 = TotalShare(x) /\ d2 = MerchantPart(x)
      OBVIOUS
    <3>3. balance' = Add(Add(balance, <<Platform, e>>, d1), <<m, e>>, d2)
      BY <3>1, <3>2
    <3>4. \A b \in Account, c \in Channel : b \notin {Platform, m} => balance'[<<b, c>>] = balance[<<b, c>>]
      BY <1>0, <3>3, TwoAddsElsewhere
    <3>5. QED
      BY <3>2, <3>4
  <2>3. ChangedOnly({Platform, x.merchant}, {p}, {}, {})
    BY <1>2, <2>1, <2>2 DEF ChangedOnly, OnPaymentSuccess
  <2>4. QED
    BY <1>4, <1>5, <2>3 DEF Writes
<1>6. CASE kind = "refund"
  <2>1. OnRefundSuccess(p)
    BY <1>6
  <2>2. \A b \in Account, c \in Channel : b \notin {Platform, x.merchant} => balance'[<<b, c>>] = balance[<<b, c>>]
    <3>1. balance' = Add(Add(balance, <<x.merchant, ch>>, -MerchantPart(x)), <<Platform, ch>>, -TotalShare(x))
      BY <2>1 DEF OnRefundSuccess
    <3>2. PICK e, m, d1, d2 : e = ch /\ m = x.merchant /\ d1 = -TotalShare(x) /\ d2 = -MerchantPart(x)
      OBVIOUS
    <3>3. balance' = Add(Add(balance, <<m, e>>, d2), <<Platform, e>>, d1)
      BY <3>1, <3>2
    <3>4. \A b \in Account, c \in Channel : b \notin {Platform, m} => balance'[<<b, c>>] = balance[<<b, c>>]
      BY <1>0, <3>3, TwoAddsElsewhere
    <3>5. QED
      BY <3>2, <3>4
  <2>3. \A q \in Serial \ {p} : refunds'[q] = refunds[q]
    BY <1>1, <2>1 DEF OnRefundSuccess
  <2>4. ChangedOnly({Platform, x.merchant}, {p}, {p}, C)
    BY <1>2, <1>3, <2>1, <2>2, <2>3 DEF ChangedOnly, OnRefundSuccess
  <2>5. QED
    BY <1>4, <1>6, <2>4 DEF Writes, CouponOf
<1>7. CASE kind \in {"fail", "request"}
  <2>1. OnRefundFail(p) \/ RequestRefund(p)
    BY <1>7
  <2>2. \A q \in Serial \ {p} : refunds'[q] = refunds[q]
    BY <1>1, <2>1 DEF OnRefundFail, RequestRefund
  <2>3. ChangedOnly({}, {p}, {p}, {})
    BY <1>2, <2>1, <2>2 DEF ChangedOnly, OnRefundFail, RequestRefund
  <2>4. QED
    BY <1>4, <1>7, <2>3 DEF Writes
<1>8. CASE kind = "cancel"
  <2>1. CancelOrder(p)
    BY <1>8
  <2>2. ChangedOnly({}, {p}, {}, C)
    BY <1>2, <1>3, <2>1 DEF ChangedOnly, CancelOrder
  <2>3. QED
    BY <1>4, <1>8, <2>2 DEF Writes, CouponOf
<1>9. CASE kind = "unfreeze" /\ HasCoupon(x)
  <2>1. UnfreezeShared(p)
    BY <1>9 DEF OnPaymentUnfreeze, UnfreezePlain
  <2>2. \A b \in Account, c \in Channel : b \notin {Platform, o, v} => balance'[<<b, c>>] = balance[<<b, c>>]
    <3>1. balance' = Add(Add(Add(balance, <<Platform, ch>>, -(x.originator_share + x.inviter_share)),
                                 <<o, ch>>, x.originator_share), <<v, ch>>, x.inviter_share)
      BY <2>1 DEF UnfreezeShared
    <3>2. PICK e, a2, a3, d1, d2, d3 :
            /\ e = ch /\ a2 = o /\ a3 = v /\ d1 = -(x.originator_share + x.inviter_share)
            /\ d2 = x.originator_share /\ d3 = x.inviter_share
      OBVIOUS
    <3>3. balance' = Add(Add(Add(balance, <<Platform, e>>, d1), <<a2, e>>, d2), <<a3, e>>, d3)
      BY <3>1, <3>2
    <3>4. \A b \in Account, c \in Channel : b \notin {Platform, a2, a3} =>
            balance'[<<b, c>>] = balance[<<b, c>>]
      BY <1>0, <3>3, ThreeAddsElsewhere
    <3>5. QED
      BY <3>2, <3>4
  <2>3. \A b \in Account, c \in Channel : b \notin {o, v, x.merchant} =>
          withdrawable'[<<b, c>>] = withdrawable[<<b, c>>]
    <3>1. withdrawable' = Add(Add(Add(withdrawable, <<o, ch>>, x.originator_share),
                                      <<v, ch>>, x.inviter_share), <<x.merchant, ch>>, MerchantPart(x))
      BY <2>1 DEF UnfreezeShared
    <3>2. PICK e, a1, a2, a3, d1, d2, d3 :
            /\ e = ch /\ a1 = o /\ a2 = v /\ a3 = x.merchant
            /\ d1 = x.originator_share /\ d2 = x.inviter_share /\ d3 = MerchantPart(x)
      OBVIOUS
    <3>3. withdrawable' = Add(Add(Add(withdrawable, <<a1, e>>, d1), <<a2, e>>, d2), <<a3, e>>, d3)
      BY <3>1, <3>2
    <3>4. \A b \in Account, c \in Channel : b \notin {a1, a2, a3} =>
            withdrawable'[<<b, c>>] = withdrawable[<<b, c>>]
      BY <1>0, <3>3, ThreeAddsElsewhere
    <3>5. QED
      BY <3>2, <3>4
  <2>4. ChangedOnly({Platform, x.merchant, o, v}, {p}, {}, {})
    BY <1>2, <2>1, <2>2, <2>3 DEF ChangedOnly, UnfreezeShared
  <2>5. QED
    BY <1>4, <1>9, <2>4 DEF Writes, Owners
<1>10. CASE kind = "unfreeze" /\ ~HasCoupon(x)
  <2>1. UnfreezePlain(p)
    BY <1>10 DEF OnPaymentUnfreeze, UnfreezeShared
  <2>2. \A b \in Account, c \in Channel : b \notin {x.merchant} =>
          withdrawable'[<<b, c>>] = withdrawable[<<b, c>>]
    <3>1. withdrawable' = Add(withdrawable, <<x.merchant, ch>>, x.order_price)
      BY <2>1 DEF UnfreezePlain
    <3>2. PICK e, m, n : e = ch /\ m = x.merchant /\ n = x.order_price
      OBVIOUS
    <3>3. withdrawable' = Add(withdrawable, <<m, e>>, n)
      BY <3>1, <3>2
    <3>4. \A b \in Account, c \in Channel : b \notin {m} =>
            withdrawable'[<<b, c>>] = withdrawable[<<b, c>>]
      BY <1>0, <3>3, AddElsewhere
    <3>5. QED
      BY <3>2, <3>4
  <2>3. ChangedOnly({x.merchant}, {p}, {}, {})
    BY <1>2, <2>1, <2>2 DEF ChangedOnly, UnfreezePlain
  <2>4. QED
    BY <1>4, <1>10, <2>3 DEF Writes
<1>11. QED
  BY <1>5, <1>6, <1>7, <1>8, <1>9, <1>10 DEF Kind

\* All that a complete transaction planned it holds.
LEMMA CompleteHolds ==
  ASSUME LockInvariant, NEW t \in Txn, Complete(t)
  PROVE  LET s == Plan(txns[t].kind, txns[t].payment)
         IN  \A i \in 1..Len(s) : s[i] \in txns[t].held
<1>1. PICK row \in TxnRow : row = txns[t]
  BY RunningRow DEF Complete
<1>2. row.todo = << >> /\ Concerns(row.kind, row.payment) /\ OnPlan(row)
  BY <1>1, RunningRow DEF Complete
<1>3. PICK s \in Seq(Lockable) : s = Plan(row.kind, row.payment)
  <2>1. row.kind \in Kind
    BY DEF TxnRow
  <2>2. QED
    BY <1>2, <2>1, PlanType DEF LockInvariant, CouponInvariant, CouponTables
<1>4. PICK k \in 0..Len(s) : row.held = {s[i] : i \in 1..k} /\ Len(row.todo) = Len(s) - k
  BY <1>2, <1>3 DEF OnPlan, Follows
<1>5. k = Len(s)
  BY <1>2, <1>4
<1>6. QED
  BY <1>1, <1>3, <1>4, <1>5

\* What a payout from an account changes when it commits
LEMMA WithdrawChanges ==
  ASSUME TypeOK, NEW a \in Account, NEW ch \in Channel, NEW n, Withdraw(a, ch, n)
  PROVE  Changed \subseteq {TheAccount(a)}
<1>1. DOMAIN balance = Purse /\ DOMAIN withdrawable = Purse
  BY DEF TypeOK
<1>2. balance' = Add(balance, <<a, ch>>, -n) /\ withdrawable' = Add(withdrawable, <<a, ch>>, -n)
  BY DEF Withdraw, PayOut, TakeOut
<1>3. \A b \in Account, c \in Channel : b \notin {a} => balance'[<<b, c>>] = balance[<<b, c>>]
  BY <1>1, <1>2, AddElsewhere
<1>4. \A b \in Account, c \in Channel : b \notin {a} => withdrawable'[<<b, c>>] = withdrawable[<<b, c>>]
  BY <1>1, <1>2, AddElsewhere
<1>5. ChangedOnly({a}, {}, {}, {})
  BY <1>3, <1>4 DEF ChangedOnly, Withdraw
<1>6. QED
  BY <1>5, ChangedAmong

\* The step of WritesAreLocked
LEMMA CommitLocked ==
  ASSUME LockInvariant, NEW t \in Txn, Commit(t)
  PROVE  Changed \subseteq txns[t].held \ HeldByOthers(t)
<1>1. PICK kind \in Kind, p \in Serial \cup Merchant \cup Marketer :
        kind = txns[t].kind /\ p = txns[t].payment
  BY RunningRow DEF Commit, Complete, TxnRow
<1>2. /\ Complete(t) /\ Running(t) /\ Concerns(kind, p) /\ TypeOK
  BY <1>1, RunningRow DEF Commit, Complete, LockInvariant, CouponInvariant, CouponTables
<1>3. \A l \in Changed : \E i \in 1..Len(Plan(kind, p)) : Plan(kind, p)[i] = l
  <2>1. CASE kind = "withdraw"
    <3>1. PICK ch \in Channel, n \in Amount : Withdraw(p, ch, n)
      BY <1>1, <2>1 DEF Commit
    <3>2. p \in Account
      BY <1>2, <2>1 DEF Concerns, Account
    <3>3. Changed \subseteq {TheAccount(p)}
      BY <1>2, <3>1, <3>2, WithdrawChanges
    <3>4. Plan(kind, p) = <<TheAccount(p)>> /\ Len(<<TheAccount(p)>>) = 1
      BY <2>1 DEF Plan
    <3>5. QED
      BY <3>3, <3>4
  <2>2. CASE kind # "withdraw"
    <3>1. kind \in Kind \ {"withdraw"} /\ Subject(kind, p) /\ p \in Serial
      BY <1>2, <2>2 DEF Concerns, Subject
    <3>2. (CASE kind = "pay" -> OnPaymentSuccess(p)
             [] kind = "refund" -> OnRefundSuccess(p)
             [] kind = "fail" -> OnRefundFail(p)
             [] kind = "request" -> RequestRefund(p)
             [] kind = "cancel" -> CancelOrder(p)
             [] kind = "unfreeze" -> OnPaymentUnfreeze(p))
      BY <1>1, <3>1 DEF Commit, Kind
    <3>3. Changed \subseteq Writes(kind, p)
      BY <1>2, <3>1, <3>2, PaymentCommitChanges
    <3>4. \A l \in Writes(kind, p) : \E i \in 1..Len(Locks(kind, p)) : Locks(kind, p)[i] = l
      <4>1. CASE kind = "unfreeze" /\ HasCoupon(payments[p])
        BY <1>2, <3>1, <4>1, SharedPlan
      <4>2. CASE ~(kind = "unfreeze" /\ HasCoupon(payments[p]))
        BY <1>2, <3>1, <4>2, PlainPlan
      <4>3. QED
        BY <4>1, <4>2
    <3>5. QED
      BY <2>2, <3>3, <3>4 DEF Plan
  <2>3. QED
    BY <2>1, <2>2
<1>4. \A i \in 1..Len(Plan(kind, p)) : Plan(kind, p)[i] \in txns[t].held
  BY <1>1, <1>2, CompleteHolds
<1>5. \A l \in txns[t].held : l \notin HeldByOthers(t)
  BY <1>2 DEF LockInvariant, LocksExclude, HeldByOthers
<1>6. QED
  BY <1>3, <1>4, <1>5

\* The invariant of the locks: each transaction holds the first locks of the
\* plan that its code gives it, no row is locked twice, and the ledger is in
\* a state that its own steps reach.
THEOREM LocksCorrect == LockSpec => []LockInvariant
<1>1. LockInit => LockInvariant
  BY InitLocks
<1>2. LockInvariant /\ [LockNext]_locking => LockInvariant'
  BY NextLocks
<1>3. QED
  BY <1>1, <1>2, PTL DEF LockSpec

\* Every account, payment, refund and coupon that a transaction writes when it
\* commits it has locked, it alone, from before it read it; with this a
\* transaction of the ledger may be taken as one step.
THEOREM WritesLockedCorrect == LockSpec => WritesAreLocked
<1>1. LockInvariant /\ [LockNext]_locking =>
        [\A t \in Txn : Commit(t) => Changed \subseteq txns[t].held \ HeldByOthers(t)]_locking
  BY CommitLocked
<1>2. QED
  BY <1>1, LocksCorrect, PTL DEF LockSpec, WritesAreLocked

-----------------------------------------------------------------------------
(* Who may wait for each other                                             *)

\* t releases a payment with a coupon.
Shared(t) == txns[t].kind = "unfreeze" /\ HasCoupon(payments[txns[t].payment])

LEMMA RankBound ==
  ASSUME NEW l \in Lockable
  PROVE  Rank(l) \in Nat /\ Rank(l) <= MaxId + 3
<1>1. CASE \E a \in Account : l = TheAccount(a)
  <2>1. PICK a \in Account : l = TheAccount(a)
    BY <1>1
  <2>2. Rank(l) = Id[a] /\ Id[a] \in 1..MaxId
    BY <2>1, RankOf
  <2>3. QED
    BY <2>2
<1>2. CASE \E p : l = ThePayment(p) \/ l = TheRefund(p) \/ l = TheCoupon(p)
  <2>1. Rank(l) \in {MaxId + 1, MaxId + 2, MaxId + 3}
    BY <1>2, RankOf
  <2>2. QED
    BY <2>1
<1>3. QED
  BY <1>1, <1>2 DEF Lockable

\* Where a transaction that has not all its locks stands in its plan
LEMMA Progress ==
  ASSUME LockInvariant, NEW t \in Txn, Running(t), txns[t].todo # << >>
  PROVE  \E s \in Seq(Lockable) : \E k \in 0..(Len(s) - 1) :
           /\ s = Plan(txns[t].kind, txns[t].payment)
           /\ txns[t].held = {s[i] : i \in 1..k}
           /\ k + 1 \in 1..Len(s) /\ NextLock(t) = s[k + 1] /\ NextLock(t) \in Lockable
<1>1. PICK row \in TxnRow : row = txns[t]
  BY RunningRow
<1>2. row.todo # << >> /\ Concerns(row.kind, row.payment) /\ OnPlan(row)
  BY <1>1, RunningRow
<1>3. PICK s \in Seq(Lockable) : s = Plan(row.kind, row.payment)
  <2>1. row.kind \in Kind
    BY DEF TxnRow
  <2>2. QED
    BY <1>2, <2>1, PlanType DEF LockInvariant, CouponInvariant, CouponTables
<1>4. PICK k \in 0..Len(s) : /\ row.held = {s[i] : i \in 1..k}
                             /\ Len(row.todo) = Len(s) - k
                             /\ \A i \in 1..Len(row.todo) : row.todo[i] = s[k + i]
  BY <1>2, <1>3 DEF OnPlan, Follows
<1>5. row.todo \in Seq(Lockable) /\ Len(row.todo) \in Nat /\ Len(row.todo) # 0
  BY <1>2 DEF TxnRow
<1>6. k \in 0..(Len(s) - 1) /\ k + 1 \in 1..Len(s) /\ 1 \in 1..Len(row.todo)
  BY <1>4, <1>5
<1>7. Head(row.todo) = s[k + 1] /\ s[k + 1] \in Lockable
  BY <1>4, <1>5, <1>6
<1>8. QED
  BY <1>1, <1>3, <1>4, <1>6, <1>7 DEF NextLock

\* The plan of a transaction on a payment
LEMMA PlanOfPayment ==
  ASSUME LockInvariant, NEW t \in Txn, Running(t), txns[t].kind # "withdraw"
  PROVE  /\ txns[t].kind \in Kind \ {"withdraw"} /\ txns[t].payment \in Serial
         /\ Subject(txns[t].kind, txns[t].payment)
         /\ Plan(txns[t].kind, txns[t].payment) = Locks(txns[t].kind, txns[t].payment)
         /\ TypeOK
<1>1. txns[t].kind \in Kind /\ Concerns(txns[t].kind, txns[t].payment)
  BY RunningRow DEF TxnRow
<1>2. QED
  BY <1>1 DEF Concerns, Subject, Plan, LockInvariant, CouponInvariant, CouponTables

\* What a transaction holds ranks below the lock it waits for, unless it
\* releases a payment with a coupon.
LEMMA PlainWaits ==
  ASSUME LockInvariant, NEW t \in Txn, Running(t), txns[t].todo # << >>, ~Shared(t)
  PROVE  \A l \in txns[t].held : Rank(l) < Rank(NextLock(t))
<1>1. PICK s \in Seq(Lockable) : \E k \in 0..(Len(s) - 1) :
           /\ s = Plan(txns[t].kind, txns[t].payment)
           /\ txns[t].held = {s[i] : i \in 1..k}
           /\ k + 1 \in 1..Len(s) /\ NextLock(t) = s[k + 1] /\ NextLock(t) \in Lockable
  BY Progress
<1>2. PICK k \in 0..(Len(s) - 1) :
           /\ s = Plan(txns[t].kind, txns[t].payment)
           /\ txns[t].held = {s[i] : i \in 1..k}
           /\ k + 1 \in 1..Len(s) /\ NextLock(t) = s[k + 1]
  BY <1>1
<1>3. Rises(s)
  <2>1. CASE txns[t].kind = "withdraw"
    <3>1. s = <<TheAccount(txns[t].payment)>>
      BY <1>2, <2>1 DEF Plan
    <3>2. Len(s) = 1
      BY <3>1
    <3>3. QED
      BY <3>2 DEF Rises
  <2>2. CASE txns[t].kind # "withdraw"
    <3>1. PICK kind \in Kind \ {"withdraw"}, p \in Serial : kind = txns[t].kind /\ p = txns[t].payment
      BY <2>2, PlanOfPayment
    <3>2. TypeOK /\ s = Locks(kind, p) /\ ~(kind = "unfreeze" /\ HasCoupon(payments[p]))
      BY <1>2, <2>2, <3>1, PlanOfPayment DEF Shared
    <3>3. QED
      BY <3>2, PlainPlan
  <2>3. QED
    BY <2>1, <2>2
<1>4. \A i \in 1..k : i \in 1..Len(s) /\ i < k + 1
  BY <1>2
<1>5. QED
  BY <1>2, <1>3, <1>4 DEF Rises

\* What a transaction that releases a payment with a coupon holds: the payment
\* first, and when it has accounts it waits for another one, of higher key.
LEMMA SharedWaits ==
  ASSUME LockInvariant, NEW t \in Txn, Running(t), txns[t].todo # << >>, Shared(t),
         NEW p, p = txns[t].payment
  PROVE  /\ p \in Serial
         /\ txns[t].held # {} => ThePayment(p) \in txns[t].held
         /\ \A l \in txns[t].held :
              \/ l = ThePayment(p)
              \/ l = TheCoupon(payments[p].coupon)
              \/ Rank(l) < Rank(NextLock(t))
<1>1. PICK s \in Seq(Lockable) : \E k \in 0..(Len(s) - 1) :
           /\ s = Plan(txns[t].kind, txns[t].payment)
           /\ txns[t].held = {s[i] : i \in 1..k}
           /\ k + 1 \in 1..Len(s) /\ NextLock(t) = s[k + 1] /\ NextLock(t) \in Lockable
  BY Progress
<1>2. PICK k \in 0..(Len(s) - 1) :
           /\ s = Plan(txns[t].kind, txns[t].payment)
           /\ txns[t].held = {s[i] : i \in 1..k}
           /\ k + 1 \in 1..Len(s) /\ NextLock(t) = s[k + 1]
  BY <1>1
<1>3. /\ p \in Serial /\ TypeOK /\ HasCoupon(payments[p]) /\ Subject("unfreeze", p)
      /\ s = Locks("unfreeze", p)
  BY <1>2, PlanOfPayment DEF Shared
<1>4. /\ s[1] = ThePayment(p) /\ s[2] = TheCoupon(payments[p].coupon)
      /\ \A i, j \in 3..Len(s) : i < j => Rank(s[i]) < Rank(s[j])
  BY <1>3, SharedPlan
<1>5. \A i \in 1..k : i = 1 \/ i = 2 \/ (i \in 3..Len(s) /\ k + 1 \in 3..Len(s) /\ i < k + 1)
  BY <1>2
<1>6. txns[t].held # {} => 1 \in 1..k
  BY <1>2
<1>7. QED
  BY <1>2, <1>3, <1>4, <1>5, <1>6

\* Who waits, with a lock in hand, for a payment with a coupon or its coupon
LEMMA WaitsForPayment ==
  ASSUME LockInvariant, NEW t \in Txn, Running(t), txns[t].todo # << >>, txns[t].held # {},
         NEW p \in Serial, HasCoupon(payments[p]),
         \/ NextLock(t) = ThePayment(p)
         \/ NextLock(t) = TheCoupon(payments[p].coupon)
  PROVE  /\ txns[t].payment = p
         /\ \/ txns[t].kind \in {"pay", "refund", "cancel"}
            \/ ThePayment(p) \in txns[t].held
<1>1. PICK s \in Seq(Lockable) : \E k \in 0..(Len(s) - 1) :
           /\ s = Plan(txns[t].kind, txns[t].payment)
           /\ txns[t].held = {s[i] : i \in 1..k}
           /\ k + 1 \in 1..Len(s) /\ NextLock(t) = s[k + 1] /\ NextLock(t) \in Lockable
  BY Progress
<1>2. PICK k \in 0..(Len(s) - 1) :
           /\ s = Plan(txns[t].kind, txns[t].payment)
           /\ txns[t].held = {s[i] : i \in 1..k}
           /\ k + 1 \in 1..Len(s) /\ NextLock(t) = s[k + 1]
  BY <1>1
<1>3. txns[t].kind # "withdraw"
  <2>1. SUFFICES ASSUME txns[t].kind = "withdraw" PROVE FALSE
    OBVIOUS
  <2>2. s = <<TheAccount(txns[t].payment)>>
    BY <1>2, <2>1 DEF Plan
  <2>3. s[k + 1] = TheAccount(txns[t].payment)
    <3>1. Len(s) = 1 /\ s[1] = TheAccount(txns[t].payment)
      BY <2>2
    <3>2. k + 1 = 1
      BY <1>2, <3>1
    <3>3. QED
      BY <3>1, <3>2
  <2>4. QED
    BY <1>2, <2>3, LocksDiffer
<1>4. PICK kind \in Kind \ {"withdraw"}, q \in Serial : kind = txns[t].kind /\ q = txns[t].payment
  BY <1>3, PlanOfPayment
<1>5. s = Locks(kind, q) /\ TypeOK /\ Subject(kind, q)
  BY <1>2, <1>3, <1>4, PlanOfPayment
<1>6. HasCoupon(payments[q]) /\ payments[q].coupon = payments[p].coupon => q = p
  <2>1. \A r \in Serial : payments[r].coupon = payments[p].coupon => r = p
    BY DEF LockInvariant, CouponInvariant, CouponTables, CouponMatchesPayment, HasCoupon
  <2>2. QED
    BY <2>1
<1>7. 1 \in 1..k /\ s[1] \in txns[t].held
  BY <1>2
<1>8. CASE kind = "unfreeze" /\ HasCoupon(payments[q])
  <2>1. /\ s[1] = ThePayment(q) /\ s[2] = TheCoupon(payments[q].coupon)
        /\ \A i \in 3..Len(s) : \E a \in Account : s[i] = TheAccount(a)
    BY <1>5, <1>8, SharedPlan
  <2>2. k + 1 = 2 \/ k + 1 \in 3..Len(s)
    BY <1>2, <1>7
  <2>3. k + 1 = 2
    <3>1. SUFFICES ASSUME k + 1 \in 3..Len(s)
                   PROVE  FALSE
      BY <2>2
    <3>2. PICK a \in Account : s[k + 1] = TheAccount(a)
      BY <2>1, <3>1
    <3>3. NextLock(t) = TheAccount(a)
      BY <1>2, <3>2
    <3>4. QED
      BY <3>3, LocksDiffer
  <2>4. TheCoupon(payments[q].coupon) = TheCoupon(payments[p].coupon)
    <3>1. NextLock(t) = TheCoupon(payments[q].coupon)
      BY <1>2, <2>1, <2>3
    <3>2. QED
      BY <3>1, LocksDiffer
  <2>5. q = p
    BY <1>6, <1>8, <2>4, LocksDiffer
  <2>6. QED
    BY <1>4, <1>7, <2>1, <2>5
<1>9. CASE ~(kind = "unfreeze" /\ HasCoupon(payments[q]))
  <2>1. /\ Rises(s)
        /\ \A i \in 1..Len(s) : s[i] \in Writes(kind, q)
        /\ kind \in {"fail", "request"} => s[1] = ThePayment(q)
    BY <1>5, <1>9, PlainPlan
  <2>2. NextLock(t) \in Writes(kind, q)
    BY <1>2, <2>1
  <2>3. Rank(s[1]) < Rank(NextLock(t)) /\ Rank(s[1]) \in Nat
    <3>1. 1 \in 1..Len(s) /\ 1 < k + 1
      BY <1>2, <1>7
    <3>2. s[1] \in Lockable
      BY <3>1
    <3>3. QED
      BY <1>2, <2>1, <3>1, <3>2, RankBound DEF Rises
  <2>4. CASE NextLock(t) = ThePayment(p)
    <3>1. q = p
      <4>1. ThePayment(p) \in Writes(kind, q)
        BY <2>2, <2>4
      <4>2. \A a : ThePayment(p) # TheAccount(a)
        BY LocksDiffer
      <4>3. \A r : ThePayment(p) # TheRefund(r)
        BY LocksDiffer
      <4>4. \A c : ThePayment(p) # TheCoupon(c)
        BY LocksDiffer
      <4>5. ThePayment(p) = ThePayment(q)
        BY ONLY kind \in Kind \ {"withdraw"}, <4>1, <4>2, <4>3, <4>4 DEF Writes, CouponOf, Kind
      <4>6. QED
        BY <4>5, LocksDiffer
    <3>2. kind \notin {"fail", "request"}
      BY <2>1, <2>3, <2>4, <3>1
    <3>3. QED
      BY <1>4, <1>9, <3>1, <3>2 DEF Kind
  <2>5. CASE NextLock(t) = TheCoupon(payments[p].coupon)
    <3>1. kind \in {"refund", "cancel"} /\ TheCoupon(payments[p].coupon) \in CouponOf(payments[q])
      BY <1>9, <2>2, <2>5, LocksDiffer DEF Writes, Kind
    <3>2. HasCoupon(payments[q]) /\ payments[q].coupon = payments[p].coupon
      BY <3>1, LocksDiffer DEF CouponOf
    <3>3. QED
      BY <1>4, <1>6, <3>1, <3>2
  <2>6. QED
    BY <2>4, <2>5
<1>10. QED
  BY <1>8, <1>9

\* Of transactions that wait for locks one waits for a lock of highest rank.
LEMMA HighestWait ==
  ASSUME LockInvariant, NEW S \in SUBSET Txn, S # {},
         \A t \in S : Running(t) /\ txns[t].todo # << >>
  PROVE  \E t \in S : \A u \in S : ~(Rank(NextLock(t)) < Rank(NextLock(u)))
<1> DEFINE left == [t \in S |-> MaxId + 3 - Rank(NextLock(t))]
           B == {left[t] : t \in S}
           R == OpToRel(<, Nat)
<1>1. \A t \in S : Rank(NextLock(t)) \in Nat /\ Rank(NextLock(t)) <= MaxId + 3
  <2>1. SUFFICES ASSUME NEW t \in S
                 PROVE  Rank(NextLock(t)) \in Nat /\ Rank(NextLock(t)) <= MaxId + 3
    OBVIOUS
  <2>2. NextLock(t) \in Lockable
    BY Progress
  <2>3. QED
    BY <2>2, RankBound
<1>2. \A t \in S : left[t] = MaxId + 3 - Rank(NextLock(t)) /\ left[t] \in Nat
  BY <1>1
<1> HIDE DEF left
<1>3. B \subseteq Nat /\ B # {}
  BY <1>2
<1>4. PICK m \in B : \A y \in B : ~(<<y, m>> \in R)
  <2>1. IsWellFoundedOn(R, Nat)
    BY NatLessThanWellFounded
  <2> HIDE DEF B, R
  <2>2. QED
    BY <1>3, <2>1, WFMin
<1>5. \A y \in B : y \in Nat /\ m \in Nat /\ ~(y < m)
  BY <1>3, <1>4 DEF OpToRel
<1>6. PICK t \in S : m = left[t]
  BY <1>4
<1>7. \A u \in S : ~(left[u] < left[t])
  BY <1>5, <1>6
<1>8. \A u \in S : ~(Rank(NextLock(t)) < Rank(NextLock(u)))
  BY <1>1, <1>2, <1>7
<1>9. QED
  BY <1>8

\* The invariant of the locks leaves no other deadlock.
LEMMA DeadlockIsUnfreeze == LockInvariant => DeadlocksAreUnfreezes
<1> SUFFICES ASSUME LockInvariant, NEW S \in SUBSET Txn, Stuck(S)
             PROVE  \E t, u \in S :
                      /\ txns[t].kind = "unfreeze"
                      /\ txns[u].kind \in {"pay", "refund", "cancel"}
                      /\ txns[t].payment = txns[u].payment
                      /\ WaitsFor(t, u) \/ WaitsFor(u, t)
  BY DEF DeadlocksAreUnfreezes
\* Who holds nothing is waited for by nobody.
<1> DEFINE T == {t \in S : txns[t].held # {}}
<1>1. /\ S # {} /\ \A t \in S : \E u \in S : WaitsFor(t, u)
      /\ \A t, u \in S : WaitsFor(t, u) =>
           /\ Running(t) /\ Running(u) /\ t # u
           /\ txns[t].todo # << >> /\ NextLock(t) \in txns[u].held
  BY DEF Stuck, WaitsFor
<1>2. T \in SUBSET Txn /\ T # {} /\ \A t \in T : \E u \in T : WaitsFor(t, u)
  BY <1>1
<1>3. \A t \in T : Running(t) /\ txns[t].todo # << >>
  BY <1>1
<1> HIDE DEF T
<1>4. PICK t \in T : \A u \in T : ~(Rank(NextLock(t)) < Rank(NextLock(u)))
  BY <1>2, <1>3, HighestWait
<1>5. PICK u \in T : WaitsFor(t, u)
  BY <1>2
<1>6. /\ t \in S /\ u \in S /\ t \in Txn /\ u \in Txn /\ t # u
      /\ Running(t) /\ Running(u) /\ NextLock(t) \in txns[u].held
      /\ txns[t].todo # << >> /\ txns[u].todo # << >> /\ txns[t].held # {}
  BY <1>1, <1>3, <1>5 DEF T
\* Who takes its locks in the order of their ranks waits for a higher one.
<1>7. Shared(u)
  <2>1. SUFFICES ASSUME ~Shared(u) PROVE FALSE
    OBVIOUS
  <2>2. Rank(NextLock(t)) < Rank(NextLock(u))
    BY <1>6, <2>1, PlainWaits
  <2>3. QED
    BY <1>4, <2>2
<1>8. PICK p : p = txns[u].payment
  OBVIOUS
<1>9. /\ p \in Serial /\ HasCoupon(payments[p]) /\ txns[u].kind = "unfreeze"
      /\ txns[u].held # {} => ThePayment(p) \in txns[u].held
      /\ \A l \in txns[u].held : \/ l = ThePayment(p)
                                 \/ l = TheCoupon(payments[p].coupon)
                                 \/ Rank(l) < Rank(NextLock(u))
  BY <1>6, <1>7, <1>8, SharedWaits DEF Shared
<1>10. NextLock(t) = ThePayment(p) \/ NextLock(t) = TheCoupon(payments[p].coupon)
  BY <1>4, <1>6, <1>9
<1>11. /\ txns[t].payment = p
       /\ txns[t].kind \in {"pay", "refund", "cancel"} \/ ThePayment(p) \in txns[t].held
  BY <1>6, <1>9, <1>10, WaitsForPayment
<1>12. ThePayment(p) \notin txns[t].held
  <2>1. ThePayment(p) \in txns[u].held
    BY <1>6, <1>9
  <2>2. QED
    BY <1>6, <2>1 DEF LockInvariant, LocksExclude
<1>13. QED
  BY <1>5, <1>6, <1>8, <1>9, <1>11, <1>12

\* Transactions that wait for each other for good do so about one payment
\* with a coupon, which one of them releases: the platform and the accounts of
\* the merchants, which all transactions share, deadlock nobody.
THEOREM DeadlocksCorrect == LockSpec => []DeadlocksAreUnfreezes
BY LocksCorrect, DeadlockIsUnfreeze, PTL

\* Connections that lock rows in the order of the code, wait and are rolled back
\* do to the ledger only what its own operations do, each in one step, when they
\* commit: `transaction.atomic` with select_for_update is the ledger's atomicity.
THEOREM LocksImplementLedger == LockSpec => LedgerSpec
<1>1. LockInit => Init
  BY DEF LockInit
<1>2. QED
  BY <1>1, LockLedgerStep, LocksCorrect, PTL DEF LockSpec, LedgerSpec, Spec

=============================================================================
