--------------------------- MODULE PaymentSystem ----------------------------
(***************************************************************************)
(* The ledger among the processes that drive it: the two providers, the    *)
(* callbacks and answers they send (late, twice or never), the request     *)
(* threads that ask for refunds and cancel orders, the task that polls the *)
(* state of refunds, and the timer that ends the freeze period.            *)
(*                                                                         *)
(* Every transaction of the ledger is an action of module Payments; what   *)
(* happens between two transactions of one process is a step of its own.   *)
(***************************************************************************)
EXTENDS Payments

CONSTANTS
  Thread,        \* threads that serve refund requests of merchants
  Timer,         \* runs of the unfreeze view, which may overlap
  MaxCrashes,    \* bound: processes that die
  WindowCloses   \* refunds may get too old to be polled

ASSUME SystemAssumption == MaxCrashes \in Nat /\ WindowCloses \in BOOLEAN

VARIABLES
  order,     \* the provider: state of the trade of each payment
  returned,  \* the provider: state of the refund of each trade
  notices,   \* the provider: outcomes of refunds it reports, again and again
  caller,    \* request_refund: where each thread is, and for which payment
  closing,   \* cancel_order: the answer a transaction holding the lock of the
             \* payment got, "no" when there is none
  queued,    \* wechat_refund_status_sync: tasks submitted
  polled,    \* wechat_refund_status_sync: the result a running task has read
  batch,     \* PaymentUnfreezeView: payments each run has still to unfreeze
  expired,   \* payments whose order is older than PAYMENT_FROZEN_TIME
  late,      \* refunds older than REFUND_STATUS_SYNC_TIME_WINDOW
  crashes

provider == <<order, returned, notices>>
processes == <<caller, closing, queued, polled, batch>>
clock == <<expired, late>>
system == <<vars, provider, processes, clock, crashes>>

Idle == [pc |-> "idle"]
At(pc, p) == [pc |-> pc, payment |-> p]

-----------------------------------------------------------------------------
(* Orders at the provider *)

SystemPlaceOrder(p) ==
  /\ \E ch \in Channel, m \in Merchant, c \in CouponId \cup {NoCoupon},
        price \in OrderPrice : PlaceOrder(p, ch, m, c, price)
  /\ order' = [order EXCEPT ![p] = "OPEN"]
  /\ UNCHANGED <<returned, notices, processes, clock, crashes>>

\* The client pays, or lets the order pass its timeout.
ClientPays(p) ==
  /\ order[p] = "OPEN"
  /\ order' = [order EXCEPT ![p] = "PAID"]
  /\ UNCHANGED <<vars, returned, notices, processes, clock, crashes>>

OrderTimesOut(p) ==
  /\ order[p] = "OPEN"
  /\ order' = [order EXCEPT ![p] = "CLOSED"]
  /\ UNCHANGED <<vars, returned, notices, processes, clock, crashes>>

\* WechatPaymentCallbackView and AlipayPaymentCallbackView: the provider may
\* notify a payment any time after it was made, and again.  A cancel that
\* holds the lock of the payment makes the callback wait.
PaymentNotified(p) ==
  /\ order[p] = "PAID"
  /\ closing[p] = "no"
  /\ OnPaymentSuccess(p)
  /\ UNCHANGED <<provider, processes, clock, crashes>>

\* cancel_order up to the answer of the provider.  The channel is chosen by
\* the client (PaymentCancelView), and the provider of the other channel
\* does not know the order.  A closed order may be refused or closed again;
\* the answer may get lost.
CloseOrder(p, ch) ==
  /\ payments[p].status = "UNPAID"
  /\ closing[p] = "no"
  /\ \/ /\ ch = payments[p].pay_channel
        /\ order[p] \in {"OPEN", "CLOSED"}
        /\ order' = [order EXCEPT ![p] = "CLOSED"]
        /\ closing' = [closing EXCEPT ![p] = "closed"]
     \/ /\ ch = payments[p].pay_channel
        /\ order[p] = "OPEN"
        /\ order' = [order EXCEPT ![p] = "CLOSED"]
        /\ closing' = [closing EXCEPT ![p] = "error"]
     \/ /\ closing' = [closing EXCEPT ![p] = "error"]
        /\ UNCHANGED order
  /\ UNCHANGED <<vars, returned, notices, caller, queued, polled, batch, clock, crashes>>

\* The rest of the transaction of cancel_order ...
CommitCancel(p) ==
  /\ closing[p] = "closed"
  /\ CancelOrder(p)
  /\ closing' = [closing EXCEPT ![p] = "no"]
  /\ UNCHANGED <<provider, caller, queued, polled, batch, clock, crashes>>

\* Mutants of RollBackCancel: the error is swallowed; the lock is kept.
CommitAnyway(p) ==
  /\ closing[p] = "error"
  /\ CancelOrder(p)
  /\ closing' = [closing EXCEPT ![p] = "no"]
  /\ UNCHANGED <<provider, caller, queued, polled, batch, clock, crashes>>
KeepLock(p) == closing[p] = "error" /\ UNCHANGED system

\* ... which the error rolls back.
RollBackCancel(p) ==
  /\ closing[p] = "error"
  /\ closing' = [closing EXCEPT ![p] = "no"]
  /\ UNCHANGED <<vars, provider, caller, queued, polled, batch, clock, crashes>>

CancelDies(p) ==
  /\ closing[p] # "no"
  /\ crashes < MaxCrashes
  /\ crashes' = crashes + 1
  /\ closing' = [closing EXCEPT ![p] = "no"]
  /\ UNCHANGED <<vars, provider, caller, queued, polled, batch, clock>>

-----------------------------------------------------------------------------
(* Refunds: request_refund commits, calls the provider, and books the      *)
(* answer in a transaction of its own.                                     *)

StartRefund(t, p) ==
  /\ caller[t] = Idle
  /\ RequestRefund(p)
  /\ caller' = [caller EXCEPT ![t] = At("call", p)]
  /\ UNCHANGED <<provider, closing, queued, polled, batch, clock, crashes>>

\* The provider takes a refund on, or knows it already by its serial number:
\* Alipay decides at once, WeChat later.
Accepted(p) ==
  IF returned[p] \in {"PROCESSING", "SUCCESS"} THEN returned
  ELSE [returned EXCEPT ![p] = IF payments[p].pay_channel = "WECHAT"
                               THEN "PROCESSING" ELSE "SUCCESS"]

\* The request is accepted and the answer arrives or gets lost; or it is
\* refused, or never arrives.
CallRefund(t) ==
  LET p == caller[t].payment
      Answer(answer) == caller' = [caller EXCEPT ![t] = At(answer, p)]
  IN  /\ caller[t].pc = "call"
      /\ \/ returned' = Accepted(p) /\ (Answer("ok") \/ Answer("error"))
         \/ UNCHANGED returned /\ Answer("error")
      /\ UNCHANGED <<vars, order, notices, closing, queued, polled, batch, clock, crashes>>

\* A transaction of the ledger on p, or an InvalidStatusError.
BookSuccess(p) == OnRefundSuccess(p) \/ (~RefundPending(p) /\ UNCHANGED vars)

\* Mutant of BookFailure: the statuses are not tested under the lock.
BookFailureUnchecked(p) ==
  /\ payments' = [payments EXCEPT ![p].status = "REFUND_FAILED"]
  /\ refunds' = [refunds EXCEPT ![p] = "FAILED"]
  /\ rows' = << >>
  /\ UNCHANGED <<coupons, balance, withdrawable, paidOut>>

BookFailure(p) == OnRefundFail(p) \/ (~RefundPending(p) /\ UNCHANGED vars)

\* Mutant of DecidedAtOnce: an accepted refund is taken for a refund.
AnyChannel(p) == TRUE

\* Alipay answers a refund with its outcome; WeChat reports it later.
DecidedAtOnce(p) == payments[p].pay_channel = "ALIPAY"

BookAnswer(t) ==
  LET p == caller[t].payment
  IN  /\ \/ /\ caller[t].pc = "ok"
            /\ IF DecidedAtOnce(p) THEN BookSuccess(p) ELSE UNCHANGED vars
         \/ caller[t].pc = "error" /\ BookFailure(p)
      /\ caller' = [caller EXCEPT ![t] = Idle]
      /\ UNCHANGED <<provider, closing, queued, polled, batch, clock, crashes>>

\* The process dies, or an exception that is neither ApiRequestError nor
\* ApiReturnedError ends the request (SignError, a body that is not JSON).
CallerDies(t) ==
  /\ caller[t] # Idle
  /\ crashes < MaxCrashes
  /\ crashes' = crashes + 1
  /\ caller' = [caller EXCEPT ![t] = Idle]
  /\ UNCHANGED <<vars, provider, closing, queued, polled, batch, clock>>

RefundDecided(p) ==
  /\ returned[p] = "PROCESSING"
  /\ \E outcome \in {"SUCCESS", "FAILED"} :
       /\ returned' = [returned EXCEPT ![p] = outcome]
       /\ notices' = notices \cup {<<p, outcome>>}
  /\ UNCHANGED <<vars, order, processes, clock, crashes>>

\* WechatRefundCallbackView
RefundNotified(p) ==
  /\ \/ <<p, "SUCCESS">> \in notices /\ OnRefundSuccess(p)
     \/ <<p, "FAILED">> \in notices /\ OnRefundFail(p)
  /\ UNCHANGED <<provider, processes, clock, crashes>>

\* RefundStatusSyncView submits a task for each refund in process.
SubmitPolls ==
  LET inProcess == {p \in Serial : refunds[p] = "REQUESTED" /\ p \notin late}
  IN  /\ ~ inProcess \subseteq queued
      /\ queued' = queued \cup inProcess
      /\ UNCHANGED <<vars, provider, caller, closing, polled, batch, clock, crashes>>

\* Mutant of PollResult: only success is recognised.
PollSuccess(p) ==
  IF payments[p].pay_channel = "WECHAT" /\ returned[p] = "SUCCESS"
  THEN "SUCCESS" ELSE "none"

\* WeChat does not know the refunds of Alipay, and a refund in process waits
\* for the next poll.
PollResult(p) ==
  IF payments[p].pay_channel = "WECHAT" /\ returned[p] \in {"SUCCESS", "FAILED"}
  THEN returned[p] ELSE "none"

\* wechat_refund_status_sync up to the answer ...
Poll(p) ==
  /\ p \in queued
  /\ polled[p] = "none"
  /\ queued' = queued \ {p}
  /\ polled' = [polled EXCEPT ![p] = PollResult(p)]
  /\ UNCHANGED <<vars, provider, caller, closing, batch, clock, crashes>>

\* ... and the rest: the refund may have changed in between.
BookPolled(p) ==
  /\ \/ polled[p] = "SUCCESS" /\ BookSuccess(p)
     \/ polled[p] = "FAILED" /\ BookFailure(p)
  /\ polled' = [polled EXCEPT ![p] = "none"]
  /\ UNCHANGED <<provider, caller, closing, queued, batch, clock, crashes>>

RefundGetsLate(p) ==
  /\ WindowCloses
  /\ refunds[p] # "NONE"
  /\ p \notin late
  /\ late' = late \cup {p}
  /\ UNCHANGED <<vars, provider, processes, expired, crashes>>

-----------------------------------------------------------------------------
(* The end of the freeze period, counted from the time of the order *)

FreezeExpires(p) ==
  /\ payments[p].status # "NONE"
  /\ p \notin expired
  /\ expired' = expired \cup {p}
  /\ UNCHANGED <<vars, provider, processes, late, crashes>>

\* Mutant of Due: the comparison of times is the wrong way round.
DueTooEarly(p) == p \notin expired /\ payments[p].status = "FROZEN"

Due(p) == p \in expired /\ payments[p].status = "FROZEN"

\* PaymentUnfreezeView reads the payments that are due ...
StartUnfreeze(t) ==
  LET due == {p \in Serial : Due(p)}
  IN  /\ batch[t] = {}
      /\ due # {}
      /\ batch' = [batch EXCEPT ![t] = due]
      /\ UNCHANGED <<vars, provider, caller, closing, queued, polled, clock, crashes>>

\* The payment used a coupon and its merchant has no inviter: reading the
\* account of the inviter is an AttributeError.
NoInviter(p) == HasCoupon(payments[p]) /\ Inviter[payments[p].merchant] = NoMarketer

\* Mutant of SkipChanged: the status read by the view is trusted.
UnfreezeStale(p) ==
  /\ payments[p].status # "FROZEN"
  /\ payments' = [payments EXCEPT ![p].status = "FINISHED"]
  /\ rows' = << >>
  /\ UNCHANGED <<refunds, coupons, balance, withdrawable, paidOut>>

\* InvalidStatusError: p was refunded or unfrozen since it was read.
SkipChanged(p) == ~NoInviter(p) /\ payments[p].status # "FROZEN" /\ UNCHANGED vars

\* ... and unfreezes one after the other.
UnfreezeNext(t) ==
  /\ \E p \in batch[t] :
       /\ OnPaymentUnfreeze(p) \/ SkipChanged(p)
       /\ batch' = [batch EXCEPT ![t] = @ \ {p}]
  /\ UNCHANGED <<provider, caller, closing, queued, polled, clock, crashes>>

\* Any other exception ends the run; what was not reached has to wait.
UnfreezeAborts(t) ==
  /\ \E p \in batch[t] : NoInviter(p)
  /\ batch' = [batch EXCEPT ![t] = {}]
  /\ UNCHANGED <<vars, provider, caller, closing, queued, polled, clock, crashes>>

UnfreezeDies(t) ==
  /\ batch[t] # {}
  /\ crashes < MaxCrashes
  /\ crashes' = crashes + 1
  /\ batch' = [batch EXCEPT ![t] = {}]
  /\ UNCHANGED <<vars, provider, caller, closing, queued, polled, clock>>

-----------------------------------------------------------------------------
SystemInit ==
  /\ Init
  /\ order = [p \in Serial |-> "NONE"]
  /\ returned = [p \in Serial |-> "NONE"]
  /\ notices = {}
  /\ caller = [t \in Thread |-> Idle]
  /\ closing = [p \in Serial |-> "no"]
  /\ queued = {}
  /\ polled = [p \in Serial |-> "none"]
  /\ batch = [t \in Timer |-> {}]
  /\ expired = {}
  /\ late = {}
  /\ crashes = 0

OrderStep(p) ==
  \/ SystemPlaceOrder(p) \/ ClientPays(p) \/ OrderTimesOut(p) \/ PaymentNotified(p)
  \/ \E ch \in Channel : CloseOrder(p, ch)
  \/ CommitCancel(p) \/ RollBackCancel(p) \/ CancelDies(p)

RefundStep(p) ==
  \/ RefundDecided(p) \/ RefundNotified(p)
  \/ Poll(p) \/ BookPolled(p) \/ RefundGetsLate(p)

ThreadStep(t) ==
  \/ \E p \in Serial : StartRefund(t, p)
  \/ CallRefund(t) \/ BookAnswer(t) \/ CallerDies(t)

TimerStep(t) ==
  StartUnfreeze(t) \/ UnfreezeNext(t) \/ UnfreezeAborts(t) \/ UnfreezeDies(t)

SystemMoneyOut == MoneyOut /\ UNCHANGED <<provider, processes, clock, crashes>>

SystemNext ==
  \/ \E p \in Serial : OrderStep(p) \/ RefundStep(p) \/ FreezeExpires(p)
  \/ \E t \in Thread : ThreadStep(t)
  \/ \E t \in Timer : TimerStep(t)
  \/ SubmitPolls
  \/ SystemMoneyOut

SystemSpec == SystemInit /\ [][SystemNext]_system

\* The scheduling the code relies on: a request thread goes on until it has
\* answered, the timers call their views again and again, tasks are run, and
\* the providers decide every refund and repeat the notice of a payment until
\* it is booked.  The lock of a cancel may make that notice fail again and
\* again, so it is strongly fair.  Nobody need place, pay, cancel or refund an
\* order, and no notice of a refund need arrive.
Fairness ==
  /\ \A p \in Serial :
       /\ SF_system(PaymentNotified(p))
       /\ WF_system(CommitCancel(p)) /\ WF_system(RollBackCancel(p))
       /\ WF_system(RefundDecided(p)) /\ WF_system(FreezeExpires(p))
       /\ WF_system(Poll(p)) /\ WF_system(BookPolled(p))
  /\ \A t \in Thread : WF_system(CallRefund(t)) /\ WF_system(BookAnswer(t))
  /\ \A t \in Timer : WF_system(StartUnfreeze(t))
                       /\ WF_system(UnfreezeNext(t) \/ UnfreezeAborts(t))
  /\ WF_system(SubmitPolls)

FairSystemSpec == SystemSpec /\ Fairness

-----------------------------------------------------------------------------
(* Properties *)

SystemTypeOK ==
  /\ order \in [Serial -> {"NONE", "OPEN", "PAID", "CLOSED"}]
  /\ returned \in [Serial -> {"NONE", "PROCESSING", "SUCCESS", "FAILED"}]
  /\ notices \subseteq Serial \X {"SUCCESS", "FAILED"}
  /\ caller \in [Thread -> {Idle} \cup {At(pc, p) : pc \in {"call", "ok", "error"},
                                                    p \in Serial}]
  /\ closing \in [Serial -> {"no", "closed", "error"}]
  /\ queued \subseteq Serial
  /\ polled \in [Serial -> {"none", "SUCCESS", "FAILED"}]
  /\ batch \in [Timer -> SUBSET Serial]
  /\ expired \subseteq Serial /\ late \subseteq Serial
  /\ crashes \in 0..MaxCrashes

\* The ledger takes only steps of module Payments, so what is proved and
\* checked of the ledger holds of the system: no callback, answer, poll or
\* timer acts on what it read before without testing it again.
LedgerSpec == Spec

\* Money a provider returns, or may still return, to a customer is frozen or
\* taken back: the sale is never released to the merchant, whatever answers
\* are lost, late or stale and whatever process dies in between.
ReturnedIsNotReleased ==
  \A p \in Serial : returned[p] # "NONE" =>
    payments[p].status \in {"REFUND_REQUESTED", "REFUND_FAILED", "REFUND"}

\* The ledger books a refund only when the provider did return the money.
BookedRefundIsReal ==
  \A p \in Serial : payments[p].status = "REFUND" => returned[p] = "SUCCESS"

\* A merchant is credited only for an order that was paid, and a coupon given
\* back for a cancelled order belongs to an order that can no longer be paid:
\* a close that races with a payment is decided by the provider alone.
BookedOrderIsReal ==
  \A p \in Serial :
    /\ payments[p].status = "UNPAID" \/ order[p] # "OPEN"
    /\ payments[p].status \in {"FROZEN", "REFUND_REQUESTED", "REFUND_FAILED",
                               "REFUND", "FINISHED"} => order[p] = "PAID"
    /\ payments[p].status = "CANCELLED" => order[p] = "CLOSED"

\* An order the client paid is booked.
PaidOrderIsBooked ==
  \A p \in Serial : order[p] = "PAID" ~> payments[p].status \notin {"NONE", "UNPAID"}

\* Nobody asks about the refund of p any more: the process that was to call
\* the provider died, before it called or before it booked the answer of
\* Alipay, or the refund is too old to be polled.
Abandoned(p) ==
  /\ \A t \in Thread : caller[t] = Idle \/ caller[t].payment # p
  /\ \/ crashes > 0 /\ (returned[p] = "NONE" \/ payments[p].pay_channel = "ALIPAY")
     \/ p \in late

\* A refund that was requested ends, one way or the other, without a notice
\* from the provider: the poll finds out.  What never ends are refunds that
\* were abandoned; nothing else a crash may do keeps one from ending.
RefundEnds ==
  \A p \in Serial : payments[p].status = "REFUND_REQUESTED"
                      ~> payments[p].status # "REFUND_REQUESTED" \/ Abandoned(p)

\* A payment that ends every run of the timer that comes to it
Blocks(q) == Due(q) /\ NoInviter(q)

\* No payment stays frozen, whichever processes die, unless another one, or
\* itself, blocks the runs of the timer: it is released, or a refund takes it.
\* When what blocked has been refunded, the payments behind it are released.
FreezeEnds ==
  \A p \in Serial : payments[p].status = "FROZEN"
                      ~> payments[p].status # "FROZEN" \/ \E q \in Serial : Blocks(q)

=============================================================================
