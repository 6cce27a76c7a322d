------------------------------- MODULE Notices -------------------------------
(***************************************************************************)
(* What the staff of a merchant are told of payments and refunds: template *)
(* messages of the subscription account, which celery pushes, and the      *)
(* voice that the app plays.  The ledger is that of module Payments.  A    *)
(* process books first and tells afterwards: it reads the staff and pushes *)
(* once its transaction is committed, and may die before it does.          *)
(*                                                                         *)
(* A message stands for the fields of its content.  Whether WeChat brings  *)
(* it to the phone is beyond the server, which logs the answer and never   *)
(* tries again.                                                            *)
(***************************************************************************)
EXTENDS Payments

CONSTANTS
  Person,      \* staff of merchants
  Worker,      \* processes: callbacks, tasks and requests for refunds
  MaxRequests, \* bound: refunds asked for
  MaxDeaths    \* bound: processes that die

ASSUME NoticesAssumption ==
  MaxRequests \in Nat /\ MaxDeaths \in Nat /\ IsFiniteSet(Worker)

VARIABLES
  staff,       \* the MerchantAdmin table: where a person works and the status
  worker,      \* what each process is about to do
  listening,   \* merchants whose app has its websocket open
  \* history:
  requests,    \* refunds asked for
  deaths,      \* processes that died
  changed,     \* persons whose row was changed
  due,         \* transactions that call for a notice, by notice and payment
  tooLate,     \* requests that found the refund in another state
  told,        \* messages pushed, by notice, payment and person
  spoken,      \* voices heard, by payment
  mute         \* voices not sent, for want of a token or of an open app

noticeVars == <<staff, worker, listening, requests, deaths, changed, due, tooLate,
                told, spoken, mute>>

Notice == {"merchant_receive", "merchant_refund_success", "merchant_refund_fail"}
Free == [pc |-> "free"]
Doing(pc, p) == [pc |-> pc, payment |-> p]
Telling(n, p) == [pc |-> "tell", payment |-> p, notice |-> n]

----------------------------------------------------------------------------
(* Templates: the fields that the body of each message reads.              *)

MonthBillTemplate == {"month", "turnover", "sharing_earning", "bill_month"}
CommitInfoTemplate == {"merchant_name", "commit_time"}
BeApprovedTemplate == {"pass_time"}
NotBeApprovedTemplate == {"reason"}
RefundSuccessTemplate == {"serial_number", "first", "keyword1", "keyword2", "keyword3"}
RefundFailTemplate == {"first", "keyword1", "keyword2", "keyword3", "keyword4"}
ReceiveTemplate == {"serial_number", "first", "keyword1", "keyword2", "keyword3"}
SettlementTemplate == {"first", "keyword1", "keyword2"}
AuditMerchantTemplate == {"applicant", "apply_time"}
InvitePassTemplate == {"merchant_name", "pass_time"}

\* ReplyMessageFactory.get_template_message
TemplateMessage ==
  [marketer_audit_merchant      |-> AuditMerchantTemplate,
   inviter_invite_merchant_pass |-> InvitePassTemplate,
   merchant_month_bill          |-> MonthBillTemplate,
   merchant_commit_info         |-> CommitInfoTemplate,
   merchant_be_approved         |-> BeApprovedTemplate,
   merchant_not_be_approved     |-> NotBeApprovedTemplate,
   merchant_refund_success      |-> RefundSuccessTemplate,
   merchant_refund_fail         |-> RefundFailTemplate,
   merchant_receive             |-> ReceiveTemplate,
   merchant_settlement          |-> SettlementTemplate]

\* The contents that are put together for them.
OnPaySuccess == {"first", "keyword1", "keyword2", "keyword3", "serial_number"}

\* Mutant of OnRefundDone: the number of the payment is left out.
OnRefundShort == {"first", "keyword1", "keyword2", "keyword3", "remark"}
OnRefundDone == {"first", "keyword1", "keyword2", "keyword3", "remark", "serial_number"}

OnRefundRefused == {"first", "keyword1", "keyword2", "keyword3", "keyword4"}
MonthBillContent == {"turnover", "sharing_earning"} \cup {"bill_month", "month"}
SettlementContent == {"first", "keyword1", "keyword2"}
WaitToBeAudited == {"merchant_name", "commit_time"}
AuditedSuccess == {"pass_time"}
AuditedFail == {"reason"}
SalesmanMerchantAudit == {"applicant", "apply_time"}
InviterMerchantAudited == {"merchant_name", "pass_time"}

Content ==
  [marketer_audit_merchant      |-> SalesmanMerchantAudit,
   inviter_invite_merchant_pass |-> InviterMerchantAudited,
   merchant_month_bill          |-> MonthBillContent,
   merchant_commit_info         |-> WaitToBeAudited,
   merchant_be_approved         |-> AuditedSuccess,
   merchant_not_be_approved     |-> AuditedFail,
   merchant_refund_success      |-> OnRefundDone,
   merchant_refund_fail         |-> OnRefundRefused,
   merchant_receive             |-> OnPaySuccess,
   merchant_settlement          |-> SettlementContent]

\* async_push_template_message: a type without a template is dropped, and a
\* field that is missing ends the task.
IsPushed(n) == n \in DOMAIN TemplateMessage /\ TemplateMessage[n] \subseteq Content[n]

\* Mutant of MerchantAdmins: the status of the staff is not looked at.
WorkingFor(m) == {x \in Person : staff[x].work = m}

\* MerchantMessageSender
MerchantAdmins(m) == {x \in Person : staff[x].work = m /\ staff[x].status = "USING"}

Pushed(n, p, who) ==
  IF IsPushed(n)
  THEN [told EXCEPT ![n][p] = [x \in Person |-> @[x] + IF x \in who THEN 1 ELSE 0]]
  ELSE told

----------------------------------------------------------------------------
(* Processes                                                               *)

Goes(t, to) == worker' = [worker EXCEPT ![t] = to]
Books(n, p) == due' = [due EXCEPT ![n][p] = @ + 1]
Rest(kept) == UNCHANGED <<staff, listening, deaths, changed, told, spoken, mute, kept>>

\* Mutant of WechatPaymentCallback: a notice that comes twice is told twice.
CallbackTwice(t, p) ==
  /\ worker[t] = Free
  /\ OnPaymentSuccess(p) \/ (payments[p].status = "FROZEN" /\ UNCHANGED vars)
  /\ due' = IF payments[p].status = "UNPAID"
            THEN [due EXCEPT !["merchant_receive"][p] = @ + 1] ELSE due
  /\ Goes(t, Telling("merchant_receive", p)) /\ Rest(<<requests, tooLate>>)

\* WechatPaymentCallbackView: the exception that a second notice of the payment
\* raises is logged, and nothing is told.
WechatPaymentCallback(t, p) ==
  /\ worker[t] = Free /\ payments[p].pay_channel = "WECHAT"
  /\ OnPaymentSuccess(p)
  /\ Books("merchant_receive", p) /\ Goes(t, Telling("merchant_receive", p))
  /\ Rest(<<requests, tooLate>>)

\* AlipayPaymentCallbackView: it ends the request.
AlipayPaymentCallback(t, p) ==
  /\ worker[t] = Free /\ payments[p].pay_channel = "ALIPAY"
  /\ OnPaymentSuccess(p)
  /\ Books("merchant_receive", p) /\ Goes(t, Telling("merchant_receive", p))
  /\ Rest(<<requests, tooLate>>)

\* WechatRefundCallbackView: a notice about a refund that is not in process
\* raises as well.
WechatRefundCallback(t, p, outcome) ==
  /\ worker[t] = Free /\ payments[p].pay_channel = "WECHAT"
  /\ \/ /\ outcome = "SUCCESS" /\ OnRefundSuccess(p)
        /\ Books("merchant_refund_success", p)
        /\ Goes(t, Telling("merchant_refund_success", p))
     \/ /\ outcome # "SUCCESS" /\ OnRefundFail(p)
        /\ Books("merchant_refund_fail", p)
        /\ Goes(t, Telling("merchant_refund_fail", p))
  /\ Rest(<<requests, tooLate>>)

\* wechat_refund_status_sync: the same for the answer of a poll; a refund in
\* process is left for the next.
RefundStatusSync(t, p, answer) ==
  /\ worker[t] = Free /\ payments[p].pay_channel = "WECHAT"
  /\ answer # "PROCESSING"
  /\ \/ /\ answer = "SUCCESS" /\ OnRefundSuccess(p)
        /\ Books("merchant_refund_success", p)
        /\ Goes(t, Telling("merchant_refund_success", p))
     \/ /\ answer # "SUCCESS" /\ OnRefundFail(p)
        /\ Books("merchant_refund_fail", p)
        /\ Goes(t, Telling("merchant_refund_fail", p))
  /\ Rest(<<requests, tooLate>>)

\* The request for a refund looks at the status (and that the merchant is in
\* use, which is left out here) before it locks the payment ...
AskRefund(t, p) ==
  /\ worker[t] = Free /\ requests < MaxRequests
  /\ payments[p].status \in {"FROZEN", "REFUND_FAILED"}
  /\ requests' = requests + 1
  /\ Goes(t, Doing("request", p))
  /\ UNCHANGED <<vars, due, tooLate>> /\ Rest(<<>>)

\* Another process was quicker: "failed" is told if there is a Refund row.
FindsItChanged(t, p) ==
  /\ IF refunds[p] = "NONE"
     THEN Goes(t, Free) /\ UNCHANGED tooLate
     ELSE Goes(t, Telling("merchant_refund_fail", p)) /\ tooLate' = [tooLate EXCEPT ![p] = @ + 1]
  /\ UNCHANGED <<vars, due, requests>> /\ Rest(<<>>)

\* ... request_refund looks again ...
BeginRefund(t) ==
  /\ worker[t].pc = "request"
  /\ LET p == worker[t].payment IN
     \/ /\ RequestRefund(p)
        /\ Goes(t, Doing("call", p))
        /\ UNCHANGED due /\ Rest(<<requests, tooLate>>)
     \/ /\ payments[p].status \notin {"FROZEN", "REFUND_FAILED"}
        /\ FindsItChanged(t, p)

\* ... and books what the provider answers: a refund that WeChat takes on is
\* told of when it is done, one of Alipay is done at once.
FinishRefund(t) ==
  /\ worker[t].pc = "call"
  /\ LET p == worker[t].payment IN
     \/ /\ payments[p].pay_channel = "WECHAT"
        /\ Goes(t, Free)
        /\ UNCHANGED <<vars, due>> /\ Rest(<<requests, tooLate>>)
     \/ /\ payments[p].pay_channel = "ALIPAY"
        /\ OnRefundSuccess(p)
        /\ Books("merchant_refund_success", p)
        /\ Goes(t, Telling("merchant_refund_success", p)) /\ Rest(<<requests, tooLate>>)
     \/ /\ OnRefundFail(p)
        /\ Books("merchant_refund_fail", p)
        /\ Goes(t, Telling("merchant_refund_fail", p)) /\ Rest(<<requests, tooLate>>)
     \/ /\ ~RefundPending(p)
        /\ FindsItChanged(t, p)

\* The staff are read and told; a receipt is spoken as well.
TellStaff(t) ==
  /\ worker[t].pc = "tell"
  /\ LET n == worker[t].notice
         p == worker[t].payment
     IN /\ told' = Pushed(n, p, MerchantAdmins(payments[p].merchant))
        /\ Goes(t, IF n = "merchant_receive" THEN Doing("speak", p) ELSE Free)
  /\ UNCHANGED <<vars, staff, listening, requests, deaths, changed, due, tooLate, spoken, mute>>

\* send_voice_message_to_merchant_app: the group of the merchant hears it.
SendVoice(t) ==
  /\ worker[t].pc = "speak"
  /\ LET p == worker[t].payment
         heard == payments[p].merchant \in listening
     IN /\ spoken' = [spoken EXCEPT ![p] = @ + IF heard THEN 1 ELSE 0]
        /\ mute' = IF heard THEN mute ELSE mute \cup {p}
  /\ Goes(t, Free)
  /\ UNCHANGED <<vars, staff, listening, requests, deaths, changed, due, tooLate, told>>

\* Baidu gives no token: handling its error is itself an error.
VoiceFails(t) ==
  /\ worker[t].pc = "speak"
  /\ mute' = mute \cup {worker[t].payment}
  /\ Goes(t, Free)
  /\ UNCHANGED <<vars, staff, listening, requests, deaths, changed, due, tooLate, told, spoken>>

\* A process dies, perhaps after it told a few.
Dies(t) ==
  /\ worker[t] # Free /\ deaths < MaxDeaths
  /\ deaths' = deaths + 1
  /\ \/ UNCHANGED told
     \/ /\ worker[t].pc = "tell"
        /\ \E who \in SUBSET MerchantAdmins(payments[worker[t].payment].merchant) :
             told' = Pushed(worker[t].notice, worker[t].payment, who)
  /\ Goes(t, Free)
  /\ UNCHANGED <<vars, staff, listening, requests, changed, due, tooLate, spoken, mute>>

\* Persons are added, removed and added elsewhere, each once.
StaffChanges(x) ==
  /\ x \notin changed
  /\ \E m \in Merchant, status \in {"USING", "DISABLED"} :
       staff' = [staff EXCEPT ![x] = [work |-> m, status |-> status]]
  /\ changed' = changed \cup {x}
  /\ UNCHANGED <<vars, worker, listening, requests, deaths, due, tooLate, told, spoken, mute>>

\* WeChatAuthConsumer.connect joins the group of a merchant, disconnect leaves it.
Connect(m) ==
  /\ m \notin listening /\ listening' = listening \cup {m}
  /\ UNCHANGED <<vars, staff, worker, requests, deaths, changed, due, tooLate, told, spoken, mute>>
Disconnect(m) ==
  /\ m \in listening /\ listening' = listening \ {m}
  /\ UNCHANGED <<vars, staff, worker, requests, deaths, changed, due, tooLate, told, spoken, mute>>

\* The rest of the ledger
LedgerMoves ==
  /\ \E p \in Serial :
       \/ \E ch \in Channel, m \in Merchant, price \in OrderPrice :
            PlaceOrder(p, ch, m, NoCoupon, price)
       \/ OnPaymentUnfreeze(p)
  /\ UNCHANGED noticeVars

NoticesInit ==
  /\ Init
  /\ staff \in [Person -> [work : Merchant, status : {"USING", "DISABLED"}]]
  /\ worker = [t \in Worker |-> Free]
  /\ listening = {} /\ changed = {} /\ mute = {}
  /\ requests = 0 /\ deaths = 0
  /\ due = [n \in Notice |-> [p \in Serial |-> 0]]
  /\ tooLate = [p \in Serial |-> 0]
  /\ told = [n \in Notice |-> [p \in Serial |-> [x \in Person |-> 0]]]
  /\ spoken = [p \in Serial |-> 0]

WorkerStep(t) ==
  \/ \E p \in Serial :
       \/ WechatPaymentCallback(t, p) \/ AlipayPaymentCallback(t, p) \/ AskRefund(t, p)
       \/ \E outcome \in {"SUCCESS", "ABNORMAL"} : WechatRefundCallback(t, p, outcome)
       \/ \E answer \in {"PROCESSING", "SUCCESS", "ABNORMAL"} : RefundStatusSync(t, p, answer)
  \/ BeginRefund(t) \/ FinishRefund(t) \/ TellStaff(t) \/ SendVoice(t) \/ VoiceFails(t)
  \/ Dies(t)

NoticesNext ==
  \/ LedgerMoves
  \/ \E t \in Worker : WorkerStep(t)
  \/ \E x \in Person : StaffChanges(x)
  \/ \E m \in Merchant : Connect(m) \/ Disconnect(m)

----------------------------------------------------------------------------
(* Properties *)

\* The messages that a person who works for the merchant of p is owed.
Owed(n, p) == due[n][p] + IF n = "merchant_refund_fail" THEN tooLate[p] ELSE 0

Busy(p) == \E t \in Worker : worker[t] # Free /\ worker[t].payment = p

\* Nobody is told more than was booked: one receipt a payment whatever the
\* provider repeats, and of a refund what became of it; "failed" is told beyond
\* that only by a request that another process overtook.
ToldIsBooked ==
  \A n \in Notice, p \in Serial, x \in Person :
    /\ told[n][p][x] <= Owed(n, p)
    /\ n # "merchant_refund_fail" => due[n][p] <= 1
    /\ n = "merchant_refund_success" /\ told[n][p][x] > 0 => payments[p].status = "REFUND"

\* Everyone who is at work all the time is told all of it, unless a process died
\* on the way; who is not is told nothing.
StaffAreTold ==
  \A n \in Notice, p \in Serial, x \in Person \ changed :
    IF staff[x] = [work |-> payments[p].merchant, status |-> "USING"]
    THEN deaths = 0 /\ ~Busy(p) => told[n][p][x] = Owed(n, p)
    ELSE told[n][p][x] = 0

\* A payment is spoken once, when the app listens and the voice can be had.
VoicesAreHeard ==
  \A p \in Serial :
    /\ spoken[p] <= due["merchant_receive"][p]
    /\ deaths = 0 /\ ~Busy(p) /\ p \notin mute => spoken[p] = due["merchant_receive"][p]

\* No message of any kind lacks a field that its template reads.
MessagesAreComplete == \A n \in DOMAIN TemplateMessage : IsPushed(n)

\* What becomes of a payment is told to those who work for its merchant.
NoticesAreTrue == MessagesAreComplete /\ ToldIsBooked /\ StaffAreTold /\ VoicesAreHeard
=============================================================================
