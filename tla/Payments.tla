------------------------------ MODULE Payments ------------------------------
(***************************************************************************)
(* The payment ledger of the server: common/payment/{base,wechat,alipay}.py*)
(* over the tables of common/models.py.  Every action is one database      *)
(* transaction: the code runs each of them inside transaction.atomic()     *)
(* with the rows it changes locked by select_for_update, so a transaction  *)
(* is one step here.  A transaction that raises is rolled back and changes *)
(* nothing, so it is no step.                                              *)
(*                                                                         *)
(* An account is named by its owner.  Each account holds, for each pay     *)
(* channel, a balance and the part of it that may be withdrawn; AccountProxy*)
(* picks the pair of columns of the channel of the payment at hand.        *)
(***************************************************************************)
EXTENDS Integers, Sequences, FiniteSets, Shares, Sums

CONSTANTS
  Platform,        \* the account PLATFORM_ACCOUNT_ID
  Merchant,        \* merchants, and their accounts
  Marketer,        \* marketers (inviters), and their accounts
  NoMarketer,      \* merchant.inviter is NULL
  Inviter,         \* merchant.inviter, for each merchant
  Enterprise,      \* merchants of type ENTERPRISE, settled by the timer
  PlatformFloat,   \* Alipay money the platform account is opened with
  OrderPrice,      \* order prices of the payments placed
  Amount,          \* amounts withdrawn, transferred or settled
  NPayments,       \* bound: payments 1..NPayments may be placed
  InitialCoupons,  \* the coupons granted before, a sequence
  NCoupons         \* bound: coupons 1..NCoupons may exist

Channel  == {"WECHAT", "ALIPAY"}
Account  == {Platform} \cup Merchant \cup Marketer
Purse    == Account \X Channel
Serial   == 1..NPayments
CouponId == 1..NCoupons
NoCoupon == 0

PaymentStatus == {"NONE", "UNPAID", "FROZEN", "REFUND_REQUESTED", "REFUND",
                  "REFUND_FAILED", "FINISHED", "CANCELLED"}
RefundStatus  == {"NONE", "REQUESTED", "FAILED", "FINISHED"}
CouponStatus  == {"NONE", "NOT_USED", "USED", "DESTROYED"}

\* "NONE" marks a row that has not been created.
Coupon == [status : CouponStatus, rule : Merchant, originator : Merchant,
           discount : Nat, min_charge : Nat]

Payment == [status : PaymentStatus, pay_channel : Channel, merchant : Merchant,
            coupon : CouponId \cup {NoCoupon}, order_price : Nat,
            platform_share : Nat, inviter_share : Nat, originator_share : Nat]

\* A row of the Transaction table; channel is that of its content_object.
Row == [account : Account, channel : Channel, amount : Int, after : Int]

ASSUME AccountAssumption ==
  /\ Merchant # {}
  /\ Platform \notin Merchant \cup Marketer
  /\ Merchant \cap Marketer = {}
  /\ NoMarketer \notin {Platform} \cup Merchant \cup Marketer
  /\ Inviter \in [Merchant -> Marketer \cup {NoMarketer}]
  /\ Enterprise \subseteq Merchant

ASSUME BoundAssumption ==
  /\ PlatformFloat \in Nat
  /\ OrderPrice \subseteq Nat \ {0}
  /\ Amount \subseteq Nat
  /\ NPayments \in Nat
  /\ NCoupons \in Nat

\* What CouponRuleSerializer.validate and grant_coupons establish for every
\* coupon that is granted.
ASSUME CouponAssumption ==
  /\ InitialCoupons \in Seq(Coupon)
  /\ Len(InitialCoupons) <= NCoupons
  /\ \A c \in 1..Len(InitialCoupons) :
       /\ InitialCoupons[c].status = "NOT_USED"
       /\ InitialCoupons[c].rule # InitialCoupons[c].originator
       /\ InitialCoupons[c].discount < InitialCoupons[c].min_charge

VARIABLES
  payments,      \* the Payment table, by serial number
  refunds,       \* status of the Refund row of each payment
  coupons,       \* the Coupon table
  balance,       \* balance / alipay_balance of each purse
  withdrawable,  \* withdrawable_balance / alipay_withdrawable_balance
  paidOut,       \* sum of the FINISHED Withdraw, Settlement and
                 \* TransferRecord rows of each purse
  rows           \* Transaction rows written by the last transaction

vars == <<payments, refunds, coupons, balance, withdrawable, paidOut, rows>>

-----------------------------------------------------------------------------
(* What a payment record means *)

HasCoupon(x) == x.coupon # NoCoupon
Discount(x) == IF HasCoupon(x) THEN coupons[x.coupon].discount ELSE 0
PaidPrice(x) == x.order_price - Discount(x)
MerchantPart(x) == PaidPrice(x) - TotalShare(x)

\* Money of a purse moves by d.
Add(f, purse, d) == [f EXCEPT ![purse] = @ + d]

\* The next free row of the Coupon table.
Fresh(c) == /\ c \in CouponId
            /\ coupons[c].status = "NONE"
            /\ \A k \in CouponId : k < c => coupons[k].status # "NONE"

\* Mutant of ReplaceCoupon: the old coupon is given back as it was.
ReuseCoupon(x) ==
  IF HasCoupon(x) THEN coupons' = [coupons EXCEPT ![x.coupon].status = "NOT_USED"]
                  ELSE UNCHANGED coupons

\* Mutant of ReplaceCoupon: the old coupon is not destroyed.
KeepOldCoupon(x) ==
  IF HasCoupon(x)
  THEN \E c \in CouponId :
         /\ Fresh(c)
         /\ coupons' = [coupons EXCEPT
                          ![c] = [coupons[x.coupon] EXCEPT !.status = "NOT_USED"]]
  ELSE UNCHANGED coupons

\* A coupon whose payment came to nothing is destroyed and the client gets a
\* new one with the same terms (base.py:208-224, wechat.py:170-185).
ReplaceCoupon(x) ==
  IF HasCoupon(x)
  THEN \E c \in CouponId :
         /\ Fresh(c)
         /\ coupons' = [coupons EXCEPT
                          ![x.coupon].status = "DESTROYED",
                          ![c] = [coupons[x.coupon] EXCEPT !.status = "NOT_USED"]]
  ELSE UNCHANGED coupons

-----------------------------------------------------------------------------
(* Orders *)

\* PlaceOrder and place_order of both channels: the coupon is taken by a
\* conditional UPDATE in the transaction that creates the payment.
PlaceOrder(p, ch, m, c, price) ==
  LET with_coupon == c # NoCoupon
      discount == IF with_coupon THEN coupons[c].discount ELSE 0
      shares == SharesOf(price - discount, with_coupon)
  IN  /\ payments[p].status = "NONE"
      /\ \A q \in Serial : q < p => payments[q].status # "NONE"
      /\ with_coupon => /\ coupons[c].status = "NOT_USED"
                        /\ coupons[c].rule = m
                        /\ price >= coupons[c].min_charge
      /\ payments' = [payments EXCEPT ![p] =
           [status |-> "UNPAID", pay_channel |-> ch, merchant |-> m,
            coupon |-> c, order_price |-> price,
            platform_share |-> shares.platform_share,
            inviter_share |-> shares.inviter_share,
            originator_share |-> shares.originator_share]]
      /\ coupons' = IF with_coupon THEN [coupons EXCEPT ![c].status = "USED"]
                                   ELSE coupons
      /\ rows' = << >>
      /\ UNCHANGED <<refunds, balance, withdrawable, paidOut>>

\* cancel_order of both channels, when the provider accepts the close.
CancelOrder(p) ==
  /\ payments[p].status = "UNPAID"
  /\ payments' = [payments EXCEPT ![p].status = "CANCELLED"]
  /\ ReplaceCoupon(payments[p])
  /\ rows' = << >>
  /\ UNCHANGED <<refunds, balance, withdrawable, paidOut>>

\* PaymentBaseUseCases.on_payment_success
OnPaymentSuccess(p) ==
  LET x == payments[p]
      ch == x.pay_channel
      platform == <<Platform, ch>>
      merchant == <<x.merchant, ch>>
      newPlatform == balance[platform] + TotalShare(x)
      newMerchant == balance[merchant] + MerchantPart(x)
  IN  /\ x.status = "UNPAID"
      /\ payments' = [payments EXCEPT ![p].status = "FROZEN"]
      /\ balance' = Add(Add(balance, platform, TotalShare(x)),
                        merchant, MerchantPart(x))
      /\ rows' = <<[account |-> Platform, channel |-> ch, amount |-> PaidPrice(x),
                    after |-> newPlatform + MerchantPart(x)],
                   [account |-> Platform, channel |-> ch, amount |-> -MerchantPart(x),
                    after |-> newPlatform],
                   [account |-> x.merchant, channel |-> ch, amount |-> MerchantPart(x),
                    after |-> newMerchant]>>
      /\ UNCHANGED <<refunds, coupons, withdrawable, paidOut>>

-----------------------------------------------------------------------------
(* Refunds *)

\* First transaction of request_refund of both channels.  A payment has one
\* Refund row: a retry after a failure re-opens it.
RequestRefund(p) ==
  /\ \/ payments[p].status = "FROZEN"
     \/ payments[p].status = "REFUND_FAILED" /\ refunds[p] # "NONE"
  /\ payments' = [payments EXCEPT ![p].status = "REFUND_REQUESTED"]
  /\ refunds' = [refunds EXCEPT ![p] = "REQUESTED"]
  /\ rows' = << >>
  /\ UNCHANGED <<coupons, balance, withdrawable, paidOut>>

RefundPending(p) == /\ refunds[p] = "REQUESTED"
                    /\ payments[p].status = "REFUND_REQUESTED"

\* Mutant of OnRefundFail: only the payment is saved.
OnRefundFailUnsaved(p) ==
  /\ RefundPending(p)
  /\ payments' = [payments EXCEPT ![p].status = "REFUND_FAILED"]
  /\ rows' = << >>
  /\ UNCHANGED <<refunds, coupons, balance, withdrawable, paidOut>>

\* PaymentBaseUseCases.on_refund_fail
OnRefundFail(p) ==
  /\ RefundPending(p)
  /\ refunds' = [refunds EXCEPT ![p] = "FAILED"]
  /\ payments' = [payments EXCEPT ![p].status = "REFUND_FAILED"]
  /\ rows' = << >>
  /\ UNCHANGED <<coupons, balance, withdrawable, paidOut>>

\* PaymentBaseUseCases.on_refund_success
OnRefundSuccess(p) ==
  LET x == payments[p]
      ch == x.pay_channel
      platform == <<Platform, ch>>
      merchant == <<x.merchant, ch>>
      newPlatform == balance[platform] - TotalShare(x)
      newMerchant == balance[merchant] - MerchantPart(x)
  IN  /\ RefundPending(p)
      /\ refunds' = [refunds EXCEPT ![p] = "FINISHED"]
      /\ payments' = [payments EXCEPT ![p].status = "REFUND"]
      /\ balance' = Add(Add(balance, merchant, -MerchantPart(x)),
                        platform, -TotalShare(x))
      /\ ReplaceCoupon(x)
      /\ rows' = <<[account |-> x.merchant, channel |-> ch, amount |-> -MerchantPart(x),
                    after |-> newMerchant],
                   [account |-> Platform, channel |-> ch, amount |-> MerchantPart(x),
                    after |-> newPlatform + PaidPrice(x)],
                   [account |-> Platform, channel |-> ch, amount |-> -PaidPrice(x),
                    after |-> newPlatform]>>
      /\ UNCHANGED <<withdrawable, paidOut>>

-----------------------------------------------------------------------------
(* The end of the freeze period *)

\* PaymentBaseUseCases.on_payment_unfreeze with a coupon: needs an inviter
\* and four different accounts.
UnfreezeShared(p) ==
  LET x == payments[p]
      ch == x.pay_channel
      originator == coupons[x.coupon].originator
      inviter == Inviter[x.merchant]
      newPlatform == balance[<<Platform, ch>>]
                       - (x.originator_share + x.inviter_share)
      PlatformRow(n, after) ==
        [account |-> Platform, channel |-> ch, amount |-> n, after |-> after]
  IN  /\ x.status = "FROZEN"
      /\ HasCoupon(x)
      /\ inviter # NoMarketer
      /\ originator # x.merchant
      /\ payments' = [payments EXCEPT ![p].status = "FINISHED"]
      /\ balance' = Add(Add(Add(balance,
                      <<Platform, ch>>, -(x.originator_share + x.inviter_share)),
                      <<originator, ch>>, x.originator_share),
                      <<inviter, ch>>, x.inviter_share)
      /\ withdrawable' = Add(Add(Add(withdrawable,
                           <<originator, ch>>, x.originator_share),
                           <<inviter, ch>>, x.inviter_share),
                           <<x.merchant, ch>>, MerchantPart(x))
      /\ rows' = <<PlatformRow(-x.originator_share, newPlatform + x.inviter_share),
                   PlatformRow(-x.inviter_share, newPlatform),
                   PlatformRow(-x.platform_share, newPlatform - x.platform_share),
                   PlatformRow(x.platform_share, newPlatform),
                   [account |-> originator, channel |-> ch,
                    amount |-> x.originator_share,
                    after |-> balance[<<originator, ch>>] + x.originator_share],
                   [account |-> inviter, channel |-> ch,
                    amount |-> x.inviter_share,
                    after |-> balance[<<inviter, ch>>] + x.inviter_share]>>
      /\ UNCHANGED <<refunds, coupons, paidOut>>

\* Mutant of UnfreezePlain: the status is not tested again under the lock.
UnfreezeUnchecked(p) ==
  LET x == payments[p]
  IN  /\ x.status \in {"FROZEN", "FINISHED"}
      /\ ~HasCoupon(x)
      /\ payments' = [payments EXCEPT ![p].status = "FINISHED"]
      /\ withdrawable' = Add(withdrawable, <<x.merchant, x.pay_channel>>, x.order_price)
      /\ rows' = << >>
      /\ UNCHANGED <<refunds, coupons, balance, paidOut>>

\* on_payment_unfreeze without a coupon
UnfreezePlain(p) ==
  LET x == payments[p]
  IN  /\ x.status = "FROZEN"
      /\ ~HasCoupon(x)
      /\ payments' = [payments EXCEPT ![p].status = "FINISHED"]
      /\ withdrawable' = Add(withdrawable, <<x.merchant, x.pay_channel>>, x.order_price)
      /\ rows' = << >>
      /\ UNCHANGED <<refunds, coupons, balance, paidOut>>

OnPaymentUnfreeze(p) == UnfreezeShared(p) \/ UnfreezePlain(p)

-----------------------------------------------------------------------------
(* Money that leaves the platform *)

\* Mutant of PayOut: only the withdrawable part is reduced.
PayOutHalf(purse, n) ==
  /\ withdrawable[purse] >= n
  /\ withdrawable' = Add(withdrawable, purse, -n)
  /\ paidOut' = Add(paidOut, purse, n)
  /\ UNCHANGED balance

\* Mutant of PayOut: the balance is tested instead of its withdrawable part.
PayOutOfBalance(purse, n) ==
  /\ balance[purse] >= n
  /\ withdrawable' = Add(withdrawable, purse, -n)
  /\ balance' = Add(balance, purse, -n)
  /\ paidOut' = Add(paidOut, purse, n)

\* The account is saved with n less in a purse.
TakeOut(purse, n) ==
  /\ withdrawable' = Add(withdrawable, purse, -n)
  /\ balance' = Add(balance, purse, -n)
  /\ paidOut' = Add(paidOut, purse, n)

\* A purse pays n to its owner: the guard and the update that _try_withdraw,
\* _try_transfer and settlement share.
PayOut(purse, n) == withdrawable[purse] >= n /\ TakeOut(purse, n)

\* Mutant of PayOutRow: the balance is read before it is reduced.
PayOutRowEarly(purse, n) ==
  [account |-> purse[1], channel |-> purse[2], amount |-> -n,
   after |-> balance[purse]]

\* The Transaction row of a payout
PayOutRow(purse, n) ==
  [account |-> purse[1], channel |-> purse[2], amount |-> -n,
   after |-> balance[purse] - n]

\* _try_withdraw of both channels, when the provider pays
Withdraw(a, ch, n) ==
  /\ n > 0
  /\ PayOut(<<a, ch>>, n)
  /\ rows' = <<PayOutRow(<<a, ch>>, n)>>
  /\ UNCHANGED <<payments, refunds, coupons>>

\* AlipayUseCases._try_transfer: the platform pays n to check an account
Transfer(n) ==
  /\ n > 0
  /\ PayOut(<<Platform, "ALIPAY">>, n)
  /\ rows' = <<PayOutRow(<<Platform, "ALIPAY">>, n)>>
  /\ UNCHANGED <<payments, refunds, coupons>>

\* SettlementUseCase.settlement: both channels of a merchant in one step.  When
\* the timer settles, how much, and that a day is not settled twice, is left
\* to module Settlement: here any merchant the timer may reach can be settled
\* with any amounts.
Settle(m, wechat_amount, alipay_amount) ==
  LET w == <<m, "WECHAT">>
      a == <<m, "ALIPAY">>
  IN  /\ wechat_amount > 0 \/ alipay_amount > 0
      /\ balance[w] >= wechat_amount /\ withdrawable[w] >= wechat_amount
      /\ balance[a] >= alipay_amount /\ withdrawable[a] >= alipay_amount
      /\ balance' = Add(Add(balance, w, -wechat_amount), a, -alipay_amount)
      /\ withdrawable' = Add(Add(withdrawable, w, -wechat_amount), a, -alipay_amount)
      /\ paidOut' = Add(Add(paidOut, w, wechat_amount), a, alipay_amount)
      /\ rows' = <<PayOutRow(w, wechat_amount), PayOutRow(a, alipay_amount)>>
      /\ UNCHANGED <<payments, refunds, coupons>>

-----------------------------------------------------------------------------
NoPayment ==
  [status |-> "NONE", pay_channel |-> "WECHAT",
   merchant |-> CHOOSE m \in Merchant : TRUE, coupon |-> NoCoupon,
   order_price |-> 0, platform_share |-> 0, inviter_share |-> 0,
   originator_share |-> 0]

NoCouponRow ==
  [status |-> "NONE", rule |-> CHOOSE m \in Merchant : TRUE,
   originator |-> CHOOSE m \in Merchant : TRUE, discount |-> 0, min_charge |-> 0]

InitialMoney(purse) == IF purse = <<Platform, "ALIPAY">> THEN PlatformFloat ELSE 0

Init ==
  /\ payments = [p \in Serial |-> NoPayment]
  /\ refunds = [p \in Serial |-> "NONE"]
  /\ coupons = [c \in CouponId |->
                  IF c \in 1..Len(InitialCoupons) THEN InitialCoupons[c]
                                                  ELSE NoCouponRow]
  /\ balance = [purse \in Purse |-> InitialMoney(purse)]
  /\ withdrawable = [purse \in Purse |-> InitialMoney(purse)]
  /\ paidOut = [purse \in Purse |-> 0]
  /\ rows = << >>

PaymentStep(p) ==
  \/ \E ch \in Channel, m \in Merchant, c \in CouponId \cup {NoCoupon},
        price \in OrderPrice : PlaceOrder(p, ch, m, c, price)
  \/ CancelOrder(p)
  \/ OnPaymentSuccess(p)
  \/ RequestRefund(p)
  \/ OnRefundFail(p)
  \/ OnRefundSuccess(p)
  \/ OnPaymentUnfreeze(p)

MoneyOut ==
  \/ \E a \in Merchant \cup Marketer, ch \in Channel, n \in Amount : Withdraw(a, ch, n)
  \/ \E n \in Amount : Transfer(n)
  \/ \E m \in Enterprise, w \in Amount, a \in Amount : Settle(m, w, a)

Next == (\E p \in Serial : PaymentStep(p)) \/ MoneyOut

Spec == Init /\ [][Next]_vars

-----------------------------------------------------------------------------
(* Properties *)

\* Every variable has its type.
TypeOK ==
  /\ payments \in [Serial -> Payment]
  /\ refunds \in [Serial -> RefundStatus]
  /\ coupons \in [CouponId -> Coupon]
  /\ balance \in [Purse -> Int]
  /\ withdrawable \in [Purse -> Int]
  /\ paidOut \in [Purse -> Int]
  /\ rows \in Seq(Row)

\* The money of payment x that account a has, and may not withdraw until the
\* freeze ends, ...
FrozenPart(x, a) == (IF a = Platform THEN TotalShare(x) ELSE 0)
                      + (IF a = x.merchant THEN MerchantPart(x) ELSE 0)

\* ... keeps for good without being able to withdraw it, ...
KeptPart(x, a) == IF a = Platform THEN x.platform_share ELSE 0

\* ... and may withdraw when the freeze has ended.
ReleasedPart(x, a) ==
  (IF a = x.merchant THEN MerchantPart(x) ELSE 0)
    + (IF HasCoupon(x) /\ a = coupons[x.coupon].originator THEN x.originator_share ELSE 0)
    + (IF HasCoupon(x) /\ a = Inviter[x.merchant] THEN x.inviter_share ELSE 0)

Held(x, a) ==
  CASE x.status \in {"FROZEN", "REFUND_REQUESTED", "REFUND_FAILED"} -> FrozenPart(x, a)
    [] x.status = "FINISHED" -> KeptPart(x, a)
    [] OTHER -> 0

Released(x, a) == IF x.status = "FINISHED" THEN ReleasedPart(x, a) ELSE 0

\* the terms of purse <<a, ch>>, one per payment
HeldOf(a, ch) == [p \in Serial |-> IF payments[p].pay_channel = ch
                                   THEN Held(payments[p], a) ELSE 0]
ReleasedOf(a, ch) == [p \in Serial |-> IF payments[p].pay_channel = ch
                                       THEN Released(payments[p], a) ELSE 0]

\* The frozen part of every balance is exactly the money of the payments
\* that are still frozen or in a refund, channel by channel: on_refund_success
\* and on_payment_unfreeze take back or release what on_payment_success put
\* there, no more and no less, in whatever order payments, refunds and
\* withdrawals interleave.
FrozenMoneyMatchesPayments ==
  \A a \in Account, ch \in Channel :
    balance[<<a, ch>>] - withdrawable[<<a, ch>>] = SumTo(HeldOf(a, ch), NPayments)

\* The withdrawable part of every balance is what finished payments released
\* to that account minus what was paid out of it: nobody is paid twice for a
\* payment, and no payment is paid out that was refunded.
WithdrawableMatchesPayments ==
  \A a \in Account, ch \in Channel :
    withdrawable[<<a, ch>>] = InitialMoney(<<a, ch>>)
                                + SumTo(ReleasedOf(a, ch), NPayments)
                                - paidOut[<<a, ch>>]

\* No purse is overdrawn, and a refund never reaches into money that was
\* already withdrawable: 0 <= withdrawable <= balance for every purse.
NoOverdraft ==
  \A purse \in Purse : /\ 0 <= withdrawable[purse]
                       /\ withdrawable[purse] <= balance[purse]

\* The Refund row and its payment agree: the status pair that
\* on_refund_success, on_refund_fail and request_refund test is never torn.
RefundMatchesPayment ==
  \A p \in Serial :
    /\ refunds[p] = "REQUESTED" <=> payments[p].status = "REFUND_REQUESTED"
    /\ refunds[p] = "FAILED" <=> payments[p].status = "REFUND_FAILED"
    /\ refunds[p] = "FINISHED" <=> payments[p].status = "REFUND"

\* A coupon that is spent is spent by one payment, it is destroyed exactly
\* when that payment came to nothing, and a coupon nobody used is attached to
\* no payment.
CouponMatchesPayment ==
  /\ \A p, q \in Serial : payments[p].coupon = payments[q].coupon
                            => p = q \/ payments[p].coupon = NoCoupon
  /\ \A p \in Serial : HasCoupon(payments[p]) =>
       coupons[payments[p].coupon].status =
         IF payments[p].status \in {"CANCELLED", "REFUND"} THEN "DESTROYED" ELSE "USED"
  /\ \A c \in CouponId : coupons[c].status \in {"USED", "DESTROYED"}
       => \E p \in Serial : payments[p].coupon = c

\* Coupons are neither lost nor duplicated: as many are usable or in use as
\* were granted, however often orders are cancelled or refunded.
CouponsConserved ==
  Cardinality({c \in CouponId : coupons[c].status \in {"NOT_USED", "USED"}})
    = Len(InitialCoupons)

\* Every coupon is where the payments say it is, through order, cancel and refund.
CouponsAreAccounted == CouponMatchesPayment /\ CouponsConserved

\* Of each payment that was paid, the shares and the part of the merchant are
\* not negative, so no participant is charged for a sale.
PartsNotNegative ==
  \A p \in Serial : payments[p].status # "NONE" => MerchantPart(payments[p]) >= 0

\* The amount that the rows of purse <<a, ch>> lead to, read in order from
\* start, and whether each of them states the balance it leaves.
RowsLead(rs, a, ch, start) ==
  LET n == Len(rs)
      run[i \in 0..n] ==
        IF i = 0 THEN [sum |-> start, ok |-> TRUE]
        ELSE IF rs[i].account = a /\ rs[i].channel = ch
             THEN [sum |-> run[i - 1].sum + rs[i].amount,
                   ok  |-> run[i - 1].ok
                             /\ rs[i].after = run[i - 1].sum + rs[i].amount]
             ELSE run[i - 1]
  IN  run[n]

\* The Transaction rows a transaction writes are a statement of account: read
\* in order, each states the balance it leaves (balance_after_transaction),
\* and together they lead from the old balance of the purse to the new one.
RowsExplainBalances ==
  [][\A a \in Account, ch \in Channel :
       LET lead == RowsLead(rows', a, ch, balance[<<a, ch>>])
       IN  lead.ok /\ lead.sum = balance'[<<a, ch>>]]_vars

=============================================================================
