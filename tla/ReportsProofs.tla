---------------------------- MODULE ReportsProofs ----------------------------
(***************************************************************************)
(* Theorems of Reports: in every state the reports count the same sales,   *)
(* explain the balances of all owners, and no bill forgets a sale that was *)
(* released on the day of its order.                                       *)
(*                                                                         *)
(* A report sums rows or sales that it groups by day, by month, by channel *)
(* or by owner.  The argument has two halves.  The invariants (SalesAreKept*)
(* and BooksAreKept) say which rows there are: one for each event of a     *)
(* payment, one for each withdrawal.  The lemmas on sums say that grouping *)
(* does not change a total and that sets that correspond one to one have   *)
(* equal ones.                                                             *)
(***************************************************************************)
EXTENDS Reports, TreasuryProofs

USE AccountAssumption, BoundAssumption, DayAssumption, ReportAssumption

-----------------------------------------------------------------------------
(* Sales and their days *)

\* A serial number that was not given away says nothing.
UnplacedSaysNothing == \A p \in Serial : payments[p].status = "NONE" => payments[p] = NoPayment

\* Each order has its day.
PlacedHasDay ==
  /\ day \in Day
  /\ \A p \in Serial : payments[p].status # "NONE" => placed[p] \in 1..day

\* A coupon is used where its rule says.
CouponIsOfMerchant ==
  \A p \in Serial : HasCoupon(payments[p]) =>
    coupons[payments[p].coupon].rule = payments[p].merchant

SalesAreKept ==
  /\ LedgerInvariant
  /\ CouponTables
  /\ SettlementTypeOK
  /\ UnplacedSaysNothing
  /\ PlacedHasDay
  /\ CouponIsOfMerchant

\* What a step of payment p does to it
PaymentMoves(p) ==
  /\ payments'[p].status # "NONE"
  /\ payments[p].status # "NONE" => StatusBecomes(p, payments'[p].status)
  /\ payments[p].status = "NONE" =>
       /\ payments'[p].status = "UNPAID"
       /\ HasCoupon(payments'[p]) =>
            /\ coupons[payments'[p].coupon].status # "NONE"
            /\ coupons[payments'[p].coupon].rule = payments'[p].merchant

LEMMA StepMoves ==
  ASSUME TypeOK, NEW p \in Serial, PaymentStep(p)
  PROVE  PaymentMoves(p)
<1>0. payments \in [Serial -> Payment] /\ payments[p] \in Payment
  BY DEF TypeOK
<1>1. ASSUME NEW ch \in Channel, NEW m \in Merchant, NEW c \in CouponId \cup {NoCoupon},
             NEW price \in OrderPrice, PlaceOrder(p, ch, m, c, price)
      PROVE  PaymentMoves(p)
  <2>1. /\ payments[p].status = "NONE" /\ payments'[p].status = "UNPAID"
        /\ payments'[p].coupon = c /\ payments'[p].merchant = m
    BY <1>0, <1>1 DEF PlaceOrder
  <2>2. c # NoCoupon => coupons[c].status = "NOT_USED" /\ coupons[c].rule = m
    BY <1>1 DEF PlaceOrder
  <2>3. QED
    BY <2>1, <2>2 DEF PaymentMoves, HasCoupon
<1>2. ASSUME NEW s \in PaymentStatus, payments' = [payments EXCEPT ![p].status = s],
             payments[p].status # "NONE", s # "NONE"
      PROVE  PaymentMoves(p)
  <2>1. payments'[p] = [payments[p] EXCEPT !.status = s]
    BY <1>0, <1>2
  <2>2. StatusBecomes(p, s)
    BY <1>0, <2>1 DEF Payment, StatusBecomes
  <2>3. payments'[p].status = s
    BY <2>2 DEF StatusBecomes
  <2>4. QED
    BY <1>2, <2>2, <2>3 DEF PaymentMoves
<1>3. CASE CancelOrder(p)
  BY <1>2, <1>3 DEF CancelOrder, PaymentStatus
<1>4. CASE OnPaymentSuccess(p)
  BY <1>2, <1>4 DEF OnPaymentSuccess, PaymentStatus
<1>5. CASE RequestRefund(p)
  BY <1>2, <1>5 DEF RequestRefund, PaymentStatus
<1>6. CASE OnRefundFail(p)
  BY <1>2, <1>6 DEF OnRefundFail, RefundPending, PaymentStatus
<1>7. CASE OnRefundSuccess(p)
  BY <1>2, <1>7 DEF OnRefundSuccess, RefundPending, PaymentStatus
<1>8. CASE OnPaymentUnfreeze(p)
  BY <1>2, <1>8 DEF OnPaymentUnfreeze, UnfreezeShared, UnfreezePlain, PaymentStatus
<1>9. QED
  BY <1>1, <1>3, <1>4, <1>5, <1>6, <1>7, <1>8 DEF PaymentStep

\* Every transaction of a sale is a step of one payment.
LEMMA SaleIsPaymentStep ==
  ASSUME SaleStep
  PROVE  /\ \E p \in Serial : PaymentStep(p)
         /\ Dated /\ day' = day /\ bills' = bills /\ agenda' = agenda /\ runs' = runs
         /\ withdraws' = withdraws
<1>1. PICK p \in Serial : OpenOrder(p) \/ Receive(p) \/ ReturnMoney(p) \/ Unfreeze(p)
  BY DEF SaleStep
<1>2. PaymentStep(p)
  BY <1>1 DEF OpenOrder, Receive, ReturnMoney, Unfreeze, PaymentStep, OnPaymentUnfreeze
<1>3. QED
  BY <1>2 DEF SaleStep

\* A step that leaves the payments, the coupons and the days of the orders
\* alone.
SalesUntouched == payments' = payments /\ coupons' = coupons /\ placed' = placed

\* All other steps leave the sales alone.
LEMMA OthersLeaveSales ==
  ASSUME [ReportsNext]_reports, SettlementTypeOK
  PROVE  SaleStep \/ (SalesUntouched /\ day' \in {day, day + 1} /\ (day' # day => day < MaxDay))
<1>1. ASSUME NEW a \in Person, NEW ch \in Channel, NEW n \in Amount, WithdrawStep(a, ch, n)
      PROVE  SalesUntouched /\ day' = day
  BY <1>1 DEF WithdrawStep, Withdraw, SalesUntouched, days, vars
<1>2. CASE StartSettlement
  BY <1>2 DEF StartSettlement, SalesUntouched, vars
<1>3. ASSUME NEW b \in agenda, SettleStep(b)
      PROVE  SalesUntouched /\ day' = day
  BY <1>3 DEF SettleStep, SettleBill, Settle, SalesUntouched, vars
<1>4. ASSUME NEW m \in Enterprise, NEW i \in DOMAIN bills[m], MarkFinished(m, i)
      PROVE  SalesUntouched /\ day' = day
  BY <1>4 DEF MarkFinished, SalesUntouched, vars
<1>5. CASE DayPasses
  BY <1>5 DEF DayPasses, SalesUntouched, vars
<1>6. CASE UNCHANGED reports
  BY <1>6 DEF reports, vars, days, SalesUntouched
<1>7. CASE StartSettlement /\ UNCHANGED books
  BY <1>2, <1>7 DEF StartSettlement
<1>8. QED
  BY <1>1, <1>2, <1>3, <1>4, <1>5, <1>6, <1>7 DEF ReportsNext, StartSettlement

\* No step unbalances the ledger.
LEMMA ReportsKeepLedger ==
  ASSUME LedgerInvariant, SettlementTypeOK, [ReportsNext]_reports
  PROVE  LedgerInvariant'
<1>1. CASE SaleStep
  <2>1. \E p \in Serial : PaymentStep(p)
    BY <1>1, SaleIsPaymentStep
  <2>2. QED
    BY <2>1, NextLedger DEF Next
<1>2. ASSUME NEW a \in Person, NEW ch \in Channel, NEW n \in Amount, WithdrawStep(a, ch, n)
      PROVE  LedgerInvariant'
  <2>1. Withdraw(a, ch, n) \/ vars' = vars
    BY <1>2 DEF WithdrawStep
  <2>2. QED
    BY <2>1, NextLedger DEF Next, MoneyOut, Person
<1>3. ASSUME NEW b \in agenda, SettleStep(b)
      PROVE  LedgerInvariant'
  <2>1. b.merchant \in Enterprise /\ b.wechat \in Nat /\ b.alipay \in Nat
    BY DEF SettlementTypeOK, DueBill
  <2>2. Settle(b.merchant, b.wechat, b.alipay) \/ vars' = vars
    BY <1>3 DEF SettleStep, SettleBill
  <2>3. CASE vars' = vars
    BY <2>3, NextLedger
  <2>4. CASE Settle(b.merchant, b.wechat, b.alipay)
    <3>1. TypeOK'
      BY <2>1, <2>4, SettleType DEF LedgerInvariant
    <3>2. QED
      BY <2>1, <2>4, <3>1, SettleLedger
  <2>5. QED
    BY <2>2, <2>3, <2>4
<1>4. ASSUME \/ StartSettlement \/ DayPasses \/ UNCHANGED reports
             \/ \E m \in Enterprise : \E i \in DOMAIN bills[m] : MarkFinished(m, i)
      PROVE  LedgerInvariant'
  <2>1. vars' = vars
    BY <1>4 DEF StartSettlement, DayPasses, MarkFinished, reports
  <2>2. QED
    BY <2>1, NextLedger
<1>5. QED
  BY <1>1, <1>2, <1>3, <1>4 DEF ReportsNext

\* An entry of the agenda
LEMMA DueBillType ==
  ASSUME LedgerInvariant, SettlementTypeOK, NEW m \in Enterprise
  PROVE  [run |-> runs, merchant |-> m, day |-> day, wechat |-> Billed(m, "WECHAT"),
          alipay |-> Billed(m, "ALIPAY")] \in DueBill
<1>1. Billed(m, "WECHAT") \in Nat /\ Billed(m, "ALIPAY") \in Nat
  BY BilledIsEarned DEF LedgerInvariant
<1>2. QED
  BY <1>1 DEF SettlementTypeOK, DueBill

\* The tables of the settlement keep their types.
LEMMA ReportsKeepTypes ==
  ASSUME LedgerInvariant, SettlementTypeOK, [ReportsNext]_reports
  PROVE  SettlementTypeOK'
<1>0. /\ day \in Nat /\ placed \in [Serial -> Nat] /\ bills \in [Enterprise -> Seq(Bill)]
      /\ agenda \subseteq DueBill /\ runs \in Nat
  BY DEF SettlementTypeOK
<1>1. CASE SaleStep
  <2>1. /\ Dated /\ day' = day /\ bills' = bills /\ agenda' = agenda /\ runs' = runs
    BY <1>1, SaleIsPaymentStep
  <2>2. QED
    BY <1>0, <2>1 DEF Dated, SettlementTypeOK
<1>2. ASSUME NEW a \in Person, NEW ch \in Channel, NEW n \in Amount, WithdrawStep(a, ch, n)
      PROVE  SettlementTypeOK'
  BY <1>0, <1>2 DEF WithdrawStep, days, SettlementTypeOK
<1>3. CASE StartSettlement
  <2>1. agenda' \subseteq DueBill
    BY <1>0, <1>3, DueBillType DEF StartSettlement
  <2>2. QED
    BY <1>0, <1>3, <2>1 DEF StartSettlement, SettlementTypeOK
<1>4. ASSUME NEW b \in agenda, SettleStep(b)
      PROVE  SettlementTypeOK'
  <2>1. /\ b.merchant \in Enterprise /\ b.wechat \in Nat /\ b.alipay \in Nat /\ b.day \in Nat
    BY <1>0 DEF DueBill
  <2> DEFINE new == [day |-> day, sold |-> b.day - 1, status |-> "PROCESSING",
                     wechat |-> b.wechat, alipay |-> b.alipay]
  <2>2. new \in Bill
    BY <1>0, <2>1 DEF Bill
  <2>3. /\ agenda' = agenda \ {b} /\ day' = day /\ placed' = placed /\ runs' = runs
        /\ bills' = bills \/ bills' = [bills EXCEPT ![b.merchant] = Append(@, new)]
    BY <1>4 DEF SettleStep, SettleBill
  <2> HIDE DEF new
  <2>4. bills' \in [Enterprise -> Seq(Bill)]
    <3>1. Append(bills[b.merchant], new) \in Seq(Bill)
      BY <1>0, <2>1, <2>2
    <3>2. QED
      BY <1>0, <2>1, <2>3, <3>1
  <2>5. QED
    BY <1>0, <2>3, <2>4 DEF SettlementTypeOK
<1>5. ASSUME NEW m \in Enterprise, NEW i \in DOMAIN bills[m], MarkFinished(m, i)
      PROVE  SettlementTypeOK'
  <2>1. bills' = [bills EXCEPT ![m] = [bills[m] EXCEPT ![i] = [bills[m][i] EXCEPT !.status = "FINISHED"]]]
    BY <1>5 DEF MarkFinished
  <2>2. bills[m] \in Seq(Bill)
    BY <1>0
  <2> DEFINE s == bills[m]
             x == [s[i] EXCEPT !.status = "FINISHED"]
  <2>3. s[i] \in Bill
    BY <2>2
  <2>4. x \in Bill
    BY <2>3 DEF Bill
  <2> HIDE DEF x
  <2>5. [s EXCEPT ![i] = x] \in Seq(Bill)
    BY <2>2, <2>4
  <2>6. bills' = [bills EXCEPT ![m] = [s EXCEPT ![i] = x]]
    BY <2>1 DEF x
  <2> HIDE DEF s
  <2>7. bills' \in [Enterprise -> Seq(Bill)]
    BY <1>0, <2>5, <2>6
  <2>8. QED
    BY <1>0, <1>5, <2>7 DEF MarkFinished, SettlementTypeOK
<1>6. CASE DayPasses
  BY <1>0, <1>6 DEF DayPasses, SettlementTypeOK
<1>7. CASE UNCHANGED reports
  BY <1>0, <1>7 DEF reports, days, SettlementTypeOK
<1>8. QED
  BY <1>1, <1>2, <1>3, <1>4, <1>5, <1>6, <1>7 DEF ReportsNext

\* What is known of the sales stays so.
LEMMA NextSales ==
  ASSUME SalesAreKept, [ReportsNext]_reports
  PROVE  SalesAreKept'
<1>0. /\ LedgerInvariant /\ TypeOK /\ CouponTerms /\ CouponExists /\ CouponTables
      /\ SettlementTypeOK /\ UnplacedSaysNothing /\ PlacedHasDay /\ CouponIsOfMerchant
      /\ placed \in [Serial -> Nat] /\ day \in Day
  BY DEF SalesAreKept, LedgerInvariant, SettlementTypeOK, PlacedHasDay
<1>1. LedgerInvariant' /\ TypeOK' /\ SettlementTypeOK'
  BY <1>0, ReportsKeepLedger, ReportsKeepTypes DEF LedgerInvariant
<1>2. CASE SaleStep
  <2>1. PICK p \in Serial : PaymentStep(p)
    BY <1>2, SaleIsPaymentStep
  <2>2. Dated /\ day' = day
    BY <1>2, SaleIsPaymentStep
  <2>3. CouponsKept /\ OthersKept(p)
    BY <1>0, <2>1, PaymentKeeps
  <2>4. PaymentMoves(p)
    BY <1>0, <2>1, StepMoves
  <2>5. CouponTables'
    BY <1>0, <2>1, NextTables DEF Next
  <2>6. UnplacedSaysNothing'
    BY <1>0, <2>3, <2>4 DEF UnplacedSaysNothing, PaymentMoves, OthersKept
  <2>7. PlacedHasDay'
    <3>1. ASSUME NEW q \in Serial, payments'[q].status # "NONE"
          PROVE  placed'[q] \in 1..day
      <4>1. placed'[q] = IF payments[q].status = "NONE" /\ payments'[q].status = "UNPAID"
                         THEN day ELSE placed[q]
        BY <2>2 DEF Dated
      <4>2. CASE payments[q].status # "NONE"
        BY <1>0, <4>1, <4>2 DEF PlacedHasDay
      <4>3. CASE payments[q].status = "NONE"
        <5>1. q = p
          BY <2>3, <3>1, <4>3 DEF OthersKept
        <5>2. placed'[q] = day
          BY <2>4, <4>1, <4>3, <5>1 DEF PaymentMoves
        <5>3. QED
          BY <1>0, <5>2 DEF Day
      <4>4. QED
        BY <4>2, <4>3
    <3>2. QED
      BY <1>0, <2>2, <3>1 DEF PlacedHasDay
  <2>8. CouponIsOfMerchant'
    <3>1. ASSUME NEW q \in Serial, HasCoupon(payments'[q])
          PROVE  coupons'[payments'[q].coupon].rule = payments'[q].merchant
      <4>1. CASE q # p \/ payments[q].status # "NONE"
        <5>1. payments'[q].coupon = payments[q].coupon /\ payments'[q].merchant = payments[q].merchant
          BY <2>3, <2>4, <4>1 DEF OthersKept, PaymentMoves, StatusBecomes
        <5>2. HasCoupon(payments[q])
          BY <3>1, <5>1 DEF HasCoupon
        <5>3. /\ coupons[payments[q].coupon].rule = payments[q].merchant
              /\ coupons[payments[q].coupon].status # "NONE"
              /\ payments[q].coupon \in CouponId
          BY <1>0, <5>2, CouponType DEF CouponIsOfMerchant, CouponExists
        <5>4. QED
          BY <2>3, <5>1, <5>3 DEF CouponsKept
      <4>2. CASE q = p /\ payments[q].status = "NONE"
        <5>1. /\ coupons[payments'[q].coupon].status # "NONE"
              /\ coupons[payments'[q].coupon].rule = payments'[q].merchant
          BY <2>4, <3>1, <4>2 DEF PaymentMoves
        <5>2. payments'[q].coupon \in CouponId
          BY <1>1, <3>1 DEF TypeOK, Payment, HasCoupon
        <5>3. QED
          BY <2>3, <5>1, <5>2 DEF CouponsKept
      <4>3. QED
        BY <4>1, <4>2
    <3>2. QED
      BY <3>1 DEF CouponIsOfMerchant, HasCoupon
  <2>9. QED
    BY <1>1, <2>5, <2>6, <2>7, <2>8 DEF SalesAreKept
<1>3. CASE ~SaleStep
  <2>1. SalesUntouched /\ day' \in {day, day + 1} /\ (day' # day => day < MaxDay)
    BY <1>0, <1>3, OthersLeaveSales
  <2>2. CouponTables'
    BY <1>0, <1>1, <2>1, SameTables DEF SalesUntouched
  <2>3. UnplacedSaysNothing' /\ CouponIsOfMerchant'
    BY <1>0, <2>1 DEF UnplacedSaysNothing, CouponIsOfMerchant, SalesUntouched, HasCoupon
  <2>4. PlacedHasDay'
    BY <1>0, <2>1 DEF PlacedHasDay, SalesUntouched, Day
  <2>5. QED
    BY <1>1, <2>2, <2>3, <2>4 DEF SalesAreKept
<1>4. QED
  BY <1>2, <1>3

LEMMA InitSales ==
  ASSUME ReportsInit
  PROVE  SalesAreKept
<1>1. LedgerInvariant /\ CouponTables
  BY InitLedger, InitCoupons DEF ReportsInit, CouponInvariant
<1>2. SettlementTypeOK
  BY DEF ReportsInit, SettlementInit, SettlementTypeOK
<1>3. /\ \A p \in Serial : payments[p] = NoPayment
      /\ day \in Day
  BY DEF ReportsInit, Init, SettlementInit, Day
<1>4. NoPayment.status = "NONE" /\ ~HasCoupon(NoPayment)
  BY DEF NoPayment, HasCoupon
<1>5. UnplacedSaysNothing /\ PlacedHasDay /\ CouponIsOfMerchant
  BY <1>3, <1>4 DEF UnplacedSaysNothing, PlacedHasDay, CouponIsOfMerchant, HasCoupon
<1>6. QED
  BY <1>1, <1>2, <1>5 DEF SalesAreKept

-----------------------------------------------------------------------------
(* Sales released on the day of their order *)

ReleasesAreKept ==
  /\ released \in [Serial -> Nat]
  /\ \A p \in Serial : released[p] # 0 => payments[p].status = "FINISHED" /\ released[p] <= day

\* What the sales of day d that were released on day d left merchant m
SameDayOf(m, d) ==
  [p \in Serial |-> IF payments[p].merchant = m /\ placed[p] = d /\ released[p] = d
                    THEN MerchantPart(payments[p]) ELSE 0]

SameDay(m, d) == SumTo(SameDayOf(m, d), NPayments)

\* Every bill has them, and so has every bill that is still to be settled.
ReleasesAreBilled ==
  /\ \A b \in agenda : /\ b.day <= day
                       /\ SameDay(b.merchant, b.day - 1) <= b.wechat + b.alipay
  /\ \A m \in Enterprise : \A i \in DOMAIN bills[m] :
       /\ bills[m][i].sold < day
       /\ SameDay(m, bills[m][i].sold) <= bills[m][i].wechat + bills[m][i].alipay

\* The part of the merchant, of every payment
LEMMA MerchantParts ==
  ASSUME SalesAreKept, NEW p \in Serial
  PROVE  /\ MerchantPart(payments[p]) \in Int
         /\ MerchantPart(payments[p]) >= 0
         /\ payments[p].status = "NONE" => MerchantPart(payments[p]) = 0
<1>1. TypeOK /\ PartsNotNegative
  BY DEF SalesAreKept, LedgerInvariant
<1>2. MerchantPart(payments[p]) \in Int
  BY <1>1, PartsType
<1>3. payments[p].status = "NONE" => MerchantPart(payments[p]) = 0
  <2>1. payments[p].status = "NONE" =>
          /\ payments[p].order_price = 0 /\ payments[p].platform_share = 0
          /\ payments[p].inviter_share = 0 /\ payments[p].originator_share = 0
          /\ ~HasCoupon(payments[p])
    <3>1. /\ NoPayment.order_price = 0 /\ NoPayment.platform_share = 0
          /\ NoPayment.inviter_share = 0 /\ NoPayment.originator_share = 0
          /\ ~HasCoupon(NoPayment)
      BY DEF NoPayment, HasCoupon
    <3>2. payments[p].status = "NONE" => payments[p] = NoPayment
      BY DEF SalesAreKept, UnplacedSaysNothing
    <3>3. QED
      BY <3>1, <3>2
  <2>2. QED
    BY <2>1 DEF MerchantPart, PaidPrice, Discount, TotalShare
<1>4. QED
  BY <1>1, <1>2, <1>3 DEF PartsNotNegative

LEMMA UnplacedPartsNext ==
  (SalesAreKept => \A p \in Serial : payments[p].status = "NONE" => MerchantPart(payments[p]) = 0)'
<1>1. SalesAreKept => \A p \in Serial : payments[p].status = "NONE" =>
                        MerchantPart(payments[p]) = 0
  BY MerchantParts
<1>2. QED
  BY <1>1, PTL

LEMMA SameDayTerms ==
  ASSUME SalesAreKept, NEW m, NEW d
  PROVE  \A p \in 1..NPayments : SameDayOf(m, d)[p] \in Int /\ SameDayOf(m, d)[p] >= 0
BY MerchantParts DEF SameDayOf, Serial

LEMMA SameDayTermsNext ==
  ASSUME NEW CONSTANT m, NEW CONSTANT d
  PROVE  (SalesAreKept =>
            \A p \in 1..NPayments : SameDayOf(m, d)[p] \in Int /\ SameDayOf(m, d)[p] >= 0)'
<1>1. SalesAreKept =>
        \A p \in 1..NPayments : SameDayOf(m, d)[p] \in Int /\ SameDayOf(m, d)[p] >= 0
  BY SameDayTerms
<1>2. QED
  BY <1>1, PTL

LEMMA SameDayType ==
  ASSUME SalesAreKept, NEW m, NEW d
  PROVE  SameDay(m, d) \in Int
<1> DEFINE f == SameDayOf(m, d)
           N == NPayments
<1>1. (\A p \in 1..N : f[p] \in Int /\ f[p] >= 0) /\ N \in Nat
  BY SameDayTerms
<1> HIDE DEF f, N
<1>2. SumTo(f, N) \in Int
  BY <1>1, SumToNonNegative
<1>3. QED
  BY <1>2 DEF SameDay, f, N

LEMMA SameDayTypeNext ==
  ASSUME NEW CONSTANT m, NEW CONSTANT d
  PROVE  (SalesAreKept => SameDay(m, d) \in Int)'
<1>1. SalesAreKept => SameDay(m, d) \in Int
  BY SameDayType
<1>2. QED
  BY <1>1, PTL

\* The day a payment is released
LEMMA ReleaseStep ==
  ASSUME [ReportsNext]_reports, SettlementTypeOK, released \in [Serial -> Nat], day \in Nat
  PROVE  \/ released' = released
         \/ \E p \in Serial : /\ OnPaymentUnfreeze(p)
                              /\ released' = [released EXCEPT ![p] = day]
                              /\ day' = day
<1>1. CASE SaleStep
  <2>1. PICK p \in Serial : OpenOrder(p) \/ Receive(p) \/ ReturnMoney(p) \/ Unfreeze(p)
    BY <1>1 DEF SaleStep
  <2>2. CASE Unfreeze(p)
    BY <1>1, <2>2, SaleIsPaymentStep DEF Unfreeze, OnPaymentUnfreeze
  <2>3. CASE ~Unfreeze(p)
    BY <2>1, <2>3 DEF OpenOrder, Receive, ReturnMoney
  <2>4. QED
    BY <2>2, <2>3
<1>2. CASE ~SaleStep
  BY <1>2 DEF ReportsNext, WithdrawStep, SettleStep, books, reports
<1>3. QED
  BY <1>1, <1>2

\* A released payment stays as it is, and a payment is released today.
LEMMA NextReleases ==
  ASSUME SalesAreKept, ReleasesAreKept, [ReportsNext]_reports
  PROVE  /\ ReleasesAreKept'
         /\ CouponsKept
         /\ \A p \in Serial : released[p] # 0 => /\ payments'[p] = payments[p]
                                                 /\ placed'[p] = placed[p]
                                                 /\ released'[p] = released[p]
         /\ \A p \in Serial : released[p] = 0 => released'[p] \in {0, day}
<1>0. /\ LedgerInvariant /\ TypeOK /\ CouponTerms /\ CouponExists /\ SettlementTypeOK
      /\ day \in Nat /\ released \in [Serial -> Nat]
  BY DEF SalesAreKept, LedgerInvariant, SettlementTypeOK, ReleasesAreKept
<1>1. CASE SaleStep
  <2>1. PICK p \in Serial : PaymentStep(p)
    BY <1>1, SaleIsPaymentStep
  <2>2. Dated /\ day' = day
    BY <1>1, SaleIsPaymentStep
  <2>3. CouponsKept /\ OthersKept(p) /\ payments[p].status # "FINISHED"
    BY <1>0, <2>1, PaymentKeeps
  <2>4. \A q \in Serial : payments[q].status = "FINISHED" =>
          payments'[q] = payments[q] /\ placed'[q] = placed[q]
    BY <2>2, <2>3 DEF OthersKept, Dated
  <2>5. CASE released' = released
    BY <1>0, <2>2, <2>3, <2>4, <2>5 DEF ReleasesAreKept
  <2>6. ASSUME NEW q \in Serial, OnPaymentUnfreeze(q), released' = [released EXCEPT ![q] = day]
        PROVE  /\ ReleasesAreKept'
               /\ \A r \in Serial : released[r] # 0 => /\ payments'[r] = payments[r]
                                                       /\ placed'[r] = placed[r]
                                                       /\ released'[r] = released[r]
               /\ \A r \in Serial : released[r] = 0 => released'[r] \in {0, day}
    <3>1. /\ payments[q].status = "FROZEN"
          /\ payments' = [payments EXCEPT ![q].status = "FINISHED"]
      BY <2>6 DEF OnPaymentUnfreeze, UnfreezeShared, UnfreezePlain
    <3>2. payments'[q].status = "FINISHED"
      BY <1>0, <3>1 DEF TypeOK, Payment
    <3>3. released[q] = 0
      BY <3>1 DEF ReleasesAreKept
    <3>4. \A r \in Serial : released'[r] = IF r = q THEN day ELSE released[r]
      BY <1>0, <2>6
    <3>5. released' \in [Serial -> Nat]
      BY <1>0, <2>6
    <3>6. ASSUME NEW r \in Serial
          PROVE  /\ released[r] # 0 => /\ payments'[r] = payments[r]
                                       /\ placed'[r] = placed[r]
                                       /\ released'[r] = released[r]
                 /\ released[r] = 0 => released'[r] \in {0, day}
                 /\ released'[r] # 0 => payments'[r].status = "FINISHED" /\ released'[r] <= day'
      BY <1>0, <2>2, <2>4, <3>2, <3>3, <3>4 DEF ReleasesAreKept
    <3>7. QED
      BY <3>5, <3>6 DEF ReleasesAreKept
  <2>7. \/ released' = released
        \/ \E q \in Serial : OnPaymentUnfreeze(q) /\ released' = [released EXCEPT ![q] = day]
    BY <1>0, ReleaseStep
  <2>8. QED
    BY <2>3, <2>5, <2>6, <2>7
<1>2. CASE ~SaleStep
  <2>1. SalesUntouched /\ day' \in {day, day + 1}
    BY <1>0, <1>2, OthersLeaveSales
  <2>2. released' = released
    BY <1>2 DEF ReportsNext, WithdrawStep, SettleStep, books, reports
  <2>3. CouponsKept
    BY <1>0, <2>1, SameCoupons DEF SalesUntouched
  <2>4. QED
    BY <1>0, <2>1, <2>2, <2>3 DEF ReleasesAreKept, SalesUntouched
<1>3. QED
  BY <1>1, <1>2

\* Once a day is over no sale is added to those that were released on it.
LEMMA SameDayStays ==
  ASSUME SalesAreKept, SalesAreKept', ReleasesAreKept, [ReportsNext]_reports,
         NEW CONSTANT m, NEW CONSTANT d, d < day
  PROVE  SameDay(m, d)' <= SameDay(m, d)
<1> DEFINE f == SameDayOf(m, d)
           N == NPayments
<1>0. /\ LedgerInvariant /\ TypeOK /\ CouponExists /\ UnplacedSaysNothing
      /\ PlacedHasDay /\ PlacedHasDay' /\ day \in Nat /\ N \in Nat
  BY DEF SalesAreKept, LedgerInvariant, SettlementTypeOK
<1>1. \A p \in 1..N : f[p] \in Int /\ f[p] >= 0
  BY SameDayTerms
<1>2. \A p \in 1..N : f'[p] \in Int /\ f'[p] >= 0
  BY SameDayTermsNext
<1>3. ASSUME NEW p \in 1..N
      PROVE  f'[p] <= f[p]
  <2>0. p \in Serial
    BY DEF Serial
  <2>1. CASE released[p] # 0
    <3>1. /\ payments'[p] = payments[p] /\ placed'[p] = placed[p]
          /\ released'[p] = released[p] /\ CouponsKept
      BY <2>0, <2>1, NextReleases
    <3>2. MerchantPart(payments[p])' = MerchantPart(payments[p])
      <4>1. HasCoupon(payments[p]) =>
              coupons'[payments[p].coupon].discount = coupons[payments[p].coupon].discount
        BY <1>0, <2>0, <3>1, CouponType DEF CouponExists, CouponsKept
      <4>2. QED
        BY <3>1, <4>1 DEF MerchantPart, PaidPrice, Discount, HasCoupon
    <3>3. f'[p] = f[p]
      BY <2>0, <3>1, <3>2 DEF SameDayOf
    <3>4. QED
      BY <1>1, <3>3
  <2>2. CASE released[p] = 0
    <3>1. released'[p] \in {0, day}
      BY <2>0, <2>2, NextReleases
    <3>2. CASE d # 0 \/ payments'[p].status # "NONE"
      <4>1. ~(placed'[p] = d /\ released'[p] = d)
        BY <1>0, <2>0, <3>1, <3>2 DEF PlacedHasDay
      <4>2. f'[p] = 0
        BY <2>0, <4>1 DEF SameDayOf
      <4>3. QED
        BY <1>1, <4>2
    <3>3. CASE payments'[p].status = "NONE"
      <4>1. f'[p] = 0
        <5>2. MerchantPart(payments[p])' = 0
          BY <2>0, <3>3, UnplacedPartsNext
        <5>3. QED
          BY <2>0, <5>2 DEF SameDayOf
      <4>2. QED
        BY <1>1, <4>1
    <3>4. QED
      BY <3>2, <3>3
  <2>3. QED
    BY <2>1, <2>2
<1> HIDE DEF f, N
<1>4. SumTo(f', N) <= SumTo(f, N)
  BY <1>0, <1>1, <1>2, <1>3, SumToMonotone
<1>5. QED
  BY <1>4 DEF SameDay, f, N

\* The view bills what was released on the day before.
LEMMA SameDayIsBilled ==
  ASSUME SalesAreKept, ReleasesAreKept, NEW m
  PROVE  SameDay(m, day - 1) <= Billed(m, "WECHAT") + Billed(m, "ALIPAY")
<1> DEFINE f == SameDayOf(m, day - 1)
           w == EarnedOf(m, "WECHAT", day - 1)
           a == EarnedOf(m, "ALIPAY", day - 1)
           N == NPayments
           h == [p \in 1..N |-> w[p] + a[p]]
<1>0. /\ TypeOK /\ PartsNotNegative /\ PlacedHasDay /\ N \in Nat
  BY DEF SalesAreKept, LedgerInvariant
<1>1. \A p \in 1..N : f[p] \in Int /\ f[p] >= 0
  BY SameDayTerms
<1>2. /\ Billed(m, "WECHAT") = SumTo(w, N)
      /\ \A p \in 1..N : w[p] \in Int /\ w[p] >= 0
  BY <1>0, EarnedTerms, BilledIsEarned
<1>3. /\ Billed(m, "ALIPAY") = SumTo(a, N)
      /\ \A p \in 1..N : a[p] \in Int /\ a[p] >= 0
  BY <1>0, EarnedTerms, BilledIsEarned
<1>4. ASSUME NEW p \in 1..N
      PROVE  f[p] <= h[p]
  <2>0. p \in Serial
    BY DEF Serial
  <2>1. CASE payments[p].status = "FINISHED"
    <3>1. payments[p].pay_channel \in Channel
      BY <1>0, <2>0 DEF TypeOK, Payment
    <3>2. f[p] <= w[p] \/ f[p] <= a[p]
      <4>1. CASE payments[p].merchant = m /\ placed[p] = day - 1
        <5>1. f[p] = MerchantPart(payments[p]) \/ f[p] = 0
          BY <2>0 DEF SameDayOf
        <5>2. w[p] = MerchantPart(payments[p]) \/ a[p] = MerchantPart(payments[p])
          BY <2>0, <2>1, <3>1, <4>1 DEF EarnedOf, Channel
        <5> HIDE DEF f, w, a
        <5>3. QED
          BY <1>1, <1>2, <1>3, <5>1, <5>2
      <4>2. CASE ~(payments[p].merchant = m /\ placed[p] = day - 1)
        <5>1. f[p] = 0
          BY <2>0, <4>2 DEF SameDayOf
        <5> HIDE DEF f, w, a
        <5>2. QED
          BY <1>2, <5>1
      <4>3. QED
        BY <4>1, <4>2
    <3> HIDE DEF f, w, a
    <3>3. QED
      BY <1>1, <1>2, <1>3, <3>2
  <2>2. CASE payments[p].status # "FINISHED"
    <3>1. released[p] = 0
      BY <2>0, <2>2 DEF ReleasesAreKept
    <3>2. placed[p] # 0 \/ payments[p].status = "NONE"
      BY <1>0, <2>0 DEF PlacedHasDay
    <3>3. f[p] = 0
      BY <2>0, <3>1, <3>2, MerchantParts DEF SameDayOf
    <3> HIDE DEF f, w, a
    <3>4. QED
      BY <1>2, <1>3, <3>3
  <2>3. QED
    BY <2>1, <2>2
<1>5. IsFiniteSet(1..N)
  BY <1>0, FS_Interval
<1> HIDE DEF f, w, a, N
<1>6. \A p \in 1..N : h[p] \in Int /\ h[p] >= 0 /\ h[p] = w[p] + a[p]
  BY <1>2, <1>3
<1> HIDE DEF h
<1>7. SumTo(f, N) <= SumTo(h, N)
  BY <1>0, <1>1, <1>4, <1>6, SumToMonotone
<1>8. SumTo(h, N) = SumFunctionOnSet(h, 1..N)
  BY <1>0, <1>6, SumToIs
<1>9. SumTo(w, N) = SumFunctionOnSet(w, 1..N)
  BY <1>0, <1>2, SumToIs
<1>10. SumTo(a, N) = SumFunctionOnSet(a, 1..N)
  BY <1>0, <1>3, SumToIs
<1>11. SumFunctionOnSet(h, 1..N) = SumFunctionOnSet(w, 1..N) + SumFunctionOnSet(a, 1..N)
  BY <1>2, <1>3, <1>5, <1>6, SumAdds
<1>12. QED
  BY <1>2, <1>3, <1>7, <1>8, <1>9, <1>10, <1>11 DEF SameDay, f, N

\* Where the bills of the next state come from: they were there, or settle an
\* entry of the agenda.
LEMMA BillsComeFrom ==
  ASSUME SettlementTypeOK, [ReportsNext]_reports,
         NEW m \in Enterprise, NEW i \in DOMAIN bills'[m]
  PROVE  \/ /\ i \in DOMAIN bills[m] /\ bills'[m][i].sold = bills[m][i].sold
            /\ bills'[m][i].wechat = bills[m][i].wechat
            /\ bills'[m][i].alipay = bills[m][i].alipay
         \/ \E b \in agenda : /\ b.merchant = m /\ bills'[m][i].sold = b.day - 1
                              /\ bills'[m][i].wechat = b.wechat
                              /\ bills'[m][i].alipay = b.alipay
<1>0. bills \in [Enterprise -> Seq(Bill)]
  BY DEF SettlementTypeOK
<1>1. CASE bills' = bills
  BY <1>1
<1>2. ASSUME NEW b \in agenda, SettleStep(b)
      PROVE  \/ /\ i \in DOMAIN bills[m] /\ bills'[m][i].sold = bills[m][i].sold
                /\ bills'[m][i].wechat = bills[m][i].wechat
                /\ bills'[m][i].alipay = bills[m][i].alipay
             \/ /\ b.merchant = m /\ bills'[m][i].sold = b.day - 1
                /\ bills'[m][i].wechat = b.wechat
                /\ bills'[m][i].alipay = b.alipay
  <2> DEFINE n == b.merchant
             new == [day |-> day, sold |-> b.day - 1, status |-> "PROCESSING",
                     wechat |-> b.wechat, alipay |-> b.alipay]
  <2>1. bills' = bills \/ bills' = [bills EXCEPT ![n] = Append(@, new)]
    BY <1>2 DEF SettleStep, SettleBill
  <2>2. CASE bills' = bills
    BY <2>2
  <2>3. CASE bills' = [bills EXCEPT ![n] = Append(@, new)]
    <3>1. /\ new.sold = b.day - 1 /\ new.wechat = b.wechat /\ new.alipay = b.alipay
          /\ new \in Bill
      <4>1. b \in DueBill /\ day \in Nat
        BY DEF SettlementTypeOK
      <4>2. QED
        BY <4>1 DEF DueBill, Bill
    <3> DEFINE s == bills[n]
    <3>2. n \in Enterprise
      BY DEF SettlementTypeOK, DueBill
    <3>3. s \in Seq(Bill)
      BY <1>0, <3>2
    <3> HIDE DEF n, new
    <3>4. CASE m = n
      <4>1. bills'[m] = Append(s, new)
        BY <1>0, <2>3, <3>4
      <4>2. i \in 1..Len(s) \/ i = Len(s) + 1
        BY <3>1, <3>3, <4>1
      <4>3. CASE i \in 1..Len(s)
        BY <3>1, <3>3, <3>4, <4>1, <4>3
      <4>4. CASE i = Len(s) + 1
        <5>1. bills'[m][i] = new
          BY <3>1, <3>3, <4>1, <4>4
        <5>2. QED
          BY <3>1, <3>4, <5>1 DEF n
      <4>5. QED
        BY <4>2, <4>3, <4>4
    <3>5. CASE m # n
      <4>1. bills'[m] = bills[m]
        BY <1>0, <2>3, <3>5
      <4>2. QED
        BY <4>1
    <3>6. QED
      BY <3>4, <3>5
  <2>4. QED
    BY <2>1, <2>2, <2>3
<1>3. ASSUME NEW n \in Enterprise, NEW j \in DOMAIN bills[n], MarkFinished(n, j)
      PROVE  /\ i \in DOMAIN bills[m] /\ bills'[m][i].sold = bills[m][i].sold
             /\ bills'[m][i].wechat = bills[m][i].wechat
             /\ bills'[m][i].alipay = bills[m][i].alipay
  <2> DEFINE s == bills[n]
             x == [s[j] EXCEPT !.status = "FINISHED"]
  <2>1. bills' = [bills EXCEPT ![n] = [s EXCEPT ![j] = x]]
    BY <1>3 DEF MarkFinished
  <2>2. s \in Seq(Bill) /\ s[j] \in Bill
    BY <1>0
  <2>3. x.sold = s[j].sold /\ x.wechat = s[j].wechat /\ x.alipay = s[j].alipay
    BY <2>2 DEF Bill
  <2> HIDE DEF x
  <2>4. CASE m = n
    <3>1. bills'[m] = [s EXCEPT ![j] = x]
      BY <1>0, <2>1, <2>4
    <3>2. i \in DOMAIN s /\ bills'[m][i] = IF i = j THEN x ELSE s[i]
      BY <2>2, <3>1
    <3>3. QED
      BY <2>3, <2>4, <3>2
  <2>5. CASE m # n
    <3>1. bills'[m] = bills[m]
      BY <1>0, <2>1, <2>5
    <3>2. QED
      BY <3>1
  <2>6. QED
    BY <2>4, <2>5
<1>4. CASE SaleStep \/ StartSettlement \/ DayPasses \/ UNCHANGED reports
  <2>1. bills' = bills
    BY <1>4 DEF SaleStep, StartSettlement, DayPasses, reports, days
  <2>2. QED
    BY <1>1, <2>1
<1>5. ASSUME NEW a \in Person, NEW ch \in Channel, NEW n \in Amount, WithdrawStep(a, ch, n)
      PROVE  bills' = bills
  BY <1>5 DEF WithdrawStep, days
<1>6. QED
  BY <1>1, <1>2, <1>3, <1>4, <1>5 DEF ReportsNext

\* And the agenda: entries are added by a view that computes them today.
LEMMA AgendaComesFrom ==
  ASSUME [ReportsNext]_reports, NEW b \in agenda'
  PROVE  \/ b \in agenda
         \/ /\ StartSettlement /\ b.merchant \in Enterprise /\ b.day = day
            /\ b.wechat = Billed(b.merchant, "WECHAT")
            /\ b.alipay = Billed(b.merchant, "ALIPAY")
<1>1. CASE SaleStep \/ DayPasses \/ UNCHANGED reports
  BY <1>1 DEF SaleStep, DayPasses, reports, days
<1>2. ASSUME NEW a \in Person, NEW ch \in Channel, NEW n \in Amount, WithdrawStep(a, ch, n)
      PROVE  b \in agenda
  BY <1>2 DEF WithdrawStep, days
<1>3. CASE StartSettlement
  BY <1>3 DEF StartSettlement
<1>4. ASSUME NEW c \in agenda, SettleStep(c)
      PROVE  b \in agenda
  BY <1>4 DEF SettleStep, SettleBill
<1>5. ASSUME NEW m \in Enterprise, NEW i \in DOMAIN bills[m], MarkFinished(m, i)
      PROVE  b \in agenda
  BY <1>5 DEF MarkFinished
<1>6. QED
  BY <1>1, <1>2, <1>3, <1>4, <1>5 DEF ReportsNext

LEMMA NextReleasesBilled ==
  ASSUME SalesAreKept, ReleasesAreKept, ReleasesAreBilled, [ReportsNext]_reports
  PROVE  ReleasesAreBilled'
<1>0. /\ SalesAreKept' /\ LedgerInvariant /\ SettlementTypeOK /\ SettlementTypeOK'
      /\ day \in Nat /\ day' \in Nat /\ day <= day'
  <2>1. SalesAreKept'
    BY NextSales
  <2>2. SettlementTypeOK /\ SettlementTypeOK' /\ LedgerInvariant
    BY <2>1 DEF SalesAreKept
  <2>3. day \in Nat
    BY <2>2 DEF SettlementTypeOK
  <2>4. day' = day \/ day' = day + 1
    <3>1. SaleStep => day' = day
      BY SaleIsPaymentStep
    <3>2. QED
      BY <2>2, <3>1, OthersLeaveSales
  <2>5. QED
    BY <2>1, <2>2, <2>3, <2>4
<1>1. ASSUME NEW CONSTANT m, NEW CONSTANT d, d < day
      PROVE  /\ SameDay(m, d)' <= SameDay(m, d)
             /\ SameDay(m, d)' \in Int /\ SameDay(m, d) \in Int
  <2>1. SameDay(m, d)' <= SameDay(m, d)
    BY <1>0, <1>1, SameDayStays
  <2>2. SameDay(m, d) \in Int
    BY SameDayType
  <2>3. SameDay(m, d)' \in Int
    BY <1>0, SameDayTypeNext
  <2>4. QED
    BY <2>1, <2>2, <2>3
<1>2. ASSUME NEW b \in agenda'
      PROVE  (b.day <= day)' /\ SameDay(b.merchant, b.day - 1)' <= b.wechat + b.alipay
  <2>1. b \in DueBill
    BY <1>0 DEF SettlementTypeOK
  <2>2. /\ b.day \in Nat /\ b.wechat \in Nat /\ b.alipay \in Nat
        /\ b.merchant \in Enterprise
    BY <2>1 DEF DueBill
  <2>3. PICK m \in Enterprise, d \in Int : m = b.merchant /\ d = b.day - 1
    BY <2>2
  <2>4. CASE b \in agenda
    <3>1. b.day <= day /\ SameDay(m, d) <= b.wechat + b.alipay
      BY <2>3, <2>4 DEF ReleasesAreBilled
    <3>2. d < day
      BY <1>0, <2>2, <2>3, <3>1
    <3>3. SameDay(m, d)' <= SameDay(m, d) /\ SameDay(m, d)' \in Int /\ SameDay(m, d) \in Int
      BY <1>1, <3>2
    <3>4. SameDay(m, d)' <= b.wechat + b.alipay
      BY <2>2, <3>1, <3>3
    <3>5. QED
      BY <1>0, <2>2, <2>3, <3>1, <3>4
  <2>5. CASE /\ b.day = day /\ b.wechat = Billed(b.merchant, "WECHAT")
             /\ b.alipay = Billed(b.merchant, "ALIPAY")
    <3>1. SameDay(m, day - 1) <= Billed(m, "WECHAT") + Billed(m, "ALIPAY")
      BY SameDayIsBilled
    <3>2. d < day /\ d = day - 1
      BY <1>0, <2>3, <2>5
    <3>3. SameDay(m, d)' <= SameDay(m, d) /\ SameDay(m, d)' \in Int /\ SameDay(m, d) \in Int
      BY <1>1, <3>2
    <3>4. SameDay(m, d) <= b.wechat + b.alipay
      BY <2>3, <2>5, <3>1, <3>2
    <3>5. SameDay(m, d)' <= b.wechat + b.alipay
      BY <2>2, <3>3, <3>4
    <3>6. QED
      BY <1>0, <2>3, <2>5, <3>5
  <2>6. QED
    BY <2>4, <2>5, AgendaComesFrom
<1>3. ASSUME NEW m \in Enterprise, NEW i \in DOMAIN bills'[m]
      PROVE  (/\ bills[m][i].sold < day
              /\ SameDay(m, bills[m][i].sold) <= bills[m][i].wechat + bills[m][i].alipay)'
  <2>1. PICK d \in Int, w \in Nat, a \in Nat :
          /\ d = bills'[m][i].sold /\ w = bills'[m][i].wechat /\ a = bills'[m][i].alipay
    <3>1. bills' \in [Enterprise -> Seq(Bill)]
      BY <1>0 DEF SettlementTypeOK
    <3>2. bills'[m][i] \in Bill
      BY <3>1
    <3>3. QED
      BY <3>2 DEF Bill
  <2>2. d < day /\ SameDay(m, d) <= w + a
    <3>1. CASE /\ i \in DOMAIN bills[m] /\ d = bills[m][i].sold
               /\ w = bills[m][i].wechat /\ a = bills[m][i].alipay
      BY <3>1 DEF ReleasesAreBilled
    <3>2. ASSUME NEW b \in agenda, b.merchant = m, d = b.day - 1, w = b.wechat, a = b.alipay
          PROVE  d < day /\ SameDay(m, d) <= w + a
      <4>1. b.day \in Nat
        BY <1>0 DEF SettlementTypeOK, DueBill
      <4>2. b.day <= day /\ SameDay(m, d) <= w + a
        BY <3>2 DEF ReleasesAreBilled
      <4>3. QED
        BY <1>0, <3>2, <4>1, <4>2
    <3>3. QED
      BY <1>0, <2>1, <3>1, <3>2, BillsComeFrom
  <2>3. SameDay(m, d)' <= SameDay(m, d) /\ SameDay(m, d)' \in Int /\ SameDay(m, d) \in Int
    BY <1>1, <2>2
  <2>4. SameDay(m, d)' <= w + a /\ d < day'
    BY <1>0, <2>2, <2>3
  <2>5. QED
    BY <2>1, <2>4
<1>4. QED
  BY <1>2, <1>3 DEF ReleasesAreBilled

LEMMA InitReleases ==
  ASSUME ReportsInit
  PROVE  ReleasesAreKept /\ ReleasesAreBilled
<1>1. /\ released = [p \in Serial |-> 0] /\ agenda = {}
      /\ \A m \in Enterprise : bills[m] = << >>
  BY DEF ReportsInit, SettlementInit
<1>2. QED
  BY <1>1 DEF ReleasesAreKept, ReleasesAreBilled

\* Every bill has all sales of its day that were released on that day, whenever
\* it was computed and settled (settlement_query.py): sales that the timer
\* misses were released after midnight.
THEOREM SameDayCorrect == ReportsSpec => []SameDayReleasesAreBilled
<1> DEFINE Inv == SalesAreKept /\ ReleasesAreKept /\ ReleasesAreBilled
<1>1. ReportsInit => Inv
  BY InitSales, InitReleases
<1>2. Inv /\ [ReportsNext]_reports => Inv'
  BY NextSales, NextReleases, NextReleasesBilled
<1>3. Inv => SameDayReleasesAreBilled
  <2> SUFFICES ASSUME Inv, NEW m \in Enterprise, NEW i \in DOMAIN bills[m]
               PROVE  SalesSum({p \in Serial : /\ payments[p].merchant = m
                                               /\ placed[p] = bills[m][i].sold
                                               /\ released[p] = bills[m][i].sold}, MerchantPart)
                        <= bills[m][i].wechat + bills[m][i].alipay
    BY DEF SameDayReleasesAreBilled
  <2> DEFINE d == bills[m][i].sold
             S == {p \in Serial : /\ payments[p].merchant = m
                                  /\ placed[p] = d /\ released[p] = d}
             f == [p \in Serial |-> MerchantPart(payments[p])]
             h == SameDayOf(m, d)
  <2>1. /\ IsFiniteSet(Serial) /\ S \subseteq Serial
        /\ \A p \in Serial : f[p] \in Int /\ h[p] = IF p \in S THEN f[p] ELSE 0
    <3>1. IsFiniteSet(Serial)
      BY FS_Interval DEF Serial
    <3>2. \A p \in Serial : f[p] \in Int
      BY MerchantParts
    <3>3. QED
      BY <3>1, <3>2 DEF SameDayOf
  <2>2. \A p \in Serial : h[p] \in Int
    BY <2>1
  <2>3. SameDay(m, d) = SumTo(h, NPayments) /\ Serial = 1..NPayments
    BY DEF SameDay, Serial
  <2>4. SalesSum(S, MerchantPart) = SumFunctionOnSet(f, S)
    BY DEF SalesSum
  <2>5. SameDay(m, d) <= bills[m][i].wechat + bills[m][i].alipay
    BY DEF ReleasesAreBilled
  <2> HIDE DEF f, h, S, d, Inv
  <2>6. SumFunctionOnSet(h, Serial) = SumFunctionOnSet(f, S)
    BY <2>1, SumPart
  <2>7. SumTo(h, NPayments) = SumFunctionOnSet(h, Serial)
    BY <2>2, <2>3, SumToIs
  <2>8. SalesSum(S, MerchantPart) <= bills[m][i].wechat + bills[m][i].alipay
    BY <2>3, <2>4, <2>5, <2>6, <2>7
  <2>9. QED
    BY <2>8 DEF S, d
<1>4. QED
  BY <1>1, <1>2, <1>3, PTL DEF ReportsSpec

-----------------------------------------------------------------------------
(* The same sales                                                          *)

\* What a report adds up, for each serial number
PaidIn == [p \in Serial |-> PaidPrice(payments[p])]
SharedIn == [p \in Serial |-> TotalShare(payments[p])]
OneEach == [p \in Serial |-> 1]

LEMMA SaleTerms ==
  ASSUME SalesAreKept
  PROVE  \A p \in Serial : PaidIn[p] \in Int /\ SharedIn[p] \in Int /\ OneEach[p] \in Int
<1>1. TypeOK
  BY DEF SalesAreKept, LedgerInvariant
<1>2. ASSUME NEW p \in Serial
      PROVE  PaidPrice(payments[p]) \in Int /\ TotalShare(payments[p]) \in Int
  BY <1>1, PartsType
<1>3. QED
  BY <1>2 DEF PaidIn, SharedIn, OneEach

\* Any set of sales can be counted.
LEMMA SalesFinite == \A S \in SUBSET Serial : IsFiniteSet(S)
<1>1. IsFiniteSet(Serial)
  BY FS_Interval DEF Serial
<1>2. QED
  BY <1>1, FS_Subset

LEMMA SumsAre ==
  ASSUME NEW S \in SUBSET Serial
  PROVE  /\ PaidOf(S) = SumFunctionOnSet(PaidIn, S)
         /\ SalesSum(S, TotalShare) = SumFunctionOnSet(SharedIn, S)
         /\ Cardinality(S) = SumFunctionOnSet(OneEach, S)
<1>1. IsFiniteSet(S) /\ \A p \in S : OneEach[p] = 1
  BY SalesFinite DEF OneEach
<1>2. SumFunctionOnSet(OneEach, S) = Cardinality(S)
  BY <1>1, SumOfOnes
<1>3. QED
  BY <1>2 DEF PaidOf, SalesSum, PaidIn, SharedIn

\* The sales of all days together: g[d] is the sum over those of day d.
LEMMA AllDays ==
  ASSUME SalesAreKept, NEW S, NEW T, NEW f, NEW g, S \subseteq Sales(1, MaxDay), T \subseteq S,
         \A p \in Serial : f[p] \in Int,
         SumsGroups(g, {placed[p] : p \in S}, f, T, placed)
  PROVE  SumFunctionOnSet(g, {placed[p] : p \in S}) = SumFunctionOnSet(f, T)
<1> DEFINE D == {placed[p] : p \in S}
<1>1. IsFiniteSet(1..MaxDay)
  BY FS_Interval
<1>2. D \subseteq 1..MaxDay
  BY DEF Sales
<1>3. IsFiniteSet(D)
  BY <1>1, <1>2, FS_Subset
<1>4. T \subseteq Serial /\ \A p \in T : f[p] \in Int /\ placed[p] \in D
  BY DEF Sales
<1>5. IsFiniteSet(T)
  BY <1>4, SalesFinite
<1>6. SumsGroups(g, D, f, T, placed)
  OBVIOUS
<1> HIDE DEF D
<1>7. SumFunctionOnSet(g, D) = SumFunctionOnSet(f, T)
  BY <1>3, <1>4, <1>5, <1>6, SumGroups
<1>8. QED
  BY <1>7 DEF D

\* Of the figures of the details, the sums over the days are the sums over all sales.
LEMMA DetailsAre ==
  ASSUME SalesAreKept
  PROVE  LET S == Sales(1, MaxDay)
             all == TransactionDetails(1, MaxDay).result
         IN  /\ all.paid_price = PaidOf(S)
             /\ all.paid_price_wechat = PaidOf(By(S, "WECHAT"))
             /\ all.paid_price_alipay = PaidOf(By(S, "ALIPAY"))
             /\ all.ordinary = PaidOf(S \ WithCoupon(S))
             /\ all.preferential = PaidOf(WithCoupon(S))
             /\ all.tran_count = Cardinality(S)
<1> DEFINE S == Sales(1, MaxDay)
           D == {placed[p] : p \in S}
           OfDay(d) == {p \in S : placed[p] = d}
           all == TransactionDetails(1, MaxDay).result
           Column(field) == [d \in D |-> DayFigures(OfDay(d))[field]]
<1>1. ASSUME NEW field \in {"paid_price", "paid_price_wechat", "paid_price_alipay", "ordinary",
                            "preferential", "tran_count"}
      PROVE  all[field] = SumFunctionOnSet(Column(field), D)
  <2>1. field \in DOMAIN DayFigures({})
    BY DEF DayFigures
  <2>2. all[field] = SumFunction(Column(field))
    BY <2>1 DEF TransactionDetails
  <2>3. DOMAIN Column(field) = D
    OBVIOUS
  <2> HIDE DEF Column, D
  <2>4. QED
    BY <2>2, <2>3, SumOfFunction
<1>2. /\ S \subseteq Serial /\ S \subseteq Sales(1, MaxDay)
      /\ \A p \in Serial : PaidIn[p] \in Int
      /\ \A p \in Serial : OneEach[p] \in Int
  BY SaleTerms DEF Sales
<1>3. ASSUME NEW T \in SUBSET S, NEW g, \A d \in D : g[d] = PaidOf({p \in T : placed[p] = d})
      PROVE  SumFunctionOnSet(g, D) = PaidOf(T)
  <2>1. ASSUME NEW d \in D
        PROVE  g[d] = SumFunctionOnSet(PaidIn, {p \in T : placed[p] = d})
    <3>1. {p \in T : placed[p] = d} \in SUBSET Serial
      BY <1>2
    <3>2. QED
      BY <1>3, <3>1, SumsAre
  <2>2. SumsGroups(g, {placed[p] : p \in S}, PaidIn, T, placed)
    BY <2>1 DEF SumsGroups
  <2>3. SumFunctionOnSet(g, {placed[p] : p \in S}) = SumFunctionOnSet(PaidIn, T)
    BY <1>2, <2>2, AllDays
  <2>4. T \in SUBSET Serial
    BY <1>2
  <2>5. QED
    BY <2>3, <2>4, SumsAre
<1>4. ASSUME NEW g, \A d \in D : g[d] = Cardinality({p \in S : placed[p] = d})
      PROVE  SumFunctionOnSet(g, D) = Cardinality(S)
  <2>1. ASSUME NEW d \in D
        PROVE  g[d] = SumFunctionOnSet(OneEach, {p \in S : placed[p] = d})
    <3>1. {p \in S : placed[p] = d} \in SUBSET Serial
      BY <1>2
    <3>2. QED
      BY <1>4, <3>1, SumsAre
  <2>2. SumsGroups(g, {placed[p] : p \in S}, OneEach, S, placed)
    BY <2>1 DEF SumsGroups
  <2>3. SumFunctionOnSet(g, {placed[p] : p \in S}) = SumFunctionOnSet(OneEach, S)
    BY <1>2, <2>2, AllDays
  <2>4. QED
    BY <1>2, <2>3, SumsAre
<1>5. \A d \in D : /\ Column("paid_price")[d] = PaidOf({p \in S : placed[p] = d})
                   /\ Column("tran_count")[d] = Cardinality({p \in S : placed[p] = d})
  BY DEF DayFigures
<1>6. ASSUME NEW ch \in Channel
      PROVE  \A d \in D : By(OfDay(d), ch) = {p \in By(S, ch) : placed[p] = d}
  BY DEF By
<1>7. \A d \in D :
        /\ Column("paid_price_wechat")[d] = PaidOf({p \in By(S, "WECHAT") : placed[p] = d})
        /\ Column("paid_price_alipay")[d] = PaidOf({p \in By(S, "ALIPAY") : placed[p] = d})
  BY <1>6 DEF DayFigures, Channel
<1>8. \A d \in D : /\ WithCoupon(OfDay(d)) = {p \in WithCoupon(S) : placed[p] = d}
                   /\ OfDay(d) \ WithCoupon(OfDay(d)) = {p \in S \ WithCoupon(S) : placed[p] = d}
  BY DEF WithCoupon
<1>9. \A d \in D :
        /\ Column("ordinary")[d] = PaidOf({p \in S \ WithCoupon(S) : placed[p] = d})
        /\ Column("preferential")[d] = PaidOf({p \in WithCoupon(S) : placed[p] = d})
  BY <1>8 DEF DayFigures
<1>10. /\ By(S, "WECHAT") \in SUBSET S /\ By(S, "ALIPAY") \in SUBSET S
       /\ WithCoupon(S) \in SUBSET S /\ S \ WithCoupon(S) \in SUBSET S /\ S \in SUBSET S
  BY DEF By, WithCoupon
<1> HIDE DEF S, D, Column, all
<1>11. all["paid_price"] = PaidOf(S) /\ all["tran_count"] = Cardinality(S)
  BY <1>1, <1>3, <1>4, <1>5, <1>10
<1>12. /\ all["paid_price_wechat"] = PaidOf(By(S, "WECHAT"))
       /\ all["paid_price_alipay"] = PaidOf(By(S, "ALIPAY"))
  BY <1>1, <1>3, <1>7, <1>10
<1>13. /\ all["ordinary"] = PaidOf(S \ WithCoupon(S))
       /\ all["preferential"] = PaidOf(WithCoupon(S))
  BY <1>1, <1>3, <1>9, <1>10
<1>14. QED
  BY <1>11, <1>12, <1>13 DEF S, all

\* A refund leaves no sale of the day 0: all orders have a day.
LEMMA SalesHaveDays ==
  ASSUME SalesAreKept
  PROVE  /\ Sales(0, MaxDay) = Sales(1, MaxDay)
         /\ \A p \in Serial : payments[p].status \notin {"NONE", "UNPAID", "CANCELLED"}
                                => placed[p] \in 1..MaxDay
<1>1. MaxDay \in Nat /\ day \in 1..MaxDay
  BY DEF SalesAreKept, PlacedHasDay, Day
<1>2. ASSUME NEW p \in Serial, payments[p].status # "NONE"
      PROVE  placed[p] \in 1..MaxDay /\ placed[p] \in 0..MaxDay
  BY <1>1, <1>2 DEF SalesAreKept, PlacedHasDay
<1>3. QED
  BY <1>2 DEF Sales, NotRefunded

\* The same for the figures of the sharing details.
LEMMA SharingsAre ==
  ASSUME SalesAreKept
  PROVE  LET S == WithCoupon(Sales(1, MaxDay))
             shared == SharingDetails(1, MaxDay).result
         IN  /\ shared.paid_price = PaidOf(S)
             /\ shared.share_all = SalesSum(S, TotalShare)
<1> DEFINE S == WithCoupon(Sales(1, MaxDay))
           D == {placed[p] : p \in S}
           OfDay(d) == {p \in S : placed[p] = d}
           shared == SharingDetails(1, MaxDay).result
           paid == [d \in D |-> PaidOf(OfDay(d))]
           parts == [d \in D |-> SalesSum(OfDay(d), TotalShare)]
<1>1. /\ shared.paid_price = SumFunction(paid)
      /\ shared.share_all = SumFunction(parts)
  BY DEF SharingDetails
<1>2. /\ SumFunction(paid) = SumFunctionOnSet(paid, D)
      /\ SumFunction(parts) = SumFunctionOnSet(parts, D)
  <2>1. DOMAIN paid = D /\ DOMAIN parts = D
    OBVIOUS
  <2> HIDE DEF paid, parts, D
  <2>2. QED
    BY <2>1, SumOfFunction
<1>3. /\ S \in SUBSET Serial /\ S \subseteq Sales(1, MaxDay)
      /\ \A p \in Serial : PaidIn[p] \in Int
      /\ \A p \in Serial : SharedIn[p] \in Int
  BY SaleTerms DEF Sales, WithCoupon
<1>4. \A d \in D : OfDay(d) \in SUBSET Serial
  BY <1>3
<1>5. /\ SumsGroups(paid, {placed[p] : p \in S}, PaidIn, S, placed)
      /\ SumsGroups(parts, {placed[p] : p \in S}, SharedIn, S, placed)
  BY <1>4, SumsAre DEF SumsGroups
<1> HIDE DEF S, paid, parts
<1>6. SumFunctionOnSet(paid, D) = SumFunctionOnSet(PaidIn, S)
  BY <1>3, <1>5, AllDays
<1>7. SumFunctionOnSet(parts, D) = SumFunctionOnSet(SharedIn, S)
  BY <1>3, <1>5, AllDays
<1>8. shared.paid_price = PaidOf(S) /\ shared.share_all = SalesSum(S, TotalShare)
  BY <1>1, <1>2, <1>3, <1>6, <1>7, SumsAre
<1>9. QED
  BY <1>8 DEF S

\* The merchant of each sale
SoldBy == [p \in Serial |-> payments[p].merchant]

\* The sales of all merchants together
LEMMA AllMerchants ==
  ASSUME SalesAreKept, NEW S \in SUBSET Serial, NEW f, NEW g, \A p \in Serial : f[p] \in Int,
         SumsGroups(g, Merchant, f, S, SoldBy)
  PROVE  SumFunctionOnSet(g, Merchant) = SumFunctionOnSet(f, S)
<1>1. \A p \in S : f[p] \in Int /\ SoldBy[p] \in Merchant
  BY DEF SalesAreKept, LedgerInvariant, TypeOK, Payment, SoldBy
<1>2. IsFiniteSet(S) /\ IsFiniteSet(Merchant)
  BY SalesFinite
<1>3. QED
  BY <1>1, <1>2, SumGroups

\* The sums over the business reports of all merchants
LEMMA BusinessAre ==
  ASSUME SalesAreKept
  PROVE  LET S == Sales(1, MaxDay)
             C == {p \in Serial : payments[p].status \notin {"NONE", "UNPAID", "CANCELLED"}}
             Of(field) == SumOver(Merchant, LAMBDA m : BusinessReport(m, 1, MaxDay)[field])
         IN  /\ Of("turnover") = PaidOf(S)
             /\ Of("originator_expenditure") = SalesSum(S, TotalShare)
             /\ Of("use_coupon") = Cardinality(WithCoupon(C))
             /\ Of("not_use_coupon") = Cardinality(C \ WithCoupon(C))
<1> DEFINE S == Sales(1, MaxDay)
           C == {p \in Serial : payments[p].status \notin {"NONE", "UNPAID", "CANCELLED"}}
           Mine(T, m) == {p \in T : SoldBy[p] = m}
           turnover == [m \in Merchant |-> PaidOf(Mine(S, m))]
           expenditure == [m \in Merchant |-> SalesSum(Mine(S, m), TotalShare)]
           used == [m \in Merchant |-> Cardinality(Mine(WithCoupon(C), m))]
           unused == [m \in Merchant |-> Cardinality(Mine(C \ WithCoupon(C), m))]
           Of(field) == SumOver(Merchant, LAMBDA m : BusinessReport(m, 1, MaxDay)[field])
<1>1. ASSUME NEW m \in Merchant
      PROVE  LET counted == {p \in Serial : payments[p].merchant = m /\ placed[p] \in 1..MaxDay
                               /\ payments[p].status \notin {"NONE", "UNPAID", "CANCELLED"}}
             IN  /\ {p \in counted : payments[p].status \in NotRefunded} = Mine(S, m)
                 /\ WithCoupon(counted) = Mine(WithCoupon(C), m)
                 /\ counted \ WithCoupon(counted) = Mine(C \ WithCoupon(C), m)
  <2> DEFINE counted == {p \in Serial : payments[p].merchant = m /\ placed[p] \in 1..MaxDay
                               /\ payments[p].status \notin {"NONE", "UNPAID", "CANCELLED"}}
  <2>1. counted = Mine(C, m)
    BY SalesHaveDays DEF SoldBy
  <2>2. {p \in counted : payments[p].status \in NotRefunded} = Mine(S, m)
    BY DEF Sales, NotRefunded, SoldBy
  <2>3. QED
    BY <2>1, <2>2 DEF WithCoupon
<1>2. ASSUME NEW m \in Merchant
      PROVE  /\ BusinessReport(m, 1, MaxDay)["turnover"] = turnover[m]
             /\ BusinessReport(m, 1, MaxDay)["originator_expenditure"] = expenditure[m]
             /\ BusinessReport(m, 1, MaxDay)["use_coupon"] = used[m]
             /\ BusinessReport(m, 1, MaxDay)["not_use_coupon"] = unused[m]
  BY <1>1 DEF BusinessReport
<1>3. /\ Of("turnover") = SumFunction(turnover)
      /\ Of("originator_expenditure") = SumFunction(expenditure)
      /\ Of("use_coupon") = SumFunction(used)
      /\ Of("not_use_coupon") = SumFunction(unused)
  BY <1>2 DEF SumOver
<1>4. /\ SumFunction(turnover) = SumFunctionOnSet(turnover, Merchant)
      /\ SumFunction(expenditure) = SumFunctionOnSet(expenditure, Merchant)
      /\ SumFunction(used) = SumFunctionOnSet(used, Merchant)
      /\ SumFunction(unused) = SumFunctionOnSet(unused, Merchant)
  <2>1. /\ DOMAIN turnover = Merchant /\ DOMAIN expenditure = Merchant
        /\ DOMAIN used = Merchant /\ DOMAIN unused = Merchant
    OBVIOUS
  <2> HIDE DEF turnover, expenditure, used, unused
  <2>2. QED
    BY <2>1, SumOfFunction
<1>5. /\ S \in SUBSET Serial /\ WithCoupon(C) \in SUBSET Serial
      /\ C \ WithCoupon(C) \in SUBSET Serial
      /\ \A T \in SUBSET Serial : \A m \in Merchant : Mine(T, m) \in SUBSET Serial
  BY DEF Sales, WithCoupon
<1>6. /\ SumsGroups(turnover, Merchant, PaidIn, S, SoldBy)
      /\ SumsGroups(expenditure, Merchant, SharedIn, S, SoldBy)
      /\ SumsGroups(used, Merchant, OneEach, WithCoupon(C), SoldBy)
      /\ SumsGroups(unused, Merchant, OneEach, C \ WithCoupon(C), SoldBy)
  BY <1>5, SumsAre DEF SumsGroups
<1>7. /\ \A p \in Serial : PaidIn[p] \in Int
      /\ \A p \in Serial : SharedIn[p] \in Int
      /\ \A p \in Serial : OneEach[p] \in Int
  BY SaleTerms
<1> HIDE DEF S, C, turnover, expenditure, used, unused, Of
<1>8. SumFunctionOnSet(turnover, Merchant) = SumFunctionOnSet(PaidIn, S)
  BY <1>5, <1>6, <1>7, AllMerchants
<1>9. SumFunctionOnSet(expenditure, Merchant) = SumFunctionOnSet(SharedIn, S)
  BY <1>5, <1>6, <1>7, AllMerchants
<1>10. SumFunctionOnSet(used, Merchant) = SumFunctionOnSet(OneEach, WithCoupon(C))
  BY <1>5, <1>6, <1>7, AllMerchants
<1>11. SumFunctionOnSet(unused, Merchant) = SumFunctionOnSet(OneEach, C \ WithCoupon(C))
  BY <1>5, <1>6, <1>7, AllMerchants
<1>12. /\ Of("turnover") = PaidOf(S)
       /\ Of("originator_expenditure") = SalesSum(S, TotalShare)
       /\ Of("use_coupon") = Cardinality(WithCoupon(C))
       /\ Of("not_use_coupon") = Cardinality(C \ WithCoupon(C))
  BY <1>3, <1>4, <1>5, <1>8, <1>9, <1>10, <1>11, SumsAre
<1>13. QED
  BY <1>12 DEF S, C, Of

\* Without a coupon nobody has a share: the sales with one have all shares.
LEMMA SharesAreOfCoupons ==
  ASSUME SalesAreKept, NEW S \in SUBSET Serial
  PROVE  SalesSum(WithCoupon(S), TotalShare) = SalesSum(S, TotalShare)
<1> DEFINE W == WithCoupon(S)
<1>1. W \subseteq S /\ W \in SUBSET Serial
  BY DEF WithCoupon
<1>2. \A p \in S : SharedIn[p] \in Int /\ SharedIn[p] = IF p \in W THEN SharedIn[p] ELSE 0
  <2>1. ASSUME NEW p \in S, p \notin W
        PROVE  SharedIn[p] = 0
    <3>1. ~HasCoupon(payments[p])
      BY <2>1 DEF WithCoupon
    <3>2. QED
      BY <3>1 DEF SalesAreKept, LedgerInvariant, SharesNeedCoupon, SharedIn, TotalShare
  <2>2. QED
    BY <2>1, SaleTerms
<1>3. IsFiniteSet(S)
  BY SalesFinite
<1> HIDE DEF W
<1>4. SumFunctionOnSet(SharedIn, S) = SumFunctionOnSet(SharedIn, W)
  BY <1>1, <1>2, <1>3, SumPart
<1>5. QED
  BY <1>1, <1>4, SumsAre DEF W

\* Sets of sales that have nothing in common
LEMMA SalesApart ==
  ASSUME NEW S \in SUBSET Serial, NEW T \in SUBSET Serial, S \cap T = {}
  PROVE  Cardinality(S \cup T) = Cardinality(S) + Cardinality(T)
<1>1. IsFiniteSet(S) /\ IsFiniteSet(T)
  BY SalesFinite
<1>2. \A p \in S \cup T : OneEach[p] \in Int
  BY DEF OneEach
<1>3. SumFunctionOnSet(OneEach, S \cup T) = SumFunctionOnSet(OneEach, S) + SumFunctionOnSet(OneEach, T)
  BY <1>1, <1>2, SumUnion
<1>4. S \cup T \in SUBSET Serial
  OBVIOUS
<1> DEFINE U == S \cup T
<1>5. U \in SUBSET Serial
  BY <1>4
<1> HIDE DEF U
<1>6. Cardinality(U) = SumFunctionOnSet(OneEach, U)
  BY <1>5, SumsAre
<1>7. Cardinality(S) = SumFunctionOnSet(OneEach, S) /\ Cardinality(T) = SumFunctionOnSet(OneEach, T)
  BY SumsAre
<1>8. QED
  BY <1>3, <1>6, <1>7 DEF U

\* Each coupon that is used belongs to a sale of the merchant of its rule: one
\* that counts, or one that is not paid yet.
LEMMA UsedCoupons ==
  ASSUME SalesAreKept, NEW m \in Merchant
  PROVE  LET returned == {p \in Serial : payments[p].status = "REFUND"}
             unpaid == WithCoupon({p \in Serial : payments[p].status = "UNPAID"})
         IN  UsedNum(m) = Cardinality(RelativePayments(m) \ returned)
                          + Cardinality({p \in unpaid : payments[p].merchant = m})
<1> DEFINE A == RelativePayments(m) \ {p \in Serial : payments[p].status = "REFUND"}
           B == {p \in WithCoupon({q \in Serial : payments[q].status = "UNPAID"}) :
                   payments[p].merchant = m}
           K == {c \in CouponId : coupons[c].rule = m /\ coupons[c].status = "USED"}
           one == [c \in CouponId |-> 1]
           of == [p \in Serial |-> payments[p].coupon]
<1>1. A \in SUBSET Serial /\ B \in SUBSET Serial /\ A \cap B = {}
  BY DEF RelativePayments, WithCoupon
<1>2. Cardinality(A \cup B) = Cardinality(A) + Cardinality(B)
  <2> HIDE DEF A, B
  <2>1. QED
    BY <1>1, SalesApart
<1>3. TypeOK /\ CouponMatchesPayment /\ UnplacedSaysNothing /\ CouponIsOfMerchant
  BY DEF SalesAreKept, CouponTables
<1>4. \A p \in Serial :
        p \in A \cup B <=> /\ HasCoupon(payments[p])
                           /\ coupons[payments[p].coupon].rule = m
                           /\ payments[p].status \notin {"CANCELLED", "REFUND"}
  <2>1. ASSUME NEW p \in Serial, HasCoupon(payments[p])
        PROVE  /\ payments[p].status # "NONE"
               /\ coupons[payments[p].coupon].rule = payments[p].merchant
    <3>1. ~HasCoupon(NoPayment)
      BY DEF HasCoupon, NoPayment
    <3>2. QED
      BY <1>3, <2>1, <3>1 DEF UnplacedSaysNothing, CouponIsOfMerchant
  <2>2. QED
    BY <2>1 DEF RelativePayments, WithCoupon
<1>5. \A p \in Serial : HasCoupon(payments[p]) => payments[p].coupon \in CouponId
  BY <1>3, CouponType
<1>6. ASSUME NEW p \in A \cup B
      PROVE  of[p] \in K /\ HasCoupon(payments[p])
  <2>1. /\ p \in Serial /\ HasCoupon(payments[p]) /\ coupons[payments[p].coupon].rule = m
        /\ payments[p].status \notin {"CANCELLED", "REFUND"}
    BY <1>1, <1>4, <1>6
  <2>2. coupons[payments[p].coupon].status = "USED"
    BY <1>3, <2>1 DEF CouponMatchesPayment
  <2>3. QED
    BY <1>5, <2>1, <2>2
<1>7. ASSUME NEW p \in A \cup B, NEW q \in A \cup B, of[p] = of[q]
      PROVE  p = q
  <2>1. p \in Serial /\ q \in Serial /\ HasCoupon(payments[p]) /\ payments[p].coupon = payments[q].coupon
    BY <1>1, <1>6, <1>7
  <2>2. QED
    BY <1>3, <2>1 DEF CouponMatchesPayment, HasCoupon
<1>8. ASSUME NEW c \in K
      PROVE  \E p \in A \cup B : of[p] = c
  <2>1. PICK p \in Serial : payments[p].coupon = c
    BY <1>3 DEF CouponMatchesPayment
  <2>2. HasCoupon(payments[p])
    BY <2>1 DEF HasCoupon, NoCoupon, CouponId
  <2>3. payments[p].status \notin {"CANCELLED", "REFUND"}
    BY <1>3, <2>1, <2>2 DEF CouponMatchesPayment
  <2>4. p \in A \cup B
    BY <1>4, <2>1, <2>2, <2>3
  <2>5. QED
    BY <2>1, <2>4
<1>9. IsFiniteSet(K) /\ \A c \in K : one[c] = 1
  <2>1. IsFiniteSet(CouponId)
    BY FS_Interval DEF CouponId
  <2>2. QED
    BY <2>1, FS_Subset
<1>10. ASSUME NEW p \in A \cup B
       PROVE  OneEach[p] \in Int /\ OneEach[p] = one[of[p]]
  <2>1. OneEach[p] = 1
    BY <1>1 DEF OneEach
  <2>2. one[of[p]] = 1
    BY <1>6, <1>9
  <2>3. QED
    BY <2>1, <2>2
<1> DEFINE U == A \cup B
<1>11. U \in SUBSET Serial /\ IsFiniteSet(U)
  BY <1>1, SalesFinite
<1>12. /\ \A p \in U : of[p] \in K /\ OneEach[p] = one[of[p]] /\ OneEach[p] \in Int
       /\ \A p \in U, q \in U : of[p] = of[q] => p = q
       /\ \A c \in K : \E p \in U : of[p] = c
  <2> HIDE DEF A, B, K, of, one
  <2>1. QED
    BY <1>6, <1>7, <1>8, <1>10
<1> HIDE DEF A, B, K, U, of, one
<1>13. SumFunctionOnSet(OneEach, U) = SumFunctionOnSet(one, K)
  BY <1>9, <1>11, <1>12, SumImage
<1>14. Cardinality(K) = SumFunctionOnSet(one, K)
  BY <1>9, SumOfOnes
<1>15. Cardinality(U) = SumFunctionOnSet(OneEach, U)
  BY <1>11, SumsAre
<1>16. Cardinality(K) = Cardinality(A) + Cardinality(B)
  BY <1>2, <1>13, <1>14, <1>15 DEF U
<1>17. QED
  BY <1>16 DEF A, B, K, UsedNum

\* Every coupon has one rule.
LEMMA AllRules ==
  ASSUME SalesAreKept
  PROVE  Cardinality({c \in CouponId : coupons[c].status = "USED"}) = SumOver(Merchant, UsedNum)
<1> DEFINE K == {c \in CouponId : coupons[c].status = "USED"}
           one == [c \in CouponId |-> 1]
           rule == [c \in CouponId |-> coupons[c].rule]
           num == [m \in Merchant |-> UsedNum(m)]
<1>1. IsFiniteSet(CouponId) /\ K \subseteq CouponId
  BY FS_Interval DEF CouponId
<1>2. IsFiniteSet(K) /\ IsFiniteSet(Merchant)
  BY <1>1, FS_Subset
<1>3. \A c \in K : one[c] \in Int /\ one[c] = 1 /\ rule[c] \in Merchant
  BY DEF SalesAreKept, LedgerInvariant, TypeOK, Coupon
<1>4. ASSUME NEW m \in Merchant
      PROVE  num[m] = SumFunctionOnSet(one, {c \in K : rule[c] = m})
  <2> DEFINE M == {c \in K : rule[c] = m}
  <2>1. M = {c \in CouponId : coupons[c].rule = m /\ coupons[c].status = "USED"}
    OBVIOUS
  <2>2. IsFiniteSet(M) /\ \A c \in M : one[c] = 1
    BY <1>2, FS_Subset
  <2> HIDE DEF one
  <2>3. num[m] = Cardinality(M)
    BY <2>1 DEF UsedNum
  <2> HIDE DEF M
  <2>4. SumFunctionOnSet(one, M) = Cardinality(M)
    BY <2>2, SumOfOnes
  <2>5. QED
    BY <2>3, <2>4 DEF M
<1>5. SumsGroups(num, Merchant, one, K, rule)
  BY <1>4 DEF SumsGroups
<1>6. DOMAIN num = Merchant /\ SumOver(Merchant, UsedNum) = SumFunction(num)
  BY DEF SumOver
<1> HIDE DEF K, one, rule, num
<1>7. SumFunctionOnSet(num, Merchant) = SumFunctionOnSet(one, K)
  BY <1>2, <1>3, <1>5, SumGroups
<1>8. SumFunctionOnSet(one, K) = Cardinality(K)
  BY <1>2, <1>3, SumOfOnes
<1>9. SumFunction(num) = SumFunctionOnSet(num, Merchant)
  BY <1>6, SumOfFunction
<1>10. QED
  BY <1>6, <1>7, <1>8, <1>9 DEF K

\* All reports count the same sales, whatever is refunded and whenever
\* (data_overview, transaction_details and sharing_details of financial_query.py,
\* merchant_business_report, and the numbers of CouponRuleManager).
THEOREM ReportsCorrect == ReportsSpec => []ReportsAgree
<1>1. SalesAreKept => ReportsAgree
  <2> SUFFICES ASSUME SalesAreKept
               PROVE  ReportsAgree
    OBVIOUS
  <2> DEFINE S == Sales(1, MaxDay)
             C == {p \in Serial : payments[p].status \notin {"NONE", "UNPAID", "CANCELLED"}}
             returned == {p \in Serial : payments[p].status = "REFUND"}
             Of(field) == SumOver(Merchant, LAMBDA m : BusinessReport(m, 1, MaxDay)[field])
             all == TransactionDetails(1, MaxDay).result
             shared == SharingDetails(1, MaxDay).result
  <2>1. /\ S \in SUBSET Serial /\ WithCoupon(S) \in SUBSET Serial /\ S \ WithCoupon(S) \in SUBSET Serial
        /\ returned \in SUBSET Serial /\ C \in SUBSET Serial
        /\ WithCoupon(C) \in SUBSET Serial /\ C \ WithCoupon(C) \in SUBSET Serial
        /\ WithCoupon(S) \subseteq S /\ WithCoupon(C) \subseteq C
    BY DEF Sales, WithCoupon
  <2>2. /\ C = S \cup returned /\ S \cap returned = {}
    <3>1. \A p \in Serial : payments[p].status \in PaymentStatus
      BY DEF SalesAreKept, LedgerInvariant, TypeOK, Payment
    <3>2. \A p \in Serial : payments[p].status \in NotRefunded => placed[p] \in 1..MaxDay
      BY SalesHaveDays DEF NotRefunded
    <3>3. QED
      BY <3>1, <3>2 DEF Sales, NotRefunded, PaymentStatus
  <2>3. /\ DataOverview.total = PaidOf(S)
        /\ DataOverview.wechat = PaidOf(By(S, "WECHAT"))
        /\ DataOverview.alipay = PaidOf(By(S, "ALIPAY"))
        /\ DataOverview.coupon_used = Cardinality({c \in CouponId : coupons[c].status = "USED"})
    BY SalesHaveDays DEF DataOverview
  <2>4. /\ all.paid_price = PaidOf(S)
        /\ all.paid_price_wechat = PaidOf(By(S, "WECHAT"))
        /\ all.paid_price_alipay = PaidOf(By(S, "ALIPAY"))
        /\ all.ordinary = PaidOf(S \ WithCoupon(S))
        /\ all.preferential = PaidOf(WithCoupon(S))
        /\ all.tran_count = Cardinality(S)
    BY DetailsAre
  <2>5. /\ shared.paid_price = PaidOf(WithCoupon(S))
        /\ shared.share_all = SalesSum(WithCoupon(S), TotalShare)
    BY SharingsAre
  <2>6. /\ Of("turnover") = PaidOf(S)
        /\ Of("originator_expenditure") = SalesSum(S, TotalShare)
        /\ Of("use_coupon") = Cardinality(WithCoupon(C))
        /\ Of("not_use_coupon") = Cardinality(C \ WithCoupon(C))
    BY BusinessAre
  <2>7. /\ DataOverview.coupon_used = SumOver(Merchant, UsedNum)
        /\ \A m \in Merchant : LET unpaid == WithCoupon({p \in Serial : payments[p].status = "UNPAID"})
             IN  UsedNum(m) = Cardinality(RelativePayments(m) \ returned)
                              + Cardinality({p \in unpaid : payments[p].merchant = m})
    BY <2>3, AllRules, UsedCoupons
  <2>8. SalesSum(WithCoupon(S), TotalShare) = SalesSum(S, TotalShare)
    BY <2>1, SharesAreOfCoupons
  <2> HIDE DEF S, C, returned, Of, all, shared
  <2>9. Cardinality(WithCoupon(C)) + Cardinality(C \ WithCoupon(C)) = Cardinality(S) + Cardinality(returned)
    <3> DEFINE W == WithCoupon(C)
               V == C \ W
    <3>1. W \in SUBSET Serial /\ V \in SUBSET Serial /\ W \cap V = {} /\ W \cup V = C
      BY <2>1
    <3> HIDE DEF W, V
    <3>2. Cardinality(C) = Cardinality(W) + Cardinality(V)
      BY <3>1, SalesApart
    <3>3. Cardinality(C) = Cardinality(S) + Cardinality(returned)
      BY <2>1, <2>2, SalesApart
    <3>4. QED
      BY <3>2, <3>3 DEF W, V
  <2>10. PaidOf(S) = PaidOf(S \ WithCoupon(S)) + PaidOf(WithCoupon(S))
    <3> DEFINE W == WithCoupon(S)
               V == S \ W
    <3>1. W \in SUBSET Serial /\ V \in SUBSET Serial /\ W \cap V = {} /\ V \cup W = S /\ V \cap W = {}
      BY <2>1
    <3> HIDE DEF W, V
    <3>2. IsFiniteSet(V) /\ IsFiniteSet(W) /\ \A p \in V \cup W : PaidIn[p] \in Int
      BY <2>1, <3>1, SalesFinite, SaleTerms
    <3>3. SumFunctionOnSet(PaidIn, V \cup W) = SumFunctionOnSet(PaidIn, V) + SumFunctionOnSet(PaidIn, W)
      BY <3>1, <3>2, SumUnion
    <3>4. PaidOf(S) = PaidOf(V) + PaidOf(W)
      BY <2>1, <3>1, <3>3, SumsAre
    <3>5. QED
      BY <3>4 DEF W, V
  <2>11. Of("use_coupon") + Of("not_use_coupon") = all.tran_count + Cardinality(returned)
    BY <2>4, <2>6, <2>9
  <2>12. QED
    BY <2>3, <2>4, <2>5, <2>6, <2>7, <2>8, <2>10, <2>11 DEF ReportsAgree, Of, all, shared, returned
<1>2. ReportsInit => SalesAreKept
  BY InitSales
<1>3. SalesAreKept /\ [ReportsNext]_reports => SalesAreKept'
  BY NextSales
<1>4. QED
  BY <1>1, <1>2, <1>3, PTL DEF ReportsSpec

-----------------------------------------------------------------------------
(* The books: which rows and withdrawals there are                         *)

\* The statuses of a payment that has been paid, given back or not
GotMoney == NotRefunded \cup {"REFUND"}

PaymentType == {"MERCHANT_RECEIVE", "MERCHANT_REFUND", "MERCHANT_SHARE", "MARKETER_SHARE"}

\* Payment x has had its row of type t, ...
Owed(x, t) ==
  \/ t = "MERCHANT_RECEIVE" /\ x.status \in GotMoney
  \/ t = "MERCHANT_REFUND" /\ x.status = "REFUND"
  \/ t \in {"MERCHANT_SHARE", "MARKETER_SHARE"} /\ x.status = "FINISHED" /\ HasCoupon(x)

\* ... on the account of ...
Owner(x, t) ==
  CASE t = "MERCHANT_SHARE" -> coupons[x.coupon].originator
    [] t = "MARKETER_SHARE" -> Inviter[x.merchant]
    [] OTHER -> x.merchant

\* ... and with the amount ...
Worth(x, t) ==
  CASE t = "MERCHANT_RECEIVE" -> MerchantPart(x)
    [] t = "MERCHANT_REFUND" -> -MerchantPart(x)
    [] t = "MERCHANT_SHARE" -> x.originator_share
    [] OTHER -> x.inviter_share

\* What a row is of: a payment, ...
OfPayment(r, p) ==
  /\ r.content = <<"payment", p>>
  /\ r.transaction_type \in PaymentType
  /\ Owed(payments[p], r.transaction_type)
  /\ r.account = Owner(payments[p], r.transaction_type)
  /\ r.amount = Worth(payments[p], r.transaction_type)

\* ... a withdrawal that succeeded, ...
OfWithdraw(r, w) ==
  /\ r.content = <<"withdraw", w.serial_number>>
  /\ w.status = "FINISHED"
  /\ r.account = w.account
  /\ r.amount = -w.amount
  /\ r.transaction_type = IF w.account \in Merchant THEN "MERCHANT_WITHDRAW"
                                                    ELSE "MARKETER_WITHDRAW"

\* ... or a bill.
OfBill(r) ==
  /\ r.content[1] = "settlement"
  /\ IsSettlement(r)
  /\ r.account \in Enterprise

SameKey(r, s) == r.content = s.content /\ r.transaction_type = s.transaction_type

\* Each row has one cause, ...
RowsAreExplained ==
  \A r \in journal :
    /\ r.day \in 1..day
    /\ \/ \E p \in Serial : OfPayment(r, p)
       \/ \E w \in withdraws : OfWithdraw(r, w)
       \/ OfBill(r)

\* ... and each cause has one row.
RowsAreOne == \A r, s \in journal : SameKey(r, s) /\ ~IsSettlement(r) => r = s

PaymentsHaveRows ==
  \A p \in Serial, t \in PaymentType : Owed(payments[p], t) =>
    \E r \in journal : r.content = <<"payment", p>> /\ r.transaction_type = t

WithdrawsHaveRows ==
  \A w \in withdraws : w.status = "FINISHED" => \E r \in journal : OfWithdraw(r, w)

JournalIsKept ==
  /\ IsFiniteSet(journal)
  /\ RowsAreExplained
  /\ RowsAreOne
  /\ PaymentsHaveRows
  /\ WithdrawsHaveRows

WithdrawsAreKept ==
  /\ IsFiniteSet(withdraws)
  /\ \A w \in withdraws :
       /\ w.serial_number \in 1..Cardinality(withdraws)
       /\ w.account \in Person
       /\ w.amount \in Nat
       /\ w.day \in 1..day
  /\ \A v, w \in withdraws : v.serial_number = w.serial_number => v = w

\* What a row of a payment says stays true.
OwedKept ==
  \A q \in Serial, t \in PaymentType : Owed(payments[q], t) =>
    /\ Owed(payments[q], t)'
    /\ Owner(payments[q], t)' = Owner(payments[q], t)
    /\ Worth(payments[q], t)' = Worth(payments[q], t)

\* Only payment p gets rows, of the types T.
OwedOnly(p, T) ==
  \A q \in Serial, t \in PaymentType : Owed(payments[q], t)' =>
    Owed(payments[q], t) \/ (q = p /\ t \in T)

\* How the journal grows
LEMMA JournalStep ==
  ASSUME JournalIsKept, OwedKept, day \in Nat, day' \in Nat, day <= day',
         withdraws \subseteq withdraws',
         NEW N, IsFiniteSet(N), journal' = journal \cup N,
         \A r \in N : r.day \in 1..day',
         \A r \in N : \/ \E p \in Serial : OfPayment(r, p)'
                      \/ \E w \in withdraws' : OfWithdraw(r, w)
                      \/ OfBill(r),
         \A r, s \in N : SameKey(r, s) /\ ~IsSettlement(r) => r = s,
         \A r \in N, s \in journal : ~(SameKey(r, s) /\ ~IsSettlement(r)),
         \A p \in Serial, t \in PaymentType : Owed(payments[p], t)' =>
           \/ Owed(payments[p], t)
           \/ \E r \in N : r.content = <<"payment", p>> /\ r.transaction_type = t,
         \A w \in withdraws' : w.status = "FINISHED" =>
           w \in withdraws \/ \E r \in N : OfWithdraw(r, w)
  PROVE  JournalIsKept'
<1>0. RowsAreExplained /\ RowsAreOne /\ PaymentsHaveRows /\ WithdrawsHaveRows
  BY DEF JournalIsKept
<1>a. journal' = journal \cup N /\ withdraws \subseteq withdraws'
  OBVIOUS
<1>b. \A w \in withdraws' : w.status = "FINISHED" =>
        w \in withdraws \/ \E r \in N : OfWithdraw(r, w)
  OBVIOUS
<1>1. IsFiniteSet(journal')
  BY FS_Union DEF JournalIsKept
<1>2. \A r \in journal' : r.day \in 1..day'
  BY <1>0 DEF RowsAreExplained
<1>3. ASSUME NEW r \in journal'
      PROVE  \/ \E p \in Serial : OfPayment(r, p)'
             \/ \E w \in withdraws' : OfWithdraw(r, w)
             \/ OfBill(r)
  <2>1. CASE r \in N
    BY <2>1
  <2>2. CASE r \in journal
    <3>1. ASSUME NEW p \in Serial, OfPayment(r, p)
          PROVE  OfPayment(r, p)'
      BY <3>1 DEF OfPayment, OwedKept
    <3>2. (\E p \in Serial : OfPayment(r, p)) \/ (\E w \in withdraws : OfWithdraw(r, w)) \/ OfBill(r)
      BY <1>0, <2>2 DEF RowsAreExplained
    <3>3. QED
      BY <3>1, <3>2
  <2>3. QED
    BY <2>1, <2>2
<1>4. RowsAreExplained'
  BY <1>2, <1>3 DEF RowsAreExplained, OfWithdraw, OfBill, IsSettlement
<1>5. RowsAreOne'
  BY <1>0 DEF RowsAreOne, SameKey, IsSettlement
<1>6. PaymentsHaveRows'
  <2>1. ASSUME NEW p \in Serial, NEW t \in PaymentType, Owed(payments[p], t)'
        PROVE  \E r \in journal' : r.content = <<"payment", p>> /\ r.transaction_type = t
    <3>1. \/ Owed(payments[p], t)
          \/ \E r \in N : r.content = <<"payment", p>> /\ r.transaction_type = t
      BY <2>1
    <3>2. CASE Owed(payments[p], t)
      <4>1. \E r \in journal : r.content = <<"payment", p>> /\ r.transaction_type = t
        BY ONLY <1>0, <3>2, p \in Serial, t \in PaymentType DEF PaymentsHaveRows
      <4>2. QED
        BY <1>a, <4>1
    <3>3. QED
      BY <3>1, <3>2
  <2>2. QED
    BY <2>1 DEF PaymentsHaveRows
<1>7. WithdrawsHaveRows'
  <2>1. ASSUME NEW w \in withdraws', w.status = "FINISHED"
        PROVE  \E r \in journal' : OfWithdraw(r, w)
    BY ONLY <1>0, <1>a, <1>b, <2>1 DEF WithdrawsHaveRows
  <2>2. QED
    BY ONLY <2>1 DEF WithdrawsHaveRows, OfWithdraw
<1>8. QED
  BY <1>1, <1>4, <1>5, <1>6, <1>7 DEF JournalIsKept

\* Money that was received stays so, and what is settled is not touched again.
LEMMA MoneyStays ==
  ASSUME TypeOK, NEW p \in Serial, PaymentStep(p)
  PROVE  /\ payments[p].status \in GotMoney => payments'[p].status \in GotMoney
         /\ payments[p].status \notin {"REFUND", "FINISHED"}
<1>0. payments \in [Serial -> Payment] /\ payments[p] \in Payment
  BY DEF TypeOK
<1> DEFINE From(S, s) == /\ payments[p].status \in S
                         /\ payments' = [payments EXCEPT ![p].status = s]
<1>1. ASSUME NEW s, NEW S, From(S, s)
      PROVE  payments'[p].status = s
  BY <1>0, <1>1 DEF Payment
<1> HIDE DEF From
<1>2. CASE \E ch \in Channel, m \in Merchant, c \in CouponId \cup {NoCoupon},
              price \in OrderPrice : PlaceOrder(p, ch, m, c, price)
  <2>1. payments[p].status = "NONE"
    BY <1>2 DEF PlaceOrder
  <2>2. QED
    BY <2>1 DEF GotMoney, NotRefunded
<1>3. CASE CancelOrder(p)
  <2>1. payments[p].status = "UNPAID"
    BY <1>3 DEF CancelOrder
  <2>2. QED
    BY <2>1 DEF GotMoney, NotRefunded
<1>4. CASE OnPaymentSuccess(p)
  <2>1. payments[p].status = "UNPAID"
    BY <1>4 DEF OnPaymentSuccess
  <2>2. QED
    BY <2>1 DEF GotMoney, NotRefunded
<1>5. CASE RequestRefund(p)
  <2>1. From({"FROZEN", "REFUND_FAILED"}, "REFUND_REQUESTED")
    BY <1>5 DEF RequestRefund, From
  <2>2. QED
    BY <1>1, <2>1 DEF GotMoney, NotRefunded, From
<1>6. CASE OnRefundFail(p)
  <2>1. From({"REFUND_REQUESTED"}, "REFUND_FAILED")
    BY <1>6 DEF OnRefundFail, RefundPending, From
  <2>2. QED
    BY <1>1, <2>1 DEF GotMoney, NotRefunded, From
<1>7. CASE OnRefundSuccess(p)
  <2>1. From({"REFUND_REQUESTED"}, "REFUND")
    BY <1>7 DEF OnRefundSuccess, RefundPending, From
  <2>2. QED
    BY <1>1, <2>1 DEF GotMoney, NotRefunded, From
<1>8. CASE OnPaymentUnfreeze(p)
  <2>1. From({"FROZEN"}, "FINISHED")
    BY <1>8 DEF OnPaymentUnfreeze, UnfreezeShared, UnfreezePlain, From
  <2>2. QED
    BY <1>1, <2>1 DEF GotMoney, NotRefunded, From
<1>9. QED
  BY <1>2, <1>3, <1>4, <1>5, <1>6, <1>7, <1>8 DEF PaymentStep

\* What a row of a payment says depends on what no step changes.
LEMMA SameWorth ==
  ASSUME TypeOK, CouponExists, CouponsKept, NEW p \in Serial, StatusBecomes(p, payments'[p].status)
  PROVE  /\ HasCoupon(payments'[p]) <=> HasCoupon(payments[p])
         /\ MerchantPart(payments[p])' = MerchantPart(payments[p])
         /\ \A t \in PaymentType :
              /\ t = "MERCHANT_SHARE" => HasCoupon(payments[p])
              => /\ Worth(payments[p], t)' = Worth(payments[p], t)
                 /\ Owner(payments[p], t)' = Owner(payments[p], t)
<1>1. /\ payments'[p].merchant = payments[p].merchant
      /\ payments'[p].coupon = payments[p].coupon
      /\ payments'[p].order_price = payments[p].order_price
      /\ payments'[p].platform_share = payments[p].platform_share
      /\ payments'[p].inviter_share = payments[p].inviter_share
      /\ payments'[p].originator_share = payments[p].originator_share
  BY DEF StatusBecomes
<1>2. HasCoupon(payments'[p]) <=> HasCoupon(payments[p])
  BY <1>1 DEF HasCoupon
<1>3. HasCoupon(payments[p]) =>
        /\ coupons'[payments'[p].coupon].discount = coupons[payments[p].coupon].discount
        /\ coupons'[payments'[p].coupon].originator = coupons[payments[p].coupon].originator
  BY <1>1, CouponType DEF CouponsKept, CouponExists
<1>4. Discount(payments[p])' = Discount(payments[p])
  BY <1>2, <1>3 DEF Discount, HasCoupon
<1>5. MerchantPart(payments[p])' = MerchantPart(payments[p])
  BY <1>1, <1>4 DEF MerchantPart, PaidPrice, TotalShare
<1>6. ASSUME NEW t \in PaymentType, t = "MERCHANT_SHARE" => HasCoupon(payments[p])
      PROVE  /\ Worth(payments[p], t)' = Worth(payments[p], t)
             /\ Owner(payments[p], t)' = Owner(payments[p], t)
  <2>1. Worth(payments[p], t)' = Worth(payments[p], t)
    BY <1>1, <1>5 DEF Worth, PaymentType
  <2>2. Owner(payments[p], t)' = Owner(payments[p], t)
    BY <1>1, <1>3, <1>6 DEF Owner, PaymentType
  <2>3. QED
    BY <2>1, <2>2
<1>7. QED
  BY <1>2, <1>5, <1>6

LEMMA StepKeepsOwed ==
  ASSUME LedgerInvariant, NEW p \in Serial, PaymentStep(p)
  PROVE  OwedKept
<1>0. TypeOK /\ CouponTerms /\ CouponExists
  BY DEF LedgerInvariant
<1>1. CouponsKept /\ OthersKept(p)
  BY <1>0, PaymentKeeps
<1>2. PaymentMoves(p)
  BY <1>0, StepMoves
<1>3. SUFFICES ASSUME NEW q \in Serial, NEW t \in PaymentType, Owed(payments[q], t)
               PROVE  /\ Owed(payments[q], t)'
                      /\ Owner(payments[q], t)' = Owner(payments[q], t)
                      /\ Worth(payments[q], t)' = Worth(payments[q], t)
  BY DEF OwedKept
<1>4. payments[q].status # "NONE"
  BY <1>3 DEF Owed, GotMoney, NotRefunded
<1>5. StatusBecomes(q, payments'[q].status)
  <2>1. CASE q = p
    BY <1>2, <1>4, <2>1 DEF PaymentMoves
  <2>2. CASE q # p
    BY <1>1, <2>2 DEF OthersKept, StatusBecomes
  <2>3. QED
    BY <2>1, <2>2
<1>6. t = "MERCHANT_SHARE" => HasCoupon(payments[q])
  BY <1>3 DEF Owed
<1>7. /\ HasCoupon(payments'[q]) <=> HasCoupon(payments[q])
      /\ Worth(payments[q], t)' = Worth(payments[q], t)
      /\ Owner(payments[q], t)' = Owner(payments[q], t)
  BY <1>0, <1>1, <1>5, <1>6, SameWorth
<1>8. Owed(payments'[q], t)
  <2>1. CASE q = p
    <3>1. /\ payments[p].status \in GotMoney => payments'[p].status \in GotMoney
          /\ payments[p].status \notin {"REFUND", "FINISHED"}
      BY <1>0, MoneyStays
    <3>2. QED
      BY <1>3, <2>1, <3>1 DEF Owed
  <2>2. CASE q # p
    BY <1>1, <1>3, <2>2 DEF OthersKept
  <2>3. QED
    BY <2>1, <2>2
<1>9. QED
  BY <1>7, <1>8 DEF Owed, HasCoupon

\* A payment that is not owed a row has none.
LEMMA NotYet ==
  ASSUME JournalIsKept, NEW p \in Serial, NEW t \in PaymentType, ~Owed(payments[p], t),
         NEW r \in journal, r.content = <<"payment", p>>, r.transaction_type = t
  PROVE  FALSE
<1>1. (\E q \in Serial : OfPayment(r, q)) \/ (\E w \in withdraws : OfWithdraw(r, w)) \/ OfBill(r)
  BY DEF JournalIsKept, RowsAreExplained
<1>2. r.content[1] = "payment" /\ r.content[2] = p
  OBVIOUS
<1>3. PICK q \in Serial : OfPayment(r, q)
  BY <1>1, <1>2 DEF OfWithdraw, OfBill
<1>4. q = p
  BY <1>2, <1>3 DEF OfPayment
<1>5. QED
  BY <1>3, <1>4 DEF OfPayment

\* Payment p writes a row of each of the types T.
LEMMA PaymentPosts ==
  ASSUME LedgerInvariant, PlacedHasDay, JournalIsKept, NEW p \in Serial, PaymentStep(p),
         day' = day, withdraws' = withdraws,
         NEW T \in SUBSET PaymentType, OwedOnly(p, T), \A t \in T : ~Owed(payments[p], t),
         NEW N, IsFiniteSet(N), journal' = journal \cup N,
         \A r \in N : r.day = day /\ OfPayment(r, p)' /\ r.transaction_type \in T,
         \A r, s \in N : r.transaction_type = s.transaction_type => r = s,
         \A t \in T : \E r \in N : r.transaction_type = t
  PROVE  JournalIsKept'
<1>1. OwedKept
  BY StepKeepsOwed
<1>2. day \in Nat /\ day \in 1..day
  BY DEF PlacedHasDay, Day
<1>3. \A r \in N : r.content = <<"payment", p>>
  BY DEF OfPayment
<1>4. \A r \in N, s \in journal : ~(SameKey(r, s) /\ ~IsSettlement(r))
  <2>1. SUFFICES ASSUME NEW r \in N, NEW s \in journal, SameKey(r, s)
                 PROVE  FALSE
    OBVIOUS
  <2>2. r.transaction_type \in PaymentType /\ ~Owed(payments[p], r.transaction_type)
    OBVIOUS
  <2>3. s.content = <<"payment", p>> /\ s.transaction_type = r.transaction_type
    BY <1>3, <2>1 DEF SameKey
  <2>4. QED
    BY <2>2, <2>3, NotYet
<1>5. ASSUME NEW q \in Serial, NEW t \in PaymentType, Owed(payments[q], t)'
      PROVE  \/ Owed(payments[q], t)
             \/ \E r \in N : r.content = <<"payment", q>> /\ r.transaction_type = t
  <2>1. Owed(payments[q], t) \/ (q = p /\ t \in T)
    BY <1>5 DEF OwedOnly
  <2>2. QED
    BY <1>3, <2>1
<1>6. \A r \in N : r.day \in 1..day'
  BY <1>2
<1>7. \A r, s \in N : SameKey(r, s) /\ ~IsSettlement(r) => r = s
  BY DEF SameKey
<1>8. /\ \A r \in N : \/ \E q \in Serial : OfPayment(r, q)'
                      \/ \E w \in withdraws' : OfWithdraw(r, w)
                      \/ OfBill(r)
      /\ \A w \in withdraws' : w.status = "FINISHED" =>
           w \in withdraws \/ \E r \in N : OfWithdraw(r, w)
      /\ withdraws \subseteq withdraws' /\ day' \in Nat /\ day <= day'
  BY <1>2
<1>9. QED
  BY <1>1, <1>2, <1>4, <1>5, <1>6, <1>7, <1>8, JournalStep

\* The rows of a step that are not of the platform, ...
Posted(types) == {j \in DOMAIN types : types[j] # ""}

\* ... and what is posted for them
Entry(content, types, i) ==
  [transaction_type |-> types[i], account |-> rows'[i].account,
   amount |-> rows'[i].amount, day |-> day, content |-> content]

LEMMA Posts ==
  ASSUME NEW content, NEW types, NEW I, Post(content, types), Posted(types) = I
  PROVE  journal' = journal \cup {Entry(content, types, i) : i \in I}
<1>1. journal' = journal \cup {Entry(content, types, i) : i \in Posted(types)}
  BY DEF Post, Posted, Entry
<1>2. QED
  BY <1>1

\* Every transaction of a sale writes the rows it owes.
LEMMA SaleJournal ==
  ASSUME SalesAreKept, JournalIsKept, SaleStep
  PROVE  JournalIsKept'
<1>1. PICK p \in Serial : OpenOrder(p) \/ Receive(p) \/ ReturnMoney(p) \/ Unfreeze(p)
  BY DEF SaleStep
<1>2. day' = day /\ withdraws' = withdraws
  BY DEF SaleStep
<1>3. PaymentStep(p)
  BY <1>1 DEF OpenOrder, Receive, ReturnMoney, Unfreeze, PaymentStep, OnPaymentUnfreeze
<1>4. LedgerInvariant /\ PlacedHasDay /\ TypeOK /\ CouponTerms /\ CouponExists
  BY DEF SalesAreKept, LedgerInvariant
<1>5. CouponsKept /\ OthersKept(p) /\ PaymentMoves(p)
  BY <1>3, <1>4, PaymentKeeps, StepMoves
<1>6. payments \in [Serial -> Payment] /\ payments[p] \in Payment
  BY <1>4 DEF TypeOK
\* a change of the status that writes no row
<1>7. ASSUME payments'[p].status \notin {"REFUND", "FINISHED"},
             payments'[p].status \in GotMoney => payments[p].status \in GotMoney,
             journal' = journal
      PROVE  JournalIsKept'
  <2>1. OwedOnly(p, {})
    BY <1>5, <1>7 DEF OwedOnly, Owed, OthersKept
  <2>2. /\ IsFiniteSet({}) /\ journal' = journal \cup {}
        /\ \A r \in {} : r.day = day /\ OfPayment(r, p)' /\ r.transaction_type \in {}
    BY <1>7, FS_EmptySet
  <2> DEFINE T == {}
             N == {}
  <2>3. /\ T \in SUBSET PaymentType /\ OwedOnly(p, T) /\ (\A t \in T : ~Owed(payments[p], t))
        /\ IsFiniteSet(N) /\ journal' = journal \cup N
        /\ \A r \in N : r.day = day /\ OfPayment(r, p)' /\ r.transaction_type \in T
        /\ \A r, s \in N : r.transaction_type = s.transaction_type => r = s
        /\ \A t \in T : \E r \in N : r.transaction_type = t
    BY <2>1, <2>2
  <2> HIDE DEF T, N
  <2>4. QED
    BY <1>2, <1>3, <1>4, <2>3, PaymentPosts
<1>8. CASE OpenOrder(p)
  <2>1. payments'[p].status \in {"UNPAID", "CANCELLED"} \/
        (payments'[p].status \in {"REFUND_REQUESTED", "REFUND_FAILED"} /\ payments[p].status \in GotMoney)
    BY <1>6, <1>8 DEF OpenOrder, PlaceOrder, CancelOrder, RequestRefund, OnRefundFail, RefundPending,
                      Payment, GotMoney, NotRefunded
  <2>2. journal' = journal
    BY <1>8 DEF OpenOrder
  <2>3. QED
    BY <1>7, <2>1, <2>2 DEF GotMoney, NotRefunded
\* what a row of p says
<1>9. ASSUME payments[p].status # "NONE"
      PROVE  /\ HasCoupon(payments'[p]) <=> HasCoupon(payments[p])
             /\ \A t \in PaymentType :
                  (t = "MERCHANT_SHARE" => HasCoupon(payments[p]))
                  => /\ Worth(payments[p], t)' = Worth(payments[p], t)
                     /\ Owner(payments[p], t)' = Owner(payments[p], t)
  BY <1>4, <1>5, <1>9, SameWorth DEF PaymentMoves
<1>10. ASSUME NEW T \in SUBSET PaymentType, NEW N, IsFiniteSet(N), journal' = journal \cup N,
              payments[p].status # "NONE", OwedOnly(p, T),
              \A t \in T : ~Owed(payments[p], t) /\ Owed(payments'[p], t),
              \A r \in N : /\ r.day = day /\ r.content = <<"payment", p>>
                           /\ r.transaction_type \in T
                           /\ r.account = Owner(payments[p], r.transaction_type)
                           /\ r.amount = Worth(payments[p], r.transaction_type),
              \A r, s \in N : r.transaction_type = s.transaction_type => r = s,
              \A t \in T : \E r \in N : r.transaction_type = t
       PROVE  JournalIsKept'
  <2>1. ASSUME NEW r \in N
        PROVE  r.day = day /\ OfPayment(r, p)' /\ r.transaction_type \in T
    <3>1. /\ r.transaction_type \in PaymentType /\ Owed(payments'[p], r.transaction_type)
          /\ r.content = <<"payment", p>> /\ r.day = day /\ r.transaction_type \in T
      BY <1>10
    <3>2. r.transaction_type = "MERCHANT_SHARE" => HasCoupon(payments[p])
      BY <1>9, <1>10, <3>1 DEF Owed
    <3>3. /\ r.account = Owner(payments[p], r.transaction_type)'
          /\ r.amount = Worth(payments[p], r.transaction_type)'
      BY <1>9, <1>10, <3>1, <3>2
    <3>4. QED
      BY <3>1, <3>3 DEF OfPayment, Owed, HasCoupon
  <2>2. QED
    BY <1>2, <1>3, <1>4, <1>10, <2>1, PaymentPosts
<1>11. CASE Receive(p)
  <2> DEFINE x == payments[p]
             new == [transaction_type |-> "MERCHANT_RECEIVE", account |-> x.merchant,
                     amount |-> MerchantPart(x), day |-> day, content |-> <<"payment", p>>]
  <2>1. x.status = "UNPAID" /\ payments'[p].status = "FROZEN"
    BY <1>6, <1>11 DEF Receive, OnPaymentSuccess, Payment
  <2>2. rows'[3].account = x.merchant /\ rows'[3].amount = MerchantPart(x)
    BY <1>11 DEF Receive, OnPaymentSuccess
  <2>3. journal' = journal \cup {new}
    <3> DEFINE types == <<"", "", "MERCHANT_RECEIVE">>
    <3>1. Posted(types) = {3} /\ types[3] = "MERCHANT_RECEIVE"
      <4>1. DOMAIN types = {1, 2, 3}
        OBVIOUS
      <4>2. types[1] = "" /\ types[2] = "" /\ types[3] = "MERCHANT_RECEIVE"
        OBVIOUS
      <4> HIDE DEF types
      <4>3. QED
        BY <4>1, <4>2 DEF Posted
    <3> HIDE DEF types
    <3>2. Post(<<"payment", p>>, types)
      BY <1>11 DEF Receive, types
    <3>3. journal' = journal \cup {Entry(<<"payment", p>>, types, i) : i \in {3}}
      BY <3>1, <3>2, Posts
    <3>4. Entry(<<"payment", p>>, types, 3) = new
      BY <2>2, <3>1 DEF Entry
    <3> HIDE DEF new
    <3>5. QED
      BY <3>3, <3>4
  <2>4. OwedOnly(p, {"MERCHANT_RECEIVE"})
    BY <1>5, <2>1 DEF OwedOnly, Owed, OthersKept
  <2>5. ~Owed(x, "MERCHANT_RECEIVE") /\ Owed(payments'[p], "MERCHANT_RECEIVE")
    BY <2>1 DEF Owed, GotMoney, NotRefunded
  <2>6. /\ new.day = day /\ new.content = <<"payment", p>>
        /\ new.transaction_type = "MERCHANT_RECEIVE"
        /\ new.account = Owner(x, new.transaction_type)
        /\ new.amount = Worth(x, new.transaction_type)
    BY DEF Owner, Worth
  <2>7. {"MERCHANT_RECEIVE"} \in SUBSET PaymentType /\ IsFiniteSet({new}) /\ x.status # "NONE"
    BY <2>1, FS_Singleton DEF PaymentType
  <2> HIDE DEF new, x
  <2>8. QED
    BY <1>10, <2>3, <2>4, <2>5, <2>6, <2>7 DEF x
<1>12. CASE ReturnMoney(p)
  <2> DEFINE x == payments[p]
             new == [transaction_type |-> "MERCHANT_REFUND", account |-> x.merchant,
                     amount |-> -MerchantPart(x), day |-> day, content |-> <<"payment", p>>]
  <2>1. x.status = "REFUND_REQUESTED" /\ payments'[p].status = "REFUND"
    BY <1>6, <1>12 DEF ReturnMoney, OnRefundSuccess, RefundPending, Payment
  <2>2. rows'[1].account = x.merchant /\ rows'[1].amount = -MerchantPart(x)
    BY <1>12 DEF ReturnMoney, OnRefundSuccess
  <2>3. journal' = journal \cup {new}
    <3> DEFINE types == <<"MERCHANT_REFUND", "", "">>
    <3>1. Posted(types) = {1} /\ types[1] = "MERCHANT_REFUND"
      <4>1. DOMAIN types = {1, 2, 3}
        OBVIOUS
      <4>2. types[1] = "MERCHANT_REFUND" /\ types[2] = "" /\ types[3] = ""
        OBVIOUS
      <4> HIDE DEF types
      <4>3. QED
        BY <4>1, <4>2 DEF Posted
    <3> HIDE DEF types
    <3>2. Post(<<"payment", p>>, types)
      BY <1>12 DEF ReturnMoney, types
    <3>3. journal' = journal \cup {Entry(<<"payment", p>>, types, i) : i \in {1}}
      BY <3>1, <3>2, Posts
    <3>4. Entry(<<"payment", p>>, types, 1) = new
      BY <2>2, <3>1 DEF Entry
    <3> HIDE DEF new
    <3>5. QED
      BY <3>3, <3>4
  <2>4. OwedOnly(p, {"MERCHANT_REFUND"})
    <3>1. \A t \in PaymentType :
            Owed(payments'[p], t) => Owed(payments[p], t) \/ t = "MERCHANT_REFUND"
      BY <2>1 DEF Owed, GotMoney, NotRefunded
    <3>2. QED
      BY <1>5, <3>1 DEF OwedOnly, Owed, OthersKept, HasCoupon
  <2>5. ~Owed(x, "MERCHANT_REFUND") /\ Owed(payments'[p], "MERCHANT_REFUND")
    BY <2>1 DEF Owed
  <2>6. /\ new.day = day /\ new.content = <<"payment", p>>
        /\ new.transaction_type = "MERCHANT_REFUND"
        /\ new.account = Owner(x, new.transaction_type)
        /\ new.amount = Worth(x, new.transaction_type)
    BY DEF Owner, Worth
  <2>7. {"MERCHANT_REFUND"} \in SUBSET PaymentType /\ IsFiniteSet({new}) /\ x.status # "NONE"
    BY <2>1, FS_Singleton DEF PaymentType
  <2> HIDE DEF new, x
  <2>8. QED
    BY <1>10, <2>3, <2>4, <2>5, <2>6, <2>7 DEF x
<1>13. CASE UnfreezePlain(p) /\ UNCHANGED journal
  <2>1. /\ payments[p].status = "FROZEN" /\ payments'[p].status = "FINISHED"
        /\ ~HasCoupon(payments[p])
    BY <1>6, <1>13 DEF UnfreezePlain, Payment
  <2>2. ~HasCoupon(payments'[p])
    BY <1>9, <2>1
  <2> DEFINE T == {}
             N == {}
  <2>3. OwedOnly(p, T)
    <3>1. \A t \in PaymentType : Owed(payments'[p], t) => Owed(payments[p], t)
      BY <2>1, <2>2 DEF Owed, GotMoney, NotRefunded
    <3>2. QED
      BY <1>5, <3>1 DEF OwedOnly, Owed, OthersKept, HasCoupon
  <2>4. /\ T \in SUBSET PaymentType /\ (\A t \in T : ~Owed(payments[p], t) /\ Owed(payments'[p], t))
        /\ IsFiniteSet(N) /\ journal' = journal \cup N /\ payments[p].status # "NONE"
        /\ \A r \in N : /\ r.day = day /\ r.content = <<"payment", p>>
                        /\ r.transaction_type \in T
                        /\ r.account = Owner(payments[p], r.transaction_type)
                        /\ r.amount = Worth(payments[p], r.transaction_type)
        /\ \A r, s \in N : r.transaction_type = s.transaction_type => r = s
        /\ \A t \in T : \E r \in N : r.transaction_type = t
    BY <1>13, <2>1, FS_EmptySet
  <2> HIDE DEF T, N
  <2>5. QED
    BY <1>10, <2>3, <2>4
<1>14. CASE UnfreezeShared(p) /\ Post(<<"payment", p>>, <<"", "", "", "", "MERCHANT_SHARE", "MARKETER_SHARE">>)
  <2> DEFINE x == payments[p]
             T == {"MERCHANT_SHARE", "MARKETER_SHARE"}
             new(t) == [transaction_type |-> t, account |-> Owner(x, t),
                        amount |-> Worth(x, t), day |-> day, content |-> <<"payment", p>>]
             N == {new(t) : t \in T}
  <2>1. /\ x.status = "FROZEN" /\ payments'[p].status = "FINISHED" /\ HasCoupon(x)
    BY <1>6, <1>14 DEF UnfreezeShared, Payment
  <2>2. /\ rows'[5].account = Owner(x, "MERCHANT_SHARE") /\ rows'[5].amount = Worth(x, "MERCHANT_SHARE")
        /\ rows'[6].account = Owner(x, "MARKETER_SHARE") /\ rows'[6].amount = Worth(x, "MARKETER_SHARE")
    BY <1>14 DEF UnfreezeShared, Owner, Worth
  <2>3. journal' = journal \cup N
    <3> DEFINE types == <<"", "", "", "", "MERCHANT_SHARE", "MARKETER_SHARE">>
    <3>1. /\ Posted(types) = {5, 6}
          /\ types[5] = "MERCHANT_SHARE" /\ types[6] = "MARKETER_SHARE"
      <4>1. DOMAIN types = {1, 2, 3, 4, 5, 6}
        OBVIOUS
      <4>2. /\ types[1] = "" /\ types[2] = "" /\ types[3] = "" /\ types[4] = ""
            /\ types[5] = "MERCHANT_SHARE" /\ types[6] = "MARKETER_SHARE"
        OBVIOUS
      <4> HIDE DEF types
      <4>3. QED
        BY <4>1, <4>2 DEF Posted
    <3> HIDE DEF types
    <3>2. Post(<<"payment", p>>, types)
      BY <1>14 DEF types
    <3>3. journal' = journal \cup {Entry(<<"payment", p>>, types, i) : i \in {5, 6}}
      BY <3>1, <3>2, Posts
    <3>4. Entry(<<"payment", p>>, types, 5) = new("MERCHANT_SHARE") /\ Entry(<<"payment", p>>, types, 6) = new("MARKETER_SHARE")
      BY <2>2, <3>1 DEF Entry
    <3> HIDE DEF new
    <3>5. QED
      BY <3>3, <3>4
  <2>4. HasCoupon(payments'[p])
    BY <1>9, <2>1
  <2>5. OwedOnly(p, T)
    <3>1. \A t \in PaymentType : Owed(payments'[p], t) => Owed(payments[p], t) \/ t \in T
      BY <2>1 DEF Owed, GotMoney, NotRefunded
    <3>2. QED
      BY <1>5, <3>1 DEF OwedOnly, Owed, OthersKept, HasCoupon
  <2>6. \A t \in T : ~Owed(x, t) /\ Owed(payments'[p], t)
    BY <2>1, <2>4 DEF Owed
  <2>7. /\ T \in SUBSET PaymentType /\ x.status # "NONE"
    BY <2>1 DEF PaymentType
  <2>8. IsFiniteSet(N)
    <3>1. N = {new("MERCHANT_SHARE")} \cup {new("MARKETER_SHARE")}
      OBVIOUS
    <3> HIDE DEF N, new
    <3>2. QED
      BY <3>1, FS_Singleton, FS_Union
  <2>9. /\ \A r \in N : /\ r.day = day /\ r.content = <<"payment", p>>
                        /\ r.transaction_type \in T
                        /\ r.account = Owner(x, r.transaction_type)
                        /\ r.amount = Worth(x, r.transaction_type)
        /\ \A r, s \in N : r.transaction_type = s.transaction_type => r = s
        /\ \A t \in T : \E r \in N : r.transaction_type = t
    <3>1. \A t \in T : /\ new(t).day = day /\ new(t).content = <<"payment", p>>
                        /\ new(t).transaction_type = t
                        /\ new(t).account = Owner(x, t) /\ new(t).amount = Worth(x, t)
      OBVIOUS
    <3> HIDE DEF new, T, x
    <3>2. QED
      BY <3>1
  <2> HIDE DEF N, T, x, new
  <2>10. QED
    BY <1>10, <2>3, <2>5, <2>6, <2>7, <2>8, <2>9 DEF x
<1>15. QED
  BY <1>1, <1>8, <1>11, <1>12, <1>13, <1>14 DEF Unfreeze

-----------------------------------------------------------------------------
(* Amounts of rows and of withdrawals                                      *)

\* A set of rows adds up what each has.
LEMMA AmountIs ==
  ASSUME NEW J, IsFiniteSet(J), NEW S \in SUBSET J
  PROVE  AmountOf(S) = SumFunctionOnSet([r \in J |-> r.amount], S)
<1> DEFINE f == [r \in S |-> r.amount]
           g == [r \in J |-> r.amount]
<1>1. IsFiniteSet(S) /\ DOMAIN f = S /\ \A r \in S : f[r] = g[r]
  BY FS_Subset
<1>2. AmountOf(S) = SumFunction(f)
  BY DEF AmountOf
<1> HIDE DEF f, g
<1>3. SumFunction(f) = SumFunctionOnSet(f, S)
  BY <1>1, SumOfFunction
<1>4. SumFunctionOnSet(f, S) = SumFunctionOnSet(g, S)
  BY <1>1, SumSame
<1>5. QED
  BY <1>2, <1>3, <1>4 DEF g

LEMMA AmountType ==
  ASSUME NEW S, IsFiniteSet(S), \A r \in S : r.amount \in Int
  PROVE  AmountOf(S) \in Int
<1> DEFINE g == [r \in S |-> r.amount]
<1>1. (\A r \in S : g[r] \in Int) /\ S \in SUBSET S
  OBVIOUS
<1>2. AmountOf(S) = SumFunctionOnSet(g, S)
  BY <1>1, AmountIs
<1> HIDE DEF g
<1>3. QED
  BY <1>1, <1>2, SumTakes

LEMMA AmountPuts ==
  ASSUME NEW S, NEW y, IsFiniteSet(S), y \notin S, \A r \in S \cup {y} : r.amount \in Int
  PROVE  AmountOf(S \cup {y}) = y.amount + AmountOf(S)
<1> DEFINE J == S \cup {y}
           g == [r \in J |-> r.amount]
<1>1. IsFiniteSet(J) /\ S \in SUBSET J /\ J \in SUBSET J /\ g[y] = y.amount
  BY FS_AddElement
<1>2. \A r \in S \cup {y} : g[r] \in Int
  OBVIOUS
<1>3. AmountOf(S) = SumFunctionOnSet(g, S) /\ AmountOf(J) = SumFunctionOnSet(g, J)
  <2> HIDE DEF J
  <2>1. AmountOf(S) = SumFunctionOnSet([r \in J |-> r.amount], S)
    BY <1>1, AmountIs
  <2>2. AmountOf(J) = SumFunctionOnSet([r \in J |-> r.amount], J)
    BY <1>1, AmountIs
  <2>3. QED
    BY <2>1, <2>2
<1> HIDE DEF g
<1>4. SumFunctionOnSet(g, S \cup {y}) = g[y] + SumFunctionOnSet(g, S)
  BY <1>2, SumPuts
<1>5. QED
  BY <1>1, <1>3, <1>4

LEMMA AmountUnion ==
  ASSUME NEW S, NEW T, IsFiniteSet(S), IsFiniteSet(T), S \cap T = {},
         \A r \in S \cup T : r.amount \in Int
  PROVE  AmountOf(S \cup T) = AmountOf(S) + AmountOf(T)
<1> DEFINE J == S \cup T
           g == [r \in J |-> r.amount]
<1>1. IsFiniteSet(J) /\ S \in SUBSET J /\ T \in SUBSET J /\ J \in SUBSET J
  BY FS_Union
<1>2. \A r \in S \cup T : g[r] \in Int
  OBVIOUS
<1>3. /\ AmountOf(S) = SumFunctionOnSet(g, S) /\ AmountOf(T) = SumFunctionOnSet(g, T)
      /\ AmountOf(J) = SumFunctionOnSet(g, J)
  <2> HIDE DEF J
  <2>1. AmountOf(S) = SumFunctionOnSet([r \in J |-> r.amount], S)
    BY <1>1, AmountIs
  <2>2. AmountOf(T) = SumFunctionOnSet([r \in J |-> r.amount], T)
    BY <1>1, AmountIs
  <2>3. AmountOf(J) = SumFunctionOnSet([r \in J |-> r.amount], J)
    BY <1>1, AmountIs
  <2>4. QED
    BY <2>1, <2>2, <2>3
<1> HIDE DEF g
<1>4. SumFunctionOnSet(g, S \cup T) = SumFunctionOnSet(g, S) + SumFunctionOnSet(g, T)
  BY <1>2, SumUnion
<1>5. QED
  BY <1>3, <1>4

-----------------------------------------------------------------------------
(* Money that leaves                                                       *)

FinishedOf(a) == {w \in withdraws : w.status = "FINISHED" /\ w.account = a}

\* What was paid out of an account is in its withdrawals and its bills.
PaidOutIsKept ==
  \A a \in Person :
    Money(paidOut, a) = AmountOf(FinishedOf(a)) + (Settled(a, "WECHAT") + Settled(a, "ALIPAY"))

BooksAreKept == JournalIsKept /\ WithdrawsAreKept /\ PaidOutIsKept

LEMMA FinishedAmounts ==
  ASSUME WithdrawsAreKept, NEW a \in Person
  PROVE  /\ IsFiniteSet(FinishedOf(a)) /\ FinishedOf(a) \in SUBSET withdraws
         /\ \A w \in FinishedOf(a) : w.amount \in Int
         /\ AmountOf(FinishedOf(a)) \in Int
<1> DEFINE S == FinishedOf(a)
<1>1. S \subseteq withdraws
  BY DEF FinishedOf
<1>2. IsFiniteSet(S) /\ \A w \in S : w.amount \in Int
  BY <1>1, FS_Subset DEF WithdrawsAreKept
<1> HIDE DEF S
<1>3. AmountOf(S) \in Int
  BY <1>2, AmountType
<1>4. QED
  BY <1>1, <1>2, <1>3 DEF S

\* Steps that leave the sales alone owe nothing.
LEMMA SameOwed ==
  ASSUME SalesUntouched
  PROVE  /\ OwedKept
         /\ \A p \in Serial, t \in PaymentType : Owed(payments[p], t)' => Owed(payments[p], t)
BY DEF SalesUntouched, OwedKept, Owed, Owner, Worth, HasCoupon, MerchantPart, PaidPrice, Discount

\* A withdrawal gets the next number.
LEMMA WithdrawsGrow ==
  ASSUME WithdrawsAreKept, day \in Nat, 1 <= day, day' = day, NEW new,
         new.serial_number = Cardinality(withdraws) + 1, new.account \in Person,
         new.amount \in Nat, new.day = day, withdraws' = withdraws \cup {new}
  PROVE  /\ WithdrawsAreKept' /\ new \notin withdraws
<1>1. Cardinality(withdraws) \in Nat /\ new \notin withdraws
  <2>1. Cardinality(withdraws) \in Nat
    BY FS_CardinalityType DEF WithdrawsAreKept
  <2>2. QED
    BY <2>1 DEF WithdrawsAreKept
<1>2. IsFiniteSet(withdraws') /\ Cardinality(withdraws') = Cardinality(withdraws) + 1
  BY <1>1, FS_AddElement DEF WithdrawsAreKept
<1>3. PICK n \in Nat : n = Cardinality(withdraws)
  BY <1>1
<1>4. /\ \A w \in withdraws : /\ w.serial_number \in 1..n
                              /\ w.account \in Person /\ w.amount \in Nat /\ w.day \in 1..day
      /\ \A v, w \in withdraws : v.serial_number = w.serial_number => v = w
  BY <1>3 DEF WithdrawsAreKept
<1>5. \A w \in withdraws' : /\ w.serial_number \in 1..(n + 1)
                            /\ w.account \in Person /\ w.amount \in Nat /\ w.day \in 1..day'
  BY <1>3, <1>4
<1>6. \A v, w \in withdraws' : v.serial_number = w.serial_number => v = w
  <2>1. \A w \in withdraws : w.serial_number # new.serial_number
    BY <1>3, <1>4
  <2>2. QED
    BY <1>4, <2>1
<1>7. QED
  BY <1>1, <1>2, <1>3, <1>5, <1>6 DEF WithdrawsAreKept

\* What is settled of an account stays as long as the amounts of its bills do.
LEMMA SameSettled ==
  ASSUME SettlementTypeOK, bills' = bills, NEW a \in Person
  PROVE  Settled(a, "WECHAT")' = Settled(a, "WECHAT") /\ Settled(a, "ALIPAY")' = Settled(a, "ALIPAY")
<1>1. a \in Account /\ "WECHAT" \in Channel /\ "ALIPAY" \in Channel
  BY DEF Person, Account, Channel
<1>2. QED
  BY <1>1, SettledSame

LEMMA SettledInt ==
  ASSUME SettlementTypeOK, NEW a \in Person
  PROVE  Settled(a, "WECHAT") + Settled(a, "ALIPAY") \in Int
<1>1. a \in Account /\ "WECHAT" \in Channel /\ "ALIPAY" \in Channel
  BY DEF Person, Account, Channel
<1>2. QED
  BY <1>1, SettledType

\* A withdrawal writes its row, or none when it failed.
LEMMA WithdrawBooks ==
  ASSUME SalesAreKept, BooksAreKept, NEW a \in Person, NEW ch \in Channel, NEW n \in Amount,
         WithdrawStep(a, ch, n)
  PROVE  BooksAreKept'
<1> DEFINE c == Cardinality(withdraws)
           type == IF a \in Merchant THEN "MERCHANT_WITHDRAW" ELSE "MARKETER_WITHDRAW"
           new(status) == [serial_number |-> c + 1, account |-> a, amount |-> n, day |-> day,
                           status |-> status]
           entry == [transaction_type |-> type, account |-> a, amount |-> -n, day |-> day,
                     content |-> <<"withdraw", c + 1>>]
<1>1. /\ JournalIsKept /\ WithdrawsAreKept /\ PaidOutIsKept /\ TypeOK /\ SettlementTypeOK
      /\ day \in Nat /\ 1 <= day /\ n \in Nat
  BY BoundAssumption DEF BooksAreKept, SalesAreKept, LedgerInvariant, PlacedHasDay, Day
<1>2. day' = day /\ bills' = bills /\ SalesUntouched
  BY DEF WithdrawStep, Withdraw, days, vars, SalesUntouched
<1>3. OwedKept /\ \A p \in Serial, t \in PaymentType : Owed(payments[p], t)' => Owed(payments[p], t)
  BY <1>2, SameOwed
<1>4. c \in Nat /\ c = Cardinality(withdraws)
  BY <1>1, FS_CardinalityType DEF WithdrawsAreKept
<1>5. ASSUME NEW status, withdraws' = withdraws \cup {new(status)}
      PROVE  WithdrawsAreKept' /\ new(status) \notin withdraws
  <2> DEFINE w == new(status)
  <2>1. w.serial_number = Cardinality(withdraws) + 1 /\ w.account \in Person
        /\ w.amount \in Nat /\ w.day = day /\ withdraws' = withdraws \cup {w}
    BY <1>1, <1>5
  <2> HIDE DEF w
  <2>2. QED
    BY <1>1, <1>2, <2>1, WithdrawsGrow DEF w
<1>6. \A b \in Person : /\ Settled(b, "WECHAT")' = Settled(b, "WECHAT")
                        /\ Settled(b, "ALIPAY")' = Settled(b, "ALIPAY")
  BY <1>1, <1>2, SameSettled
<1>7. CASE withdraws' = withdraws \cup {new("FAILED")} /\ UNCHANGED <<vars, journal>>
  <2>1. WithdrawsAreKept'
    BY <1>5, <1>7
  <2>2. \A w \in withdraws' : w.status = "FINISHED" => w \in withdraws
    BY <1>7
  <2>3. JournalIsKept'
    <3> DEFINE N == {}
    <3>1. /\ IsFiniteSet(N) /\ journal' = journal \cup N
          /\ \A r \in N : r.day \in 1..day'
          /\ \A r \in N : \/ \E p \in Serial : OfPayment(r, p)'
                          \/ \E w \in withdraws' : OfWithdraw(r, w)
                          \/ OfBill(r)
          /\ \A r, s \in N : SameKey(r, s) /\ ~IsSettlement(r) => r = s
          /\ \A r \in N, s \in journal : ~(SameKey(r, s) /\ ~IsSettlement(r))
      BY <1>7, FS_EmptySet
    <3>2. /\ withdraws \subseteq withdraws' /\ day' \in Nat /\ day <= day'
          /\ \A p \in Serial, t \in PaymentType : Owed(payments[p], t)' =>
               \/ Owed(payments[p], t)
               \/ \E r \in N : r.content = <<"payment", p>> /\ r.transaction_type = t
          /\ \A w \in withdraws' : w.status = "FINISHED" =>
               w \in withdraws \/ \E r \in N : OfWithdraw(r, w)
      BY <1>1, <1>2, <1>3, <1>7, <2>2
    <3> HIDE DEF N
    <3>3. QED
      BY <1>1, <1>3, <3>1, <3>2, JournalStep
  <2>4. PaidOutIsKept'
    <3>1. ASSUME NEW b \in Person
          PROVE  FinishedOf(b)' = FinishedOf(b)
      BY <1>7, <2>2 DEF FinishedOf
    <3>2. paidOut' = paidOut
      BY <1>7 DEF vars
    <3>3. QED
      BY <1>1, <1>6, <3>1, <3>2 DEF PaidOutIsKept, Money
  <2>5. QED
    BY <2>1, <2>3, <2>4 DEF BooksAreKept
<1>8. CASE /\ Withdraw(a, ch, n) /\ Post(<<"withdraw", c + 1>>, <<type>>)
           /\ withdraws' = withdraws \cup {new("FINISHED")}
  <2> DEFINE w == new("FINISHED")
  <2>1. WithdrawsAreKept' /\ w \notin withdraws /\ withdraws' = withdraws \cup {w}
    BY <1>5, <1>8
  <2>2. /\ w.serial_number = c + 1 /\ w.account = a /\ w.amount = n /\ w.status = "FINISHED"
        /\ entry.transaction_type = type /\ entry.account = a /\ entry.amount = -n
        /\ entry.day = day /\ entry.content = <<"withdraw", c + 1>>
    OBVIOUS
  <2>3. journal' = journal \cup {entry}
    <3>1. rows'[1].account = a /\ rows'[1].amount = -n
      BY <1>8 DEF Withdraw, PayOutRow
    <3>2. Posted(<<type>>) = {1}
      <4>1. type # ""
        OBVIOUS
      <4> HIDE DEF type
      <4>2. DOMAIN <<type>> = {1} /\ <<type>>[1] = type
        OBVIOUS
      <4>3. QED
        BY <4>1, <4>2 DEF Posted
    <3>3. journal' = journal \cup {Entry(<<"withdraw", c + 1>>, <<type>>, i) : i \in {1}}
      BY <1>8, <3>2, Posts
    <3>4. Entry(<<"withdraw", c + 1>>, <<type>>, 1) = entry
      BY <3>1 DEF Entry
    <3>5. QED
      BY <3>3, <3>4
  <2> HIDE DEF w, entry
  <2>4. JournalIsKept'
    <3>1. OfWithdraw(entry, w) /\ ~IsSettlement(entry)
      BY <2>2 DEF OfWithdraw, IsSettlement
    <3>2. \A s \in journal : ~SameKey(entry, s)
      <4>1. SUFFICES ASSUME NEW s \in journal, s.content = <<"withdraw", c + 1>>
                     PROVE  FALSE
        BY <2>2 DEF SameKey
      <4>2. s.content[1] = "withdraw" /\ s.content[2] = c + 1
        BY <4>1
      <4>3. (\E p \in Serial : OfPayment(s, p)) \/ (\E v \in withdraws : OfWithdraw(s, v)) \/ OfBill(s)
        BY <1>1 DEF JournalIsKept, RowsAreExplained
      <4>4. PICK v \in withdraws : OfWithdraw(s, v)
        BY <4>2, <4>3 DEF OfPayment, OfBill
      <4>5. v.serial_number = c + 1
        BY <4>2, <4>4 DEF OfWithdraw
      <4>6. QED
        BY <1>1, <1>4, <4>5 DEF WithdrawsAreKept
    <3> DEFINE N == {entry}
    <3>a. IsFiniteSet(N) /\ journal' = journal \cup N /\ \A r \in N : r.day \in 1..day'
      <4>1. IsFiniteSet(N)
        BY FS_Singleton
      <4>2. journal' = journal \cup N
        BY <2>3
      <4>3. \A r \in N : r.day \in 1..day'
        BY <1>1, <1>2, <2>2
      <4> HIDE DEF N
      <4>4. QED
        BY <4>1, <4>2, <4>3
    <3>b. \A r \in N : \/ \E p \in Serial : OfPayment(r, p)'
                       \/ \E v \in withdraws' : OfWithdraw(r, v)
                       \/ OfBill(r)
      BY <2>1, <3>1
    <3>3. /\ \A r, s \in N : SameKey(r, s) /\ ~IsSettlement(r) => r = s
          /\ \A r \in N, s \in journal : ~(SameKey(r, s) /\ ~IsSettlement(r))
      BY <3>2
    <3>4. /\ withdraws \subseteq withdraws' /\ day' \in Nat /\ day <= day'
          /\ \A p \in Serial, t \in PaymentType : Owed(payments[p], t)' =>
               \/ Owed(payments[p], t)
               \/ \E r \in N : r.content = <<"payment", p>> /\ r.transaction_type = t
          /\ \A v \in withdraws' : v.status = "FINISHED" =>
               v \in withdraws \/ \E r \in N : OfWithdraw(r, v)
      BY <1>1, <1>2, <1>3, <2>1, <3>1
    <3> HIDE DEF N
    <3>5. QED
      BY <1>1, <1>3, <3>a, <3>b, <3>3, <3>4, JournalStep
  <2>5. PaidOutIsKept'
    <3>1. SUFFICES ASSUME NEW b \in Person
                   PROVE  Money(paidOut, b)' = AmountOf(FinishedOf(b))'
                            + (Settled(b, "WECHAT") + Settled(b, "ALIPAY"))'
      BY DEF PaidOutIsKept
    <3>2. Money(paidOut, b) = AmountOf(FinishedOf(b)) + (Settled(b, "WECHAT") + Settled(b, "ALIPAY"))
      BY <1>1 DEF PaidOutIsKept
    <3>3. paidOut \in [Purse -> Int] /\ paidOut' = [paidOut EXCEPT ![<<a, ch>>] = @ + n]
          /\ <<a, ch>> \in Purse /\ <<b, "WECHAT">> \in Purse /\ <<b, "ALIPAY">> \in Purse
      BY <1>1, <1>8 DEF TypeOK, Withdraw, PayOut, TakeOut, Add, Purse, Person, Account, Channel
    <3>4. paidOut[<<b, "WECHAT">>] \in Int /\ paidOut[<<b, "ALIPAY">>] \in Int /\ Money(paidOut, b) \in Int
      BY <3>3 DEF Money
    <3>5. Money(paidOut', b) = Money(paidOut, b) + (IF b = a THEN n ELSE 0)
      <4>1. CASE b # a
        <5>1. paidOut'[<<b, "WECHAT">>] = paidOut[<<b, "WECHAT">>]
              /\ paidOut'[<<b, "ALIPAY">>] = paidOut[<<b, "ALIPAY">>]
          BY <3>3, <4>1
        <5>2. QED
          BY <3>4, <4>1, <5>1 DEF Money
      <4>2. CASE b = a
        <5>1. ch = "WECHAT" \/ ch = "ALIPAY"
          BY DEF Channel
        <5>2. CASE ch = "WECHAT"
          <6>1. paidOut'[<<b, "WECHAT">>] = paidOut[<<b, "WECHAT">>] + n
                /\ paidOut'[<<b, "ALIPAY">>] = paidOut[<<b, "ALIPAY">>]
            BY <3>3, <4>2, <5>2
          <6>2. QED
            BY <1>1, <3>4, <4>2, <6>1 DEF Money
        <5>3. CASE ch = "ALIPAY"
          <6>1. paidOut'[<<b, "ALIPAY">>] = paidOut[<<b, "ALIPAY">>] + n
                /\ paidOut'[<<b, "WECHAT">>] = paidOut[<<b, "WECHAT">>]
            BY <3>3, <4>2, <5>3
          <6>2. QED
            BY <1>1, <3>4, <4>2, <6>1 DEF Money
        <5>4. QED
          BY <5>1, <5>2, <5>3
      <4>3. QED
        BY <4>1, <4>2
    <3>6. AmountOf(FinishedOf(b)') = AmountOf(FinishedOf(b)) + (IF b = a THEN n ELSE 0)
      <4>1. /\ IsFiniteSet(FinishedOf(b)) /\ AmountOf(FinishedOf(b)) \in Int
            /\ \A v \in FinishedOf(b) : v.amount \in Int
        BY <1>1, FinishedAmounts
      <4>2. CASE b # a
        <5>1. FinishedOf(b)' = FinishedOf(b)
          BY <2>1, <2>2, <4>2 DEF FinishedOf
        <5>2. QED
          BY <4>1, <4>2, <5>1
      <4>3. CASE b = a
        <5>1. FinishedOf(b)' = FinishedOf(b) \cup {w} /\ w \notin FinishedOf(b)
          BY <2>1, <2>2, <4>3 DEF FinishedOf
        <5>2. \A v \in FinishedOf(b) \cup {w} : v.amount \in Int
          BY <1>1, <2>2, <4>1
        <5> DEFINE S == FinishedOf(b)
        <5>3. AmountOf(S \cup {w}) = w.amount + AmountOf(S)
          <6>1. IsFiniteSet(S) /\ w \notin S /\ \A v \in S \cup {w} : v.amount \in Int
            BY <4>1, <5>1, <5>2
          <6> HIDE DEF S
          <6>2. QED
            BY <6>1, AmountPuts
        <5>4. QED
          BY <1>1, <2>2, <4>1, <4>3, <5>1, <5>3
      <4>4. QED
        BY <4>2, <4>3
    <3>7. /\ AmountOf(FinishedOf(b)) \in Int
          /\ Settled(b, "WECHAT") + Settled(b, "ALIPAY") \in Int
      BY <1>1, FinishedAmounts, SettledInt
    <3>8. PICK s \in Int, t \in Int, k \in Int :
            /\ s = AmountOf(FinishedOf(b)) /\ t = Settled(b, "WECHAT") + Settled(b, "ALIPAY")
            /\ k = IF b = a THEN n ELSE 0
      BY <1>1, <3>7
    <3>9. (s + t) + k = (s + k) + t
      OBVIOUS
    <3>10. Money(paidOut', b) = AmountOf(FinishedOf(b)') + (Settled(b, "WECHAT") + Settled(b, "ALIPAY"))
      BY <3>2, <3>5, <3>6, <3>8, <3>9
    <3>11. QED
      BY <1>6, <3>10 DEF Money
  <2>6. QED
    BY <2>1, <2>4, <2>5 DEF BooksAreKept
<1>9. QED
  BY <1>7, <1>8 DEF WithdrawStep

\* The days of the rows stay days.
LEMMA WithdrawsStay ==
  ASSUME WithdrawsAreKept, withdraws' = withdraws, day \in Nat, day' \in Nat, day <= day'
  PROVE  WithdrawsAreKept'
<1>1. \A w \in withdraws : w.day \in 1..day'
  BY DEF WithdrawsAreKept
<1>2. QED
  BY <1>1 DEF WithdrawsAreKept

LEMMA PaidOutStays ==
  ASSUME PaidOutIsKept, paidOut' = paidOut, withdraws' = withdraws,
         \A a \in Person : /\ Settled(a, "WECHAT")' = Settled(a, "WECHAT")
                           /\ Settled(a, "ALIPAY")' = Settled(a, "ALIPAY")
  PROVE  PaidOutIsKept'
<1>1. \A a \in Person : FinishedOf(a)' = FinishedOf(a)
  BY DEF FinishedOf
<1>2. \A a \in Person : Money(paidOut, a) =
        AmountOf(FinishedOf(a)) + (Settled(a, "WECHAT") + Settled(a, "ALIPAY"))
  BY DEF PaidOutIsKept
<1>3. QED
  BY <1>1, <1>2 DEF PaidOutIsKept, Money

\* Steps without rows
LEMMA QuietBooks ==
  ASSUME SalesAreKept, BooksAreKept, SalesUntouched, paidOut' = paidOut, journal' = journal,
         withdraws' = withdraws, day' \in Nat, day <= day',
         \A a \in Person : /\ Settled(a, "WECHAT")' = Settled(a, "WECHAT")
                           /\ Settled(a, "ALIPAY")' = Settled(a, "ALIPAY")
  PROVE  BooksAreKept'
<1>1. /\ JournalIsKept /\ WithdrawsAreKept /\ PaidOutIsKept /\ day \in Nat
  BY BoundAssumption DEF BooksAreKept, SalesAreKept, PlacedHasDay, Day
<1>2. WithdrawsAreKept'
  BY <1>1, WithdrawsStay
<1>3. PaidOutIsKept'
  BY ONLY <1>1, paidOut' = paidOut, withdraws' = withdraws, PaidOutStays,
     \A a \in Person : /\ Settled(a, "WECHAT")' = Settled(a, "WECHAT")
                       /\ Settled(a, "ALIPAY")' = Settled(a, "ALIPAY")
<1>4. JournalIsKept'
  <2>1. OwedKept /\ \A p \in Serial, t \in PaymentType : Owed(payments[p], t)' => Owed(payments[p], t)
    BY SameOwed
  <2> DEFINE N == {}
  <2>2. /\ IsFiniteSet(N) /\ journal' = journal \cup N
        /\ \A r \in N : r.day \in 1..day'
        /\ \A r \in N : \/ \E p \in Serial : OfPayment(r, p)'
                        \/ \E w \in withdraws' : OfWithdraw(r, w)
                        \/ OfBill(r)
        /\ \A r, s \in N : SameKey(r, s) /\ ~IsSettlement(r) => r = s
        /\ \A r \in N, s \in journal : ~(SameKey(r, s) /\ ~IsSettlement(r))
    BY FS_EmptySet
  <2>3. /\ withdraws \subseteq withdraws' /\ day' \in Nat /\ day <= day'
        /\ \A p \in Serial, t \in PaymentType : Owed(payments[p], t)' =>
             \/ Owed(payments[p], t)
             \/ \E r \in N : r.content = <<"payment", p>> /\ r.transaction_type = t
        /\ \A w \in withdraws' : w.status = "FINISHED" =>
             w \in withdraws \/ \E r \in N : OfWithdraw(r, w)
    BY <2>1
  <2> HIDE DEF N
  <2>4. QED
    BY ONLY <1>1, <2>1, <2>2, <2>3, JournalStep
<1>5. QED
  BY <1>2, <1>3, <1>4 DEF BooksAreKept

LEMMA SaleBooks ==
  ASSUME SalesAreKept, BooksAreKept, SaleStep
  PROVE  BooksAreKept'
<1>1. /\ JournalIsKept /\ WithdrawsAreKept /\ PaidOutIsKept /\ TypeOK /\ CouponTerms /\ CouponExists
      /\ SettlementTypeOK /\ day \in Nat
  BY BoundAssumption DEF BooksAreKept, SalesAreKept, LedgerInvariant, CouponTables, PlacedHasDay, Day
<1>2. PICK p \in Serial : PaymentStep(p)
  BY SaleIsPaymentStep
<1>3. day' = day /\ bills' = bills /\ withdraws' = withdraws
  BY SaleIsPaymentStep
<1>4. paidOut' = paidOut
  BY <1>1, <1>2, PaymentKeeps
<1>5. JournalIsKept'
  BY <1>1, SaleJournal
<1>6. WithdrawsAreKept'
  BY <1>1, <1>3, WithdrawsStay
<1>7. \A a \in Person : /\ Settled(a, "WECHAT")' = Settled(a, "WECHAT")
                        /\ Settled(a, "ALIPAY")' = Settled(a, "ALIPAY")
  BY <1>1, <1>3, SameSettled
<1>8. PaidOutIsKept'
  BY ONLY <1>1, <1>3, <1>4, <1>7, PaidOutStays
<1>9. QED
  BY <1>5, <1>6, <1>8 DEF BooksAreKept

\* A settlement writes two rows for its bill.
LEMMA SettleBooks ==
  ASSUME SalesAreKept, BooksAreKept, NEW b \in agenda, SettleStep(b)
  PROVE  BooksAreKept'
<1> DEFINE m == b.merchant
           new == [day |-> day, sold |-> b.day - 1, status |-> "PROCESSING",
                   wechat |-> b.wechat, alipay |-> b.alipay]
<1>1. /\ JournalIsKept /\ WithdrawsAreKept /\ PaidOutIsKept /\ TypeOK /\ SettlementTypeOK
      /\ day \in Nat /\ 1 <= day
  BY BoundAssumption DEF BooksAreKept, SalesAreKept, LedgerInvariant, PlacedHasDay, Day
<1>2. /\ m \in Enterprise /\ m \in Merchant /\ b.wechat \in Nat /\ b.alipay \in Nat
      /\ b.day \in Nat /\ bills \in [Enterprise -> Seq(Bill)]
  BY <1>1 DEF SettlementTypeOK, DueBill
<1>3. /\ new \in Bill /\ new.wechat = b.wechat /\ new.alipay = b.alipay
  BY <1>1, <1>2 DEF Bill
<1> HIDE DEF new
<1>4. /\ day' = day /\ SalesUntouched /\ withdraws' = withdraws
      /\ \/ /\ Settle(m, b.wechat, b.alipay)
            /\ bills' = [bills EXCEPT ![m] = Append(@, new)]
         \/ vars' = vars /\ bills' = bills
      /\ IF bills' = bills THEN UNCHANGED journal
         ELSE Post(<<"settlement", m, Len(bills'[m])>>,
                   <<"MERCHANT_WECHAT_SETTLEMENT", "MERCHANT_ALIPAY_SETTLEMENT">>)
  BY DEF SettleStep, SettleBill, Settle, SalesUntouched, vars, new
<1> HIDE DEF m
<1>5. CASE vars' = vars /\ bills' = bills
  <2>1. \A a \in Person : /\ Settled(a, "WECHAT")' = Settled(a, "WECHAT")
                          /\ Settled(a, "ALIPAY")' = Settled(a, "ALIPAY")
    BY <1>1, <1>5, SameSettled
  <2>2. /\ SalesUntouched /\ paidOut' = paidOut /\ journal' = journal /\ withdraws' = withdraws
        /\ day' \in Nat /\ day <= day'
    BY <1>1, <1>4, <1>5 DEF vars
  <2>3. QED
    BY ONLY SalesAreKept, BooksAreKept, <2>1, <2>2, QuietBooks
<1>6. CASE Settle(m, b.wechat, b.alipay) /\ bills' = [bills EXCEPT ![m] = Append(@, new)]
  <2> DEFINE content == <<"settlement", m, Len(bills'[m])>>
             types == <<"MERCHANT_WECHAT_SETTLEMENT", "MERCHANT_ALIPAY_SETTLEMENT">>
             N == {Entry(content, types, i) : i \in {1, 2}}
  <2>1. bills' # bills
    <3>1. bills[m] \in Seq(Bill) /\ bills'[m] = Append(bills[m], new)
      BY <1>2, <1>6
    <3>2. Len(bills[m]) \in Nat /\ Len(bills'[m]) = Len(bills[m]) + 1
      BY <1>3, <3>1
    <3>3. QED
      BY <3>2
  <2>2. Post(content, types)
    BY <1>4, <2>1
  <2>3. types[1] = "MERCHANT_WECHAT_SETTLEMENT" /\ types[2] = "MERCHANT_ALIPAY_SETTLEMENT"
        /\ DOMAIN types = {1, 2} /\ content[1] = "settlement"
    OBVIOUS
  <2>4. rows'[1].account = m /\ rows'[2].account = m
    BY <1>6 DEF Settle, PayOutRow
  <2> HIDE DEF content, types
  <2>5. Posted(types) = {1, 2}
    BY <2>3 DEF Posted
  <2>6. journal' = journal \cup N
    BY <2>2, <2>5, Posts
  <2>7. \A i \in {1, 2} : /\ Entry(content, types, i).content = content
                          /\ Entry(content, types, i).transaction_type = types[i]
                          /\ Entry(content, types, i).account = m
                          /\ Entry(content, types, i).day = day
    BY <2>4 DEF Entry
  <2>8. IsFiniteSet(N)
    <3>1. PICK x, y : x = Entry(content, types, 1) /\ y = Entry(content, types, 2)
      OBVIOUS
    <3>2. N = {x} \cup {y}
      BY <3>1
    <3>3. IsFiniteSet({x} \cup {y})
      BY FS_Singleton, FS_Union
    <3>4. QED
      BY <3>2, <3>3
  <2>9. \A r \in N : /\ r.day \in 1..day' /\ OfBill(r) /\ IsSettlement(r)
    BY <1>1, <1>2, <1>4, <2>3, <2>7 DEF OfBill, IsSettlement
  <2> HIDE DEF N
  <2>10. JournalIsKept'
    <3>1. OwedKept /\ \A p \in Serial, t \in PaymentType : Owed(payments[p], t)' => Owed(payments[p], t)
      BY <1>4, SameOwed
    <3>2. /\ IsFiniteSet(N) /\ journal' = journal \cup N
          /\ \A r \in N : r.day \in 1..day'
          /\ \A r \in N : \/ \E p \in Serial : OfPayment(r, p)'
                          \/ \E w \in withdraws' : OfWithdraw(r, w)
                          \/ OfBill(r)
          /\ \A r, s \in N : SameKey(r, s) /\ ~IsSettlement(r) => r = s
          /\ \A r \in N, s \in journal : ~(SameKey(r, s) /\ ~IsSettlement(r))
      BY ONLY <2>6, <2>8, <2>9
    <3>3. /\ withdraws \subseteq withdraws' /\ day \in Nat /\ day' \in Nat /\ day <= day'
          /\ \A p \in Serial, t \in PaymentType : Owed(payments[p], t)' =>
               \/ Owed(payments[p], t)
               \/ \E r \in N : r.content = <<"payment", p>> /\ r.transaction_type = t
          /\ \A w \in withdraws' : w.status = "FINISHED" =>
               w \in withdraws \/ \E r \in N : OfWithdraw(r, w)
      BY <1>1, <1>4, <3>1
    <3>4. QED
      BY ONLY <1>1, <3>1, <3>2, <3>3, JournalStep
  <2>11. WithdrawsAreKept'
    BY <1>1, <1>4, WithdrawsStay
  <2>12. PaidOutIsKept'
    <3>1. SUFFICES ASSUME NEW a \in Person
                   PROVE  Money(paidOut, a)' = AmountOf(FinishedOf(a))'
                            + (Settled(a, "WECHAT") + Settled(a, "ALIPAY"))'
      BY DEF PaidOutIsKept
    <3>2. Money(paidOut, a) = AmountOf(FinishedOf(a)) + (Settled(a, "WECHAT") + Settled(a, "ALIPAY"))
      BY <1>1 DEF PaidOutIsKept
    <3>3. a \in Account /\ "WECHAT" \in Channel /\ "ALIPAY" \in Channel /\ m \in Account
      BY <1>2 DEF Person, Account, Channel
    <3>4. /\ Settled(a, "WECHAT")' = Settled(a, "WECHAT") + (IF a = m THEN b.wechat ELSE 0)
          /\ Settled(a, "ALIPAY")' = Settled(a, "ALIPAY") + (IF a = m THEN b.alipay ELSE 0)
      <4>1. \A ch \in Channel : Settled(a, ch)' = Settled(a, ch) + (IF a = m THEN On(new, ch) ELSE 0)
        BY ONLY <1>1, <1>2, <1>3, <1>6, <3>3, SettledAppend
      <4>2. On(new, "WECHAT") = b.wechat /\ On(new, "ALIPAY") = b.alipay
        BY <1>3 DEF On
      <4>3. QED
        BY <3>3, <4>1, <4>2
    <3>5. Settled(a, "WECHAT") \in Int /\ Settled(a, "ALIPAY") \in Int
      BY <1>1, <3>3, SettledType
    <3>6. paidOut \in [Purse -> Int] /\ <<m, "WECHAT">> \in Purse /\ <<m, "ALIPAY">> \in Purse
          /\ <<a, "WECHAT">> \in Purse /\ <<a, "ALIPAY">> \in Purse
      BY <1>1, <3>3 DEF TypeOK, Purse
    <3>7. paidOut' = Add(Add(paidOut, <<m, "WECHAT">>, b.wechat), <<m, "ALIPAY">>, b.alipay)
      BY <1>6 DEF Settle
    <3>8. /\ paidOut'[<<a, "WECHAT">>] = paidOut[<<a, "WECHAT">>] + (IF a = m THEN b.wechat ELSE 0)
          /\ paidOut'[<<a, "ALIPAY">>] = paidOut[<<a, "ALIPAY">>] + (IF a = m THEN b.alipay ELSE 0)
      <4>1. PICK f : f = [paidOut EXCEPT ![<<m, "WECHAT">>] = @ + b.wechat]
        OBVIOUS
      <4>2. paidOut' = [f EXCEPT ![<<m, "ALIPAY">>] = @ + b.alipay] /\ DOMAIN f = Purse
        BY <3>6, <3>7, <4>1 DEF Add
      <4>3. /\ f[<<a, "WECHAT">>] = paidOut[<<a, "WECHAT">>] + (IF a = m THEN b.wechat ELSE 0)
            /\ f[<<a, "ALIPAY">>] = paidOut[<<a, "ALIPAY">>]
        <5>1. CASE a = m
          BY <3>6, <4>1, <5>1
        <5>2. CASE a # m
          BY <3>6, <4>1, <5>2
        <5>3. QED
          BY <5>1, <5>2
      <4>4. CASE a = m
        BY <3>6, <4>2, <4>3, <4>4
      <4>5. CASE a # m
        BY <3>6, <4>2, <4>3, <4>5
      <4>6. QED
        BY <4>4, <4>5
    <3>9. FinishedOf(a)' = FinishedOf(a)
      BY <1>4 DEF FinishedOf
    <3>10. AmountOf(FinishedOf(a)) \in Int
      BY <1>1, FinishedAmounts
    <3>11. PICK s \in Int, w \in Int, v \in Int, x \in Int, y \in Int, i \in Int, j \in Int :
             /\ s = AmountOf(FinishedOf(a)) /\ w = Settled(a, "WECHAT") /\ v = Settled(a, "ALIPAY")
             /\ x = paidOut[<<a, "WECHAT">>] /\ y = paidOut[<<a, "ALIPAY">>]
             /\ i = (IF a = m THEN b.wechat ELSE 0) /\ j = (IF a = m THEN b.alipay ELSE 0)
      <4>1. paidOut[<<a, "WECHAT">>] \in Int /\ paidOut[<<a, "ALIPAY">>] \in Int
        BY <3>6
      <4>2. (IF a = m THEN b.wechat ELSE 0) \in Int /\ (IF a = m THEN b.alipay ELSE 0) \in Int
        BY <1>2
      <4>3. QED
        BY <3>5, <3>10, <4>1, <4>2
    <3>12. x + y = s + (w + v)
      BY <3>2, <3>11 DEF Money
    <3>13. (x + i) + (y + j) = s + ((w + i) + (v + j))
      BY <3>12
    <3>14. /\ Money(paidOut, a)' = (x + i) + (y + j)
           /\ AmountOf(FinishedOf(a))' = s
           /\ (Settled(a, "WECHAT") + Settled(a, "ALIPAY"))' = (w + i) + (v + j)
      BY <3>4, <3>8, <3>9, <3>11 DEF Money
    <3>15. QED
      BY <3>13, <3>14
  <2>13. QED
    BY <2>10, <2>11, <2>12 DEF BooksAreKept
<1>7. QED
  BY <1>4, <1>5, <1>6

\* A day passes, a timer starts, a bill is marked.
LEMMA OtherBooks ==
  ASSUME SalesAreKept, BooksAreKept,
         \/ StartSettlement /\ UNCHANGED books
         \/ \E m \in Enterprise : \E i \in DOMAIN bills[m] : MarkFinished(m, i) /\ UNCHANGED books
         \/ DayPasses /\ UNCHANGED books
         \/ UNCHANGED reports
  PROVE  BooksAreKept'
<1>1. SettlementTypeOK /\ day \in Nat
  BY BoundAssumption DEF SalesAreKept, PlacedHasDay, Day
<1>2. SalesUntouched /\ paidOut' = paidOut /\ journal' = journal /\ withdraws' = withdraws
      /\ day' \in Nat /\ day <= day'
  BY <1>1 DEF StartSettlement, MarkFinished, DayPasses, reports, books, vars, days, SalesUntouched
<1>3. ASSUME NEW a \in Person
      PROVE  /\ Settled(a, "WECHAT")' = Settled(a, "WECHAT")
             /\ Settled(a, "ALIPAY")' = Settled(a, "ALIPAY")
  <2>1. CASE bills' = bills
    BY <1>1, <2>1, SameSettled
  <2>2. ASSUME NEW m \in Enterprise, NEW i \in DOMAIN bills[m], MarkFinished(m, i)
        PROVE  /\ Settled(a, "WECHAT")' = Settled(a, "WECHAT")
               /\ Settled(a, "ALIPAY")' = Settled(a, "ALIPAY")
    <3>1. bills \in [Enterprise -> Seq(Bill)] /\ bills[m] \in Seq(Bill) /\ i \in 1..Len(bills[m])
          /\ bills[m][i] \in Bill
      BY <1>1 DEF SettlementTypeOK
    <3> DEFINE marked == [bills[m][i] EXCEPT !.status = "FINISHED"]
    <3>2. /\ marked.wechat = bills[m][i].wechat /\ marked.alipay = bills[m][i].alipay
      BY <3>1 DEF Bill
    <3>3. bills' = [bills EXCEPT ![m] = [bills[m] EXCEPT ![i] = marked]]
      BY <2>2, <3>1 DEF MarkFinished
    <3> HIDE DEF marked
    <3>4. a \in Enterprise => /\ Len(bills'[a]) = Len(bills[a])
                              /\ \A k \in 1..Len(bills[a]) : \A ch \in Channel :
                                   On(bills'[a][k], ch) = On(bills[a][k], ch)
      <4>1. CASE a = m
        <5>1. bills'[m] = [bills[m] EXCEPT ![i] = marked]
          BY <3>1, <3>3
        <5>2. Len(bills'[m]) = Len(bills[m]) /\ bills'[m][i] = marked
              /\ \A k \in 1..Len(bills[m]) : k # i => bills'[m][k] = bills[m][k]
          BY <3>1, <5>1
        <5>3. QED
          BY <3>2, <4>1, <5>2 DEF On
      <4>2. CASE a # m
        BY <3>1, <3>3, <4>2
      <4>3. QED
        BY <4>1, <4>2
    <3>5. a \in Account /\ "WECHAT" \in Channel /\ "ALIPAY" \in Channel
      BY DEF Person, Account, Channel
    <3>6. ASSUME NEW ch \in Channel
          PROVE  Settled(a, ch)' = Settled(a, ch)
      BY <1>1, <3>4, <3>5, SettledSame
    <3>7. QED
      BY <3>5, <3>6
  <2>3. bills' = bills \/ \E m \in Enterprise : \E i \in DOMAIN bills[m] : MarkFinished(m, i)
    BY DEF StartSettlement, DayPasses, reports, days
  <2>4. QED
    BY <2>1, <2>2, <2>3
<1>4. QED
  BY ONLY SalesAreKept, BooksAreKept, <1>2, <1>3, QuietBooks

LEMMA NextBooks ==
  SalesAreKept /\ BooksAreKept /\ [ReportsNext]_reports => BooksAreKept'
<1> SUFFICES ASSUME SalesAreKept, BooksAreKept, [ReportsNext]_reports
             PROVE  BooksAreKept'
  OBVIOUS
<1>1. CASE SaleStep
  BY <1>1, SaleBooks
<1>2. ASSUME NEW a \in Person, NEW ch \in Channel, NEW n \in Amount, WithdrawStep(a, ch, n)
      PROVE  BooksAreKept'
  BY <1>2, WithdrawBooks
<1>3. ASSUME NEW b \in agenda, SettleStep(b)
      PROVE  BooksAreKept'
  BY <1>3, SettleBooks
<1>4. QED
  BY <1>1, <1>2, <1>3, OtherBooks DEF ReportsNext

LEMMA InitBooks == ReportsInit => BooksAreKept
<1> SUFFICES ASSUME ReportsInit
             PROVE  BooksAreKept
  OBVIOUS
<1>1. /\ journal = {} /\ withdraws = {} /\ bills = [m \in Enterprise |-> << >>] /\ Init
      /\ SettlementTypeOK /\ TypeOK
  <2>1. SettlementTypeOK /\ TypeOK
    BY InitSales DEF SalesAreKept, LedgerInvariant
  <2>2. QED
    BY <2>1 DEF ReportsInit, SettlementInit
<1>2. JournalIsKept
  <2>1. \A p \in Serial, t \in PaymentType : ~Owed(payments[p], t)
    BY <1>1 DEF Init, NoPayment, Owed, GotMoney, NotRefunded
  <2>2. QED
    BY <1>1, <2>1, FS_EmptySet DEF JournalIsKept, RowsAreExplained, RowsAreOne, PaymentsHaveRows,
       WithdrawsHaveRows
<1>3. WithdrawsAreKept
  BY <1>1, FS_EmptySet DEF WithdrawsAreKept
<1>4. PaidOutIsKept
  <2>1. SUFFICES ASSUME NEW a \in Person
                 PROVE  Money(paidOut, a) = AmountOf(FinishedOf(a))
                          + (Settled(a, "WECHAT") + Settled(a, "ALIPAY"))
    BY DEF PaidOutIsKept
  <2>2. Money(paidOut, a) = 0
    BY <1>1 DEF Init, Money, Purse, Person, Account, Channel
  <2>3. FinishedOf(a) = {}
    BY <1>1 DEF FinishedOf
  <2>4. AmountOf({}) = 0
    <3>1. AmountOf({}) = SumFunctionOnSet([r \in {} |-> r.amount], {})
      BY FS_EmptySet, AmountIs
    <3>2. QED
      BY <3>1, SumEmpty
  <2>5. ASSUME NEW ch \in Channel
        PROVE  Settled(a, ch) = 0
    <3>1. CASE a \in Enterprise
      <4> DEFINE f == [i \in 1..0 |-> IF ch = "WECHAT" THEN bills[a][i].wechat
                                                       ELSE bills[a][i].alipay]
      <4>1. bills[a] = << >> /\ Len(bills[a]) = 0
        BY <1>1, <3>1
      <4>2. Settled(a, ch) = SumTo(f, 0)
        BY <3>1, <4>1 DEF Settled
      <4> HIDE DEF f
      <4>3. QED
        BY <4>2, SumToDef
    <3>2. QED
      BY <3>1 DEF Settled
  <2>6. QED
    BY <2>2, <2>3, <2>4, <2>5 DEF Channel
<1>5. QED
  BY <1>2, <1>3, <1>4 DEF BooksAreKept

-----------------------------------------------------------------------------
(* What the rows of payments add up to                                     *)

AmountIn == [r \in journal |-> r.amount]
PartIn == [p \in Serial |-> MerchantPart(payments[p])]
WorthIn(t) == [p \in Serial |-> Worth(payments[p], t)]

RowsOf(a, T) == {r \in journal : r.account = a /\ r.transaction_type \in T}
OwedTo(a, t) == {p \in Serial : Owed(payments[p], t) /\ Owner(payments[p], t) = a}

\* Sums of rows
LEMMA RowSums ==
  ASSUME JournalIsKept, NEW S \in SUBSET journal
  PROVE  IsFiniteSet(S) /\ AmountOf(S) = SumFunctionOnSet(AmountIn, S)
<1>1. IsFiniteSet(journal)
  BY DEF JournalIsKept
<1>2. QED
  BY <1>1, AmountIs, FS_Subset DEF AmountIn

\* The payment of a row
LEMMA PaymentRow ==
  ASSUME JournalIsKept, NEW r \in journal,
         r.transaction_type \in PaymentType \/ r.content[1] = "payment"
  PROVE  /\ r.content[2] \in Serial /\ OfPayment(r, r.content[2])
         /\ r.content = <<"payment", r.content[2]>> /\ r.content[1] = "payment"
         /\ r.transaction_type \in PaymentType
<1>1. (\E p \in Serial : OfPayment(r, p)) \/ (\E w \in withdraws : OfWithdraw(r, w)) \/ OfBill(r)
  BY DEF JournalIsKept, RowsAreExplained
<1>2. ASSUME NEW w \in withdraws, OfWithdraw(r, w)
      PROVE  FALSE
  <2>1. r.content[1] = "withdraw"
    BY <1>2 DEF OfWithdraw
  <2>2. r.transaction_type \notin PaymentType
    BY <1>2 DEF OfWithdraw, PaymentType
  <2>3. QED
    BY <2>1, <2>2
<1>3. ~OfBill(r)
  BY DEF OfBill, IsSettlement, PaymentType
<1>4. PICK p \in Serial : OfPayment(r, p)
  BY <1>1, <1>2, <1>3
<1>5. r.content = <<"payment", p>> /\ r.transaction_type \in PaymentType
  BY <1>4 DEF OfPayment
<1>6. r.content[2] = p /\ r.content[1] = "payment"
  BY <1>5
<1>7. QED
  BY <1>4, <1>5, <1>6

\* A refund is booked no earlier than the sale.
RefundsFollow ==
  \A r, s \in journal :
    /\ r.transaction_type = "MERCHANT_REFUND"
    /\ s.transaction_type = "MERCHANT_RECEIVE"
    /\ r.content = s.content
    => s.day <= r.day

\* A step adds rows of its day, and only the midnight step changes the day.
LEMMA RowsOfToday ==
  ASSUME [ReportsNext]_reports
  PROVE  /\ journal \subseteq journal'
         /\ \A r \in journal' \ journal : r.day = day
<1> DEFINE Today == /\ journal \subseteq journal'
                    /\ \A r \in journal' \ journal : r.day = day
<1>1. ASSUME NEW content, NEW types, Post(content, types)
      PROVE  Today
  <2>1. journal' = journal \cup {Entry(content, types, i) : i \in Posted(types)}
    BY <1>1, Posts
  <2>2. \A i \in Posted(types) : Entry(content, types, i).day = day
    BY DEF Entry
  <2>3. QED
    BY <2>1, <2>2
<1>2. journal' = journal => Today
  OBVIOUS
<1> HIDE DEF Today
<1>3. ASSUME NEW p \in Serial, OpenOrder(p) \/ Receive(p) \/ ReturnMoney(p) \/ Unfreeze(p)
      PROVE  Today
  BY <1>1, <1>2, <1>3 DEF OpenOrder, Receive, ReturnMoney, Unfreeze
<1>4. ASSUME NEW a \in Person, NEW ch \in Channel, NEW n \in Amount, WithdrawStep(a, ch, n)
      PROVE  Today
  BY <1>1, <1>2, <1>4 DEF WithdrawStep
<1>5. ASSUME NEW b \in agenda, SettleStep(b)
      PROVE  Today
  BY <1>1, <1>2, <1>5 DEF SettleStep
<1>6. UNCHANGED books => Today
  BY <1>2 DEF books
<1>7. UNCHANGED reports => Today
  BY <1>6 DEF reports
<1>8. ASSUME SaleStep
      PROVE  Today
  <2>1. PICK p \in Serial : OpenOrder(p) \/ Receive(p) \/ ReturnMoney(p) \/ Unfreeze(p)
    BY <1>8 DEF SaleStep
  <2>2. QED
    BY ONLY <1>3, <2>1
<1>9. Today
  <2>1. \/ SaleStep
        \/ \E a \in Person, ch \in Channel, n \in Amount : WithdrawStep(a, ch, n)
        \/ \E b \in agenda : SettleStep(b)
        \/ UNCHANGED books
        \/ UNCHANGED reports
    BY DEF ReportsNext
  <2>2. QED
    BY ONLY <1>4, <1>5, <1>6, <1>7, <1>8, <2>1
<1>10. QED
  BY <1>9 DEF Today

\* The payment of a refund has had its row of the sale.
LEMMA RefundHasSale ==
  ASSUME JournalIsKept, NEW r \in journal, r.transaction_type = "MERCHANT_REFUND"
  PROVE  \E s \in journal : /\ s.transaction_type = "MERCHANT_RECEIVE"
                            /\ s.content = r.content
                            /\ s.account = r.account
<1> DEFINE p == r.content[2]
<1>1. p \in Serial /\ OfPayment(r, p) /\ r.content = <<"payment", p>>
  BY PaymentRow DEF PaymentType
<1> HIDE DEF p
<1>2. payments[p].status = "REFUND" /\ r.account = payments[p].merchant
  BY <1>1 DEF OfPayment, Owed, Owner
<1>3. Owed(payments[p], "MERCHANT_RECEIVE")
  BY <1>2 DEF Owed, GotMoney
<1>4. PICK s \in journal : s.content = <<"payment", p>> /\ s.transaction_type = "MERCHANT_RECEIVE"
  BY <1>1, <1>3 DEF JournalIsKept, PaymentsHaveRows, PaymentType
<1>5. s.content[2] = p /\ OfPayment(s, s.content[2])
  BY <1>4, PaymentRow DEF PaymentType
<1>6. s.account = payments[p].merchant
  BY <1>4, <1>5 DEF OfPayment, Owner
<1>7. QED
  BY <1>1, <1>2, <1>4, <1>6

LEMMA NextRefundsFollow ==
  SalesAreKept /\ BooksAreKept /\ RefundsFollow /\ [ReportsNext]_reports => RefundsFollow'
<1>1. SUFFICES ASSUME SalesAreKept, BooksAreKept, RefundsFollow, [ReportsNext]_reports,
                      NEW r \in journal', NEW s \in journal',
                      r.transaction_type = "MERCHANT_REFUND",
                      s.transaction_type = "MERCHANT_RECEIVE",
                      r.content = s.content
               PROVE  s.day <= r.day
  BY DEF RefundsFollow
<1>2. JournalIsKept /\ JournalIsKept'
  BY <1>1, NextBooks DEF BooksAreKept
<1>3. /\ journal \subseteq journal'
      /\ \A x \in journal' : x \in journal \/ x.day = day
  BY <1>1, RowsOfToday
<1>4. day \in Nat /\ \A x \in journal : x.day \in 1..day
  <2>1. day \in Day
    BY <1>1 DEF SalesAreKept, PlacedHasDay
  <2>2. QED
    BY <1>2, <2>1, DayAssumption DEF JournalIsKept, RowsAreExplained, Day
<1>5. CASE r \notin journal
  BY <1>1, <1>3, <1>4, <1>5
<1>6. CASE r \in journal
  <2>1. PICK x \in journal : x.transaction_type = "MERCHANT_RECEIVE" /\ x.content = r.content
    BY <1>1, <1>2, <1>6, RefundHasSale
  <2>2. x = s
    <3>1. SameKey(x, s) /\ ~IsSettlement(x) /\ x \in journal'
      BY <1>1, <1>3, <2>1 DEF SameKey, IsSettlement
    <3>2. RowsAreOne'
      BY <1>2 DEF JournalIsKept
    <3>3. QED
      BY <3>1, <3>2 DEF RowsAreOne, SameKey, IsSettlement
  <2>3. QED
    BY <1>1, <1>6, <2>1, <2>2 DEF RefundsFollow
<1>7. QED
  BY <1>5, <1>6

\* The withdrawal of a row
LEMMA WithdrawRow ==
  ASSUME JournalIsKept, NEW r \in journal,
         r.transaction_type \in {"MERCHANT_WITHDRAW", "MARKETER_WITHDRAW"} \/ r.content[1] = "withdraw"
  PROVE  \E w \in withdraws : /\ OfWithdraw(r, w) /\ r.content[1] = "withdraw"
                              /\ r.content[2] = w.serial_number
<1>1. (\E p \in Serial : OfPayment(r, p)) \/ (\E w \in withdraws : OfWithdraw(r, w)) \/ OfBill(r)
  BY DEF JournalIsKept, RowsAreExplained
<1>2. ASSUME NEW p \in Serial, OfPayment(r, p)
      PROVE  FALSE
  <2>1. r.content[1] = "payment"
    BY <1>2 DEF OfPayment
  <2>2. r.transaction_type \notin {"MERCHANT_WITHDRAW", "MARKETER_WITHDRAW"}
    BY <1>2 DEF OfPayment, PaymentType
  <2>3. QED
    BY <2>1, <2>2
<1>3. ~OfBill(r)
  BY DEF OfBill, IsSettlement
<1>4. PICK w \in withdraws : OfWithdraw(r, w)
  BY <1>1, <1>2, <1>3
<1>5. r.content = <<"withdraw", w.serial_number>>
  BY <1>4 DEF OfWithdraw
<1>6. r.content[1] = "withdraw" /\ r.content[2] = w.serial_number
  BY <1>5
<1>7. QED
  BY <1>4, <1>6

LEMMA WorthType ==
  ASSUME SalesAreKept, NEW p \in Serial, NEW t \in PaymentType
  PROVE  Worth(payments[p], t) \in Int /\ WorthIn(t)[p] = Worth(payments[p], t)
<1>1. TypeOK
  BY DEF SalesAreKept, LedgerInvariant
<1>2. /\ MerchantPart(payments[p]) \in Int /\ payments[p].inviter_share \in Nat
      /\ payments[p].originator_share \in Nat
  BY <1>1, PartsType
<1>3. QED
  BY <1>2 DEF Worth, WorthIn, PaymentType

\* The rows of one type of some payments are worth what these payments owe.
LEMMA PaymentRows ==
  ASSUME SalesAreKept, JournalIsKept, NEW t \in PaymentType, NEW Q \in SUBSET Serial
  PROVE  AmountOf({r \in journal : r.transaction_type = t /\ r.content[2] \in Q}) =
           SumFunctionOnSet(WorthIn(t), {p \in Q : Owed(payments[p], t)})
<1> DEFINE R == {r \in journal : r.transaction_type = t /\ r.content[2] \in Q}
           P == {p \in Q : Owed(payments[p], t)}
           e == [r \in R |-> r.content[2]]
<1>1. AmountOf(R) = SumFunctionOnSet(AmountIn, R) /\ IsFiniteSet(R)
  <2>1. R \in SUBSET journal
    OBVIOUS
  <2> HIDE DEF R
  <2>2. QED
    BY <2>1, RowSums
<1>2. IsFiniteSet(P)
  BY SalesFinite
<1>3. ASSUME NEW r \in R
      PROVE  /\ e[r] = r.content[2] /\ r \in journal /\ r.transaction_type = t
             /\ e[r] \in P /\ AmountIn[r] = WorthIn(t)[e[r]] /\ AmountIn[r] \in Int
             /\ r.content = <<"payment", e[r]>>
  <2>1. r.content[2] \in Serial /\ OfPayment(r, r.content[2]) /\ r.content = <<"payment", r.content[2]>>
    BY PaymentRow
  <2>2. e[r] = r.content[2] /\ r \in journal /\ r.transaction_type = t /\ r.content[2] \in Q
    OBVIOUS
  <2>3. Owed(payments[r.content[2]], t) /\ r.amount = Worth(payments[r.content[2]], t)
    BY <2>1, <2>2 DEF OfPayment
  <2>4. AmountIn[r] = r.amount
    BY DEF AmountIn
  <2>5. QED
    BY <2>1, <2>2, <2>3, <2>4, WorthType
<1>4. ASSUME NEW p \in P
      PROVE  \E r \in R : e[r] = p
  <2>1. p \in Serial /\ Owed(payments[p], t) /\ p \in Q
    OBVIOUS
  <2>2. PICK r \in journal : r.content = <<"payment", p>> /\ r.transaction_type = t
    BY <2>1 DEF JournalIsKept, PaymentsHaveRows
  <2>3. r.content[2] = p
    BY <2>2
  <2>4. QED
    BY <2>1, <2>2, <2>3
<1> HIDE DEF R, P, e
<1>5. \A r, s \in R : e[r] = e[s] => r = s
  BY <1>3 DEF JournalIsKept, RowsAreOne, SameKey, IsSettlement, PaymentType
<1>6. \A r \in R : e[r] \in P /\ AmountIn[r] = WorthIn(t)[e[r]] /\ AmountIn[r] \in Int
  BY <1>3
<1>7. \A r \in R, s \in R : e[r] = e[s] => r = s
  BY <1>5
<1>8. \A p \in P : \E r \in R : e[r] = p
  BY <1>4
<1>9. SumFunctionOnSet(AmountIn, R) = SumFunctionOnSet(WorthIn(t), P)
  BY ONLY <1>1, <1>2, <1>6, <1>7, <1>8, SumImage
<1>10. QED
  BY <1>1, <1>9 DEF R, P

\* The rows of one type on one account
LEMMA RowsOnAccount ==
  ASSUME SalesAreKept, JournalIsKept, NEW t \in PaymentType, NEW a
  PROVE  /\ AmountOf(RowsOf(a, {t})) = SumFunctionOnSet(WorthIn(t), OwedTo(a, t))
         /\ \A r \in RowsOf(a, {t}) : r.amount \in Int
         /\ IsFiniteSet(OwedTo(a, t)) /\ \A p \in OwedTo(a, t) : WorthIn(t)[p] \in Int
<1> DEFINE Q == {p \in Serial : Owner(payments[p], t) = a}
<1>1. \A r \in journal : r.transaction_type = t =>
        /\ r.content[2] \in Serial /\ r.account = Owner(payments[r.content[2]], t)
        /\ r.amount = Worth(payments[r.content[2]], t)
  BY PaymentRow DEF OfPayment
<1>2. RowsOf(a, {t}) = {r \in journal : r.transaction_type = t /\ r.content[2] \in Q}
  BY <1>1 DEF RowsOf
<1>3. OwedTo(a, t) = {p \in Q : Owed(payments[p], t)} /\ OwedTo(a, t) \in SUBSET Serial
  BY DEF OwedTo
<1>4. Q \in SUBSET Serial
  OBVIOUS
<1> HIDE DEF Q
<1>5. AmountOf(RowsOf(a, {t})) = SumFunctionOnSet(WorthIn(t), OwedTo(a, t))
  BY <1>2, <1>3, <1>4, PaymentRows
<1>6. \A r \in RowsOf(a, {t}) : r.amount \in Int
  BY <1>1, WorthType DEF RowsOf
<1>7. IsFiniteSet(OwedTo(a, t)) /\ \A p \in OwedTo(a, t) : WorthIn(t)[p] \in Int
  BY <1>3, SalesFinite, WorthType
<1>8. QED
  BY <1>5, <1>6, <1>7

-----------------------------------------------------------------------------
(* Balances                                                                *)

\* What payment p brought account a
GotIn(a) == [p \in Serial |-> Held(payments[p], a) + Released(payments[p], a)]

\* The sales of a merchant that count
SoldOf(m) == {p \in Serial : payments[p].merchant = m /\ payments[p].status \in NotRefunded}

\* The parts of a merchant
LEMMA MerchantGets ==
  ASSUME SalesAreKept, NEW m \in Merchant, NEW p \in Serial
  PROVE  /\ Held(payments[p], m) \in Int /\ Released(payments[p], m) \in Int
         /\ GotIn(m)[p] = (IF p \in SoldOf(m) THEN PartIn[p] ELSE 0)
                          + (IF p \in OwedTo(m, "MERCHANT_SHARE")
                             THEN WorthIn("MERCHANT_SHARE")[p] ELSE 0)
<1> DEFINE x == payments[p]
           mine == IF m = x.merchant THEN MerchantPart(x) ELSE 0
           share == IF HasCoupon(x) /\ m = coupons[x.coupon].originator THEN x.originator_share ELSE 0
<1>1. TypeOK
  BY DEF SalesAreKept, LedgerInvariant
<1>2. /\ MerchantPart(x) \in Int /\ x.originator_share \in Int /\ x.merchant \in Merchant
  BY <1>1, PartsType
<1>3. m # Platform /\ m # Inviter[x.merchant]
  <2>1. Inviter[x.merchant] \in Marketer \cup {NoMarketer}
    BY <1>2
  <2>2. QED
    BY <2>1
<1>4. mine \in Int /\ share \in Int
  BY <1>2
<1>5. FrozenPart(x, m) = mine /\ KeptPart(x, m) = 0
  BY <1>2, <1>3 DEF FrozenPart, KeptPart
<1>6. ReleasedPart(x, m) = mine + share
  BY <1>2, <1>3 DEF ReleasedPart
<1>7. PartIn[p] = MerchantPart(x) /\ WorthIn("MERCHANT_SHARE")[p] = x.originator_share
  BY DEF PartIn, WorthIn, Worth
<1>8. /\ p \in SoldOf(m) <=> x.merchant = m /\ x.status \in NotRefunded
      /\ p \in OwedTo(m, "MERCHANT_SHARE") <=>
           x.status = "FINISHED" /\ HasCoupon(x) /\ coupons[x.coupon].originator = m
  BY DEF SoldOf, OwedTo, Owed, Owner
<1>9. GotIn(m)[p] = Held(x, m) + Released(x, m)
  BY DEF GotIn
<1> HIDE DEF x
<1>10. CASE x.status \in {"FROZEN", "REFUND_REQUESTED", "REFUND_FAILED"}
  <2>1. Held(x, m) = mine /\ Released(x, m) = 0
    BY <1>5, <1>10 DEF Held, Released
  <2>2. (IF p \in SoldOf(m) THEN PartIn[p] ELSE 0) = mine /\ p \notin OwedTo(m, "MERCHANT_SHARE")
    BY <1>7, <1>8, <1>10 DEF NotRefunded
  <2>3. QED
    BY <1>4, <1>9, <2>1, <2>2 DEF x
<1>11. CASE x.status = "FINISHED"
  <2>1. Held(x, m) = 0 /\ Released(x, m) = mine + share
    BY <1>5, <1>6, <1>11 DEF Held, Released
  <2>2. (IF p \in SoldOf(m) THEN PartIn[p] ELSE 0) = mine
    BY <1>7, <1>8, <1>11 DEF NotRefunded
  <2>3. (IF p \in OwedTo(m, "MERCHANT_SHARE") THEN WorthIn("MERCHANT_SHARE")[p] ELSE 0) = share
    BY <1>7, <1>8, <1>11
  <2> HIDE DEF mine, share
  <2>4. QED
    BY <1>4, <1>9, <2>1, <2>2, <2>3 DEF x
<1>12. CASE x.status \notin NotRefunded
  <2>1. Held(x, m) = 0 /\ Released(x, m) = 0
    BY <1>12 DEF Held, Released, NotRefunded
  <2>2. p \notin SoldOf(m) /\ p \notin OwedTo(m, "MERCHANT_SHARE")
    BY <1>8, <1>12 DEF NotRefunded
  <2>3. QED
    BY <1>9, <2>1, <2>2 DEF x
<1>13. QED
  BY <1>10, <1>11, <1>12 DEF NotRefunded

\* The part of an inviter
LEMMA MarketerGets ==
  ASSUME SalesAreKept, NEW k \in Marketer, NEW p \in Serial
  PROVE  /\ Held(payments[p], k) \in Int /\ Released(payments[p], k) \in Int
         /\ GotIn(k)[p] = IF p \in OwedTo(k, "MARKETER_SHARE")
                          THEN WorthIn("MARKETER_SHARE")[p] ELSE 0
<1> DEFINE x == payments[p]
           share == IF HasCoupon(x) /\ k = Inviter[x.merchant] THEN x.inviter_share ELSE 0
<1>1. TypeOK
  BY DEF SalesAreKept, LedgerInvariant
<1>2. /\ x.inviter_share \in Int /\ x.merchant \in Merchant /\ x.coupon \in CouponId \cup {NoCoupon}
  BY <1>1, PartsType
<1>3. k # Platform /\ k # x.merchant /\ (HasCoupon(x) => k # coupons[x.coupon].originator)
  <2>1. HasCoupon(x) => coupons[x.coupon].originator \in Merchant
    BY <1>1, <1>2, CouponType DEF HasCoupon
  <2>2. QED
    BY <1>2, <2>1
<1>4. share \in Int
  BY <1>2
<1>5. FrozenPart(x, k) = 0 /\ KeptPart(x, k) = 0
  BY <1>3 DEF FrozenPart, KeptPart
<1>6. ReleasedPart(x, k) = share
  BY <1>3, <1>4 DEF ReleasedPart
<1>7. WorthIn("MARKETER_SHARE")[p] = x.inviter_share
  BY DEF WorthIn, Worth
<1>8. p \in OwedTo(k, "MARKETER_SHARE") <=>
        x.status = "FINISHED" /\ HasCoupon(x) /\ Inviter[x.merchant] = k
  BY DEF OwedTo, Owed, Owner
<1>9. GotIn(k)[p] = Held(x, k) + Released(x, k)
  BY DEF GotIn
<1> HIDE DEF x
<1>10. CASE x.status = "FINISHED"
  <2>1. Held(x, k) = 0 /\ Released(x, k) = share
    BY <1>5, <1>6, <1>10 DEF Held, Released
  <2>2. QED
    BY <1>4, <1>7, <1>8, <1>9, <1>10, <2>1 DEF x
<1>11. CASE x.status # "FINISHED"
  <2>1. Held(x, k) = 0 /\ Released(x, k) = 0
    BY <1>5, <1>11 DEF Held, Released
  <2>2. QED
    BY <1>8, <1>9, <1>11, <2>1 DEF x
<1>12. QED
  BY <1>10, <1>11

\* What an account received, on both channels, is what the payments brought it.
LEMMA BalanceIs ==
  ASSUME SalesAreKept, NEW a \in Person,
         \A p \in Serial : Held(payments[p], a) \in Int /\ Released(payments[p], a) \in Int
  PROVE  Money(balance, a) + Money(paidOut, a) = SumFunctionOnSet(GotIn(a), Serial)
<1>1. TypeOK /\ FrozenMoneyMatchesPayments /\ WithdrawableMatchesPayments
  BY DEF SalesAreKept, LedgerInvariant
<1>2. /\ a \in Account /\ a # Platform /\ "WECHAT" \in Channel /\ "ALIPAY" \in Channel
      /\ IsFiniteSet(Serial) /\ Serial = 1..NPayments /\ NPayments \in Nat
  BY SalesFinite DEF Person, Account, Channel, Serial
<1>3. ASSUME NEW ch \in Channel
      PROVE  /\ \A p \in Serial : HeldOf(a, ch)[p] \in Int /\ ReleasedOf(a, ch)[p] \in Int
             /\ SumTo(HeldOf(a, ch), NPayments) = SumFunctionOnSet(HeldOf(a, ch), Serial)
             /\ SumTo(ReleasedOf(a, ch), NPayments) = SumFunctionOnSet(ReleasedOf(a, ch), Serial)
  <2>1. \A p \in Serial : HeldOf(a, ch)[p] \in Int /\ ReleasedOf(a, ch)[p] \in Int
    BY DEF HeldOf, ReleasedOf
  <2>2. QED
    BY <1>2, <2>1, SumToIs
<1>4. ASSUME NEW ch \in Channel
      PROVE  /\ balance[<<a, ch>>] + paidOut[<<a, ch>>] =
                  SumFunctionOnSet(HeldOf(a, ch), Serial) + SumFunctionOnSet(ReleasedOf(a, ch), Serial)
             /\ balance[<<a, ch>>] \in Int /\ paidOut[<<a, ch>>] \in Int
             /\ SumFunctionOnSet(HeldOf(a, ch), Serial) \in Int
             /\ SumFunctionOnSet(ReleasedOf(a, ch), Serial) \in Int
  <2>1. /\ <<a, ch>> \in Purse /\ InitialMoney(<<a, ch>>) = 0
    BY <1>2 DEF Purse, InitialMoney
  <2>2. balance[<<a, ch>>] \in Int /\ withdrawable[<<a, ch>>] \in Int /\ paidOut[<<a, ch>>] \in Int
    BY <1>1, <2>1 DEF TypeOK
  <2>3. /\ balance[<<a, ch>>] - withdrawable[<<a, ch>>] = SumFunctionOnSet(HeldOf(a, ch), Serial)
        /\ withdrawable[<<a, ch>>] = 0 + SumFunctionOnSet(ReleasedOf(a, ch), Serial) - paidOut[<<a, ch>>]
    BY <1>1, <1>2, <1>3, <2>1 DEF FrozenMoneyMatchesPayments, WithdrawableMatchesPayments
  <2>4. SumFunctionOnSet(HeldOf(a, ch), Serial) \in Int /\ SumFunctionOnSet(ReleasedOf(a, ch), Serial) \in Int
    BY <1>2, <1>3, SumTakes
  <2>5. QED
    BY <2>2, <2>3, <2>4
<1> DEFINE W == "WECHAT"
           L == "ALIPAY"
           f == [p \in Serial |-> HeldOf(a, W)[p] + ReleasedOf(a, W)[p]]
           g == [p \in Serial |-> HeldOf(a, L)[p] + ReleasedOf(a, L)[p]]
<1>5. ASSUME NEW p \in Serial
      PROVE  f[p] \in Int /\ g[p] \in Int /\ GotIn(a)[p] = f[p] + g[p]
  <2>1. payments[p].pay_channel \in Channel
    BY <1>1, PartsType
  <2>2. Held(payments[p], a) \in Int /\ Released(payments[p], a) \in Int
    OBVIOUS
  <2>3. CASE payments[p].pay_channel = W
    BY <2>2, <2>3 DEF HeldOf, ReleasedOf, GotIn
  <2>4. CASE payments[p].pay_channel = L
    BY <2>2, <2>4 DEF HeldOf, ReleasedOf, GotIn
  <2>5. QED
    BY <2>1, <2>3, <2>4 DEF Channel
<1>6. /\ \A p \in Serial : HeldOf(a, W)[p] \in Int /\ ReleasedOf(a, W)[p] \in Int
                           /\ f[p] = HeldOf(a, W)[p] + ReleasedOf(a, W)[p]
      /\ \A p \in Serial : HeldOf(a, L)[p] \in Int /\ ReleasedOf(a, L)[p] \in Int
                           /\ g[p] = HeldOf(a, L)[p] + ReleasedOf(a, L)[p]
  BY <1>2, <1>3
<1> HIDE DEF f, g
<1>7. SumFunctionOnSet(f, Serial) =
        SumFunctionOnSet(HeldOf(a, W), Serial) + SumFunctionOnSet(ReleasedOf(a, W), Serial)
  BY ONLY <1>2, <1>6, SumAdds
<1>8. SumFunctionOnSet(g, Serial) =
        SumFunctionOnSet(HeldOf(a, L), Serial) + SumFunctionOnSet(ReleasedOf(a, L), Serial)
  BY ONLY <1>2, <1>6, SumAdds
<1>9. SumFunctionOnSet(GotIn(a), Serial) = SumFunctionOnSet(f, Serial) + SumFunctionOnSet(g, Serial)
  BY ONLY <1>2, <1>5, SumAdds
<1>10. /\ balance[<<a, W>>] + paidOut[<<a, W>>] = SumFunctionOnSet(f, Serial)
       /\ balance[<<a, L>>] + paidOut[<<a, L>>] = SumFunctionOnSet(g, Serial)
       /\ balance[<<a, W>>] \in Int /\ paidOut[<<a, W>>] \in Int
       /\ balance[<<a, L>>] \in Int /\ paidOut[<<a, L>>] \in Int
  BY <1>2, <1>4, <1>7, <1>8
<1>11. PICK i \in Int, j \in Int, u \in Int, v \in Int :
         /\ i = balance[<<a, W>>] /\ j = paidOut[<<a, W>>]
         /\ u = balance[<<a, L>>] /\ v = paidOut[<<a, L>>]
  BY <1>10
<1>12. Money(balance, a) + Money(paidOut, a) = (i + u) + (j + v)
  BY <1>11 DEF Money
<1>13. SumFunctionOnSet(GotIn(a), Serial) = (i + j) + (u + v)
  BY <1>9, <1>10, <1>11
<1>14. QED
  BY <1>12, <1>13

LEMMA MerchantMoney ==
  ASSUME SalesAreKept, NEW m \in Merchant
  PROVE  /\ Money(balance, m) + Money(paidOut, m) =
              SumFunctionOnSet(PartIn, SoldOf(m))
              + SumFunctionOnSet(WorthIn("MERCHANT_SHARE"), OwedTo(m, "MERCHANT_SHARE"))
         /\ SoldOf(m) \in SUBSET Serial /\ \A p \in Serial : PartIn[p] \in Int
<1> DEFINE t == "MERCHANT_SHARE"
           S == SoldOf(m)
           T == OwedTo(m, t)
           f == [p \in Serial |-> IF p \in S THEN PartIn[p] ELSE 0]
           g == [p \in Serial |-> IF p \in T THEN WorthIn(t)[p] ELSE 0]
<1>1. /\ TypeOK /\ IsFiniteSet(Serial) /\ m \in Person /\ t \in PaymentType
      /\ S \subseteq Serial /\ T \subseteq Serial
  BY SalesFinite DEF SalesAreKept, LedgerInvariant, Person, PaymentType, SoldOf, OwedTo
<1>2. \A p \in Serial : PartIn[p] \in Int
  BY <1>1, PartsType DEF PartIn
<1>3. \A p \in Serial : WorthIn(t)[p] \in Int
  BY <1>1, WorthType
<1>4. \A p \in Serial : Held(payments[p], m) \in Int /\ Released(payments[p], m) \in Int
  BY MerchantGets
<1>5. \A p \in Serial : f[p] \in Int /\ g[p] \in Int /\ GotIn(m)[p] = f[p] + g[p]
  BY <1>2, <1>3, MerchantGets
<1>6. \A p \in Serial : PartIn[p] \in Int /\ f[p] = IF p \in S THEN PartIn[p] ELSE 0
  BY <1>2
<1>7. \A p \in Serial : WorthIn(t)[p] \in Int /\ g[p] = IF p \in T THEN WorthIn(t)[p] ELSE 0
  BY <1>3
<1> HIDE DEF f, g, S, T
<1>8. SumFunctionOnSet(GotIn(m), Serial) = SumFunctionOnSet(f, Serial) + SumFunctionOnSet(g, Serial)
  BY ONLY <1>1, <1>5, SumAdds
<1>9. SumFunctionOnSet(f, Serial) = SumFunctionOnSet(PartIn, S)
  BY ONLY <1>1, <1>6, SumPart
<1>10. SumFunctionOnSet(g, Serial) = SumFunctionOnSet(WorthIn(t), T)
  BY ONLY <1>1, <1>7, SumPart
<1>11. Money(balance, m) + Money(paidOut, m) = SumFunctionOnSet(GotIn(m), Serial)
  BY <1>1, <1>4, BalanceIs
<1>12. QED
  BY <1>1, <1>2, <1>8, <1>9, <1>10, <1>11 DEF S, T

LEMMA MarketerMoney ==
  ASSUME SalesAreKept, NEW k \in Marketer
  PROVE  Money(balance, k) + Money(paidOut, k) =
           SumFunctionOnSet(WorthIn("MARKETER_SHARE"), OwedTo(k, "MARKETER_SHARE"))
<1> DEFINE t == "MARKETER_SHARE"
           T == OwedTo(k, t)
<1>1. /\ IsFiniteSet(Serial) /\ k \in Person /\ t \in PaymentType /\ T \subseteq Serial
  BY SalesFinite DEF Person, PaymentType, OwedTo
<1>2. \A p \in Serial : Held(payments[p], k) \in Int /\ Released(payments[p], k) \in Int
  BY MarketerGets
<1>3. \A p \in Serial : WorthIn(t)[p] \in Int /\ GotIn(k)[p] = IF p \in T THEN WorthIn(t)[p] ELSE 0
  BY <1>1, WorthType, MarketerGets
<1> HIDE DEF T
<1>4. SumFunctionOnSet(GotIn(k), Serial) = SumFunctionOnSet(WorthIn(t), T)
  BY ONLY <1>1, <1>3, SumPart
<1>5. QED
  BY <1>1, <1>2, <1>4, BalanceIs DEF T

-----------------------------------------------------------------------------
(* Earnings                                                                *)

DayOf == [r \in journal |-> r.day]

\* h[d] is the sum of the rows of S in group d.
GroupsRows(h, T, S, g) == \A d \in T : h[d] = AmountOf({r \in S : g[r] = d})

\* Sums of the rows of each day, or of each of other groups
LEMMA RowGroups ==
  ASSUME JournalIsKept, NEW S \in SUBSET journal, \A r \in S : r.amount \in Int,
         NEW T, IsFiniteSet(T), NEW g, \A r \in S : g[r] \in T,
         NEW h, GroupsRows(h, T, S, g)
  PROVE  SumFunctionOnSet(h, T) = AmountOf(S) /\ \A d \in T : h[d] \in Int
<1>1. IsFiniteSet(S) /\ AmountOf(S) = SumFunctionOnSet(AmountIn, S)
  BY RowSums
<1>2. \A r \in S : AmountIn[r] \in Int /\ g[r] \in T
  BY DEF AmountIn
<1>3. ASSUME NEW d \in T
      PROVE  h[d] = SumFunctionOnSet(AmountIn, {r \in S : g[r] = d}) /\ h[d] \in Int
  <2> DEFINE R == {r \in S : g[r] = d}
  <2>1. R \in SUBSET journal /\ (\A r \in R : AmountIn[r] \in Int) /\ h[d] = AmountOf(R)
    BY <1>2 DEF GroupsRows
  <2> HIDE DEF R
  <2>2. IsFiniteSet(R) /\ AmountOf(R) = SumFunctionOnSet(AmountIn, R)
    BY <2>1, RowSums
  <2>3. SumFunctionOnSet(AmountIn, R) \in Int
    BY <2>1, <2>2, SumTakes
  <2>4. QED
    BY <2>1, <2>2, <2>3 DEF R
<1>4. SumsGroups(h, T, AmountIn, S, g)
  BY <1>3 DEF SumsGroups
<1>5. SumFunctionOnSet(h, T) = SumFunctionOnSet(AmountIn, S)
  BY ONLY <1>1, <1>2, <1>4, IsFiniteSet(T), SumGroups
<1>6. QED
  BY <1>1, <1>3, <1>5

\* The daily earnings of a merchant
LEMMA DailyEarnings ==
  ASSUME SalesAreKept, JournalIsKept, NEW m \in Merchant
  PROVE  LET list == EarningList(m, 1, MaxDay)
         IN  SumTo(list, Len(list)) = Money(balance, m) + Money(paidOut, m)
<1> DEFINE t == "MERCHANT_SHARE"
           D == 1..MaxDay
           list == EarningList(m, 1, MaxDay)
           f == [d \in D |-> SalesSum({p \in Serial : payments[p].merchant = m /\ placed[p] = d
                   /\ payments[p].status \notin {"NONE", "UNPAID", "CANCELLED", "REFUND"}},
                   MerchantPart)]
           g == [d \in D |-> AmountOf({r \in journal : r.account = m /\ r.day = d
                   /\ r.transaction_type = t})]
           R == RowsOf(m, {t})
           S == SoldOf(m)
<1>1. /\ MaxDay \in Nat /\ IsFiniteSet(D) /\ day \in D /\ t \in PaymentType /\ TypeOK
      /\ PlacedHasDay
  BY DayAssumption, FS_Interval DEF SalesAreKept, LedgerInvariant, PlacedHasDay, Day, PaymentType
<1>2. /\ S \in SUBSET Serial /\ IsFiniteSet(S) /\ \A p \in S : PartIn[p] \in Int
  BY MerchantMoney, SalesFinite
<1>3. \A p \in S : placed[p] \in D
  BY <1>1 DEF PlacedHasDay, SoldOf, NotRefunded
<1>4. SumFunctionOnSet(f, D) = SumFunctionOnSet(PartIn, S) /\ \A d \in D : f[d] \in Int
  <2>1. ASSUME NEW d \in D
        PROVE  f[d] = SumFunctionOnSet(PartIn, {p \in S : placed[p] = d}) /\ f[d] \in Int
    <3>1. {p \in Serial : payments[p].merchant = m /\ placed[p] = d
                   /\ payments[p].status \notin {"NONE", "UNPAID", "CANCELLED", "REFUND"}}
          = {p \in S : placed[p] = d}
      <4>1. \A p \in Serial : payments[p].status \in PaymentStatus
        BY <1>1 DEF TypeOK, Payment
      <4>2. \A p \in Serial : payments[p].status \notin {"NONE", "UNPAID", "CANCELLED", "REFUND"}
              <=> payments[p].status \in NotRefunded
        BY <4>1 DEF PaymentStatus, NotRefunded
      <4>3. QED
        BY <4>2 DEF SoldOf
    <3>2. f[d] = SumFunctionOnSet(PartIn, {p \in S : placed[p] = d})
      BY <3>1 DEF SalesSum, PartIn
    <3> DEFINE P == {p \in S : placed[p] = d}
    <3>3. IsFiniteSet(P) /\ \A p \in P : PartIn[p] \in Int
      <4>1. P \in SUBSET Serial
        BY <1>2
      <4>2. QED
        BY <1>2, <4>1, SalesFinite
    <3> HIDE DEF P
    <3>4. SumFunctionOnSet(PartIn, P) \in Int
      BY <3>3, SumTakes
    <3>5. QED
      BY <3>2, <3>4 DEF P
  <2> HIDE DEF f, D, S
  <2>2. SumsGroups(f, D, PartIn, S, placed)
    BY <2>1 DEF SumsGroups
  <2>3. \A p \in S : PartIn[p] \in Int /\ placed[p] \in D
    BY <1>2, <1>3
  <2>4. SumFunctionOnSet(f, D) = SumFunctionOnSet(PartIn, S)
    BY ONLY <1>1, <1>2, <2>2, <2>3, SumGroups
  <2>5. QED
    BY <2>1, <2>4
<1>5. SumFunctionOnSet(g, D) = AmountOf(R) /\ \A d \in D : g[d] \in Int
  <2>1. R \in SUBSET journal /\ \A r \in R : r.amount \in Int
    BY <1>1, RowsOnAccount DEF RowsOf
  <2>2. \A r \in R : DayOf[r] \in D
    <3>1. ASSUME NEW r \in R
          PROVE  DayOf[r] \in D
      <4>1. r \in journal
        BY <2>1
      <4>2. r.day \in 1..day
        BY <4>1 DEF JournalIsKept, RowsAreExplained
      <4>3. QED
        BY <1>1, <4>1, <4>2 DEF DayOf
    <3>2. QED
      BY <3>1
  <2>3. \A d \in D : g[d] = AmountOf({r \in R : DayOf[r] = d})
    <3>1. ASSUME NEW d \in D
          PROVE  {r \in journal : r.account = m /\ r.day = d /\ r.transaction_type = t}
                 = {r \in R : DayOf[r] = d}
      BY DEF RowsOf, DayOf
    <3>2. QED
      BY <3>1
  <2> HIDE DEF g, R, D
  <2>4. GroupsRows(g, D, R, DayOf)
    BY <2>3 DEF GroupsRows
  <2>5. QED
    BY ONLY <1>1, JournalIsKept, <2>1, <2>2, <2>4, RowGroups
<1>6. /\ Len(list) = MaxDay
      /\ \A d \in D : list[d] = f[d] + g[d]
  <2>1. list = [i \in 1..MaxDay |-> EarningOfDay(m, 1 + i - 1)]
    <3>1. MaxDay - 1 + 1 = MaxDay
      BY <1>1
    <3>2. QED
      BY <3>1 DEF EarningList
  <2>2. \A d \in D : list[d] = EarningOfDay(m, d)
    <3>1. \A d \in D : 1 + d - 1 = d
      OBVIOUS
    <3> HIDE DEF list
    <3>2. QED
      BY <2>1, <3>1
  <2>3. \A d \in D : EarningOfDay(m, d) = f[d] + g[d]
    BY DEF EarningOfDay
  <2>4. Len(list) = MaxDay
    <3> HIDE DEF list
    <3>1. QED
      BY <1>1, <2>1
  <2>5. QED
    BY <2>2, <2>3, <2>4
<1> HIDE DEF f, g, list, R, S
<1>7. SumTo(list, MaxDay) = SumFunctionOnSet(list, D)
  <2>1. \A d \in 1..MaxDay : list[d] \in Int
    BY <1>4, <1>5, <1>6
  <2>2. QED
    BY <1>1, <2>1, SumToIs
<1>8. SumFunctionOnSet(list, D) = SumFunctionOnSet(f, D) + SumFunctionOnSet(g, D)
  <2> HIDE DEF D
  <2>1. \A d \in D : f[d] \in Int /\ g[d] \in Int /\ list[d] = f[d] + g[d]
    BY <1>4, <1>5, <1>6
  <2>2. QED
    BY ONLY <1>1, <2>1, SumAdds
<1>9. AmountOf(R) = SumFunctionOnSet(WorthIn(t), OwedTo(m, t))
  BY <1>1, RowsOnAccount DEF R
<1>10. QED
  BY <1>4, <1>5, <1>6, <1>7, <1>8, <1>9, MerchantMoney DEF list, S

\* The bonus of a marketer
LEMMA BonusIs ==
  ASSUME SalesAreKept, JournalIsKept, NEW k \in Marketer
  PROVE  /\ TotalBonus(k) = Money(balance, k) + Money(paidOut, k)
         /\ TotalBonus(k) = AmountOf(RowsOf(k, {"MARKETER_SHARE"}))
         /\ \A r \in journal : r.account = k /\ r.content[1] = "payment" =>
              r.transaction_type = "MARKETER_SHARE"
<1>1. \A p \in Serial : /\ payments[p].merchant \in Merchant
                        /\ HasCoupon(payments[p]) => coupons[payments[p].coupon].originator \in Merchant
  BY PartsType, CouponType DEF SalesAreKept, LedgerInvariant, HasCoupon
<1>2. ASSUME NEW r \in journal, r.account = k, r.transaction_type \in PaymentType
      PROVE  r.transaction_type = "MARKETER_SHARE"
  <2> DEFINE p == r.content[2]
  <2>1. p \in Serial /\ OfPayment(r, p)
    BY <1>2, PaymentRow
  <2> HIDE DEF p
  <2>2. k = Owner(payments[p], r.transaction_type) /\ Owed(payments[p], r.transaction_type)
    BY <1>2, <2>1 DEF OfPayment
  <2>3. k \notin Merchant
    OBVIOUS
  <2>4. r.transaction_type # "MERCHANT_SHARE"
    BY <1>1, <2>1, <2>2, <2>3 DEF Owner, Owed
  <2>5. r.transaction_type \notin {"MERCHANT_RECEIVE", "MERCHANT_REFUND"}
    BY <1>1, <2>1, <2>2, <2>3 DEF Owner
  <2>6. QED
    BY <1>2, <2>4, <2>5 DEF PaymentType
<1>3. \A r \in journal : r.account = k /\ r.content[1] = "payment" =>
        r.transaction_type = "MARKETER_SHARE"
  BY <1>2, PaymentRow
<1>4. \A r \in journal : r.transaction_type = "MARKETER_SHARE" => r.content[1] = "payment"
  BY PaymentRow DEF PaymentType
<1>5. {r \in journal : r.account = k /\ r.content[1] = "payment"} = RowsOf(k, {"MARKETER_SHARE"})
  BY <1>3, <1>4 DEF RowsOf
<1>6. TotalBonus(k) = AmountOf(RowsOf(k, {"MARKETER_SHARE"}))
  BY <1>5 DEF TotalBonus
<1>7. QED
  BY <1>3, <1>6, RowsOnAccount, MarketerMoney DEF PaymentType

\* What the sales of a merchant brought its inviter
LEMMA SharingIs ==
  ASSUME SalesAreKept, JournalIsKept, NEW m
  PROVE  /\ GetSharing(m) = SumFunctionOnSet(WorthIn("MARKETER_SHARE"),
              {p \in Serial : payments[p].merchant = m /\ Owed(payments[p], "MARKETER_SHARE")})
         /\ GetSharing(m) = GetMerchantSharing(m)
<1> DEFINE t == "MARKETER_SHARE"
           Q == {p \in Serial : payments[p].merchant = m}
           P == {p \in Q : Owed(payments[p], t)}
           S == {p \in Serial : payments[p].merchant = m /\ payments[p].status = "FINISHED"}
           h == [p \in Serial |-> payments[p].inviter_share]
<1>1. t \in PaymentType /\ Q \in SUBSET Serial /\ P \subseteq S /\ S \in SUBSET Serial
  BY DEF PaymentType, Owed
<1>2. GetSharing(m) = AmountOf({r \in journal : r.transaction_type = t /\ r.content[2] \in Q})
  <2>1. \A r \in journal : r.transaction_type = t => r.content[2] \in Serial
    BY <1>1, PaymentRow
  <2>2. {r \in journal : r.transaction_type = t /\ payments[r.content[2]].merchant = m}
        = {r \in journal : r.transaction_type = t /\ r.content[2] \in Q}
    BY <2>1
  <2>3. QED
    BY <2>2 DEF GetSharing
<1>3. GetSharing(m) = SumFunctionOnSet(WorthIn(t), P)
  <2> HIDE DEF Q
  <2>1. QED
    BY <1>1, <1>2, PaymentRows
<1>4. P = {p \in Serial : payments[p].merchant = m /\ Owed(payments[p], t)}
  OBVIOUS
<1>5. \A p \in S : WorthIn(t)[p] \in Int /\ h[p] = IF p \in P THEN WorthIn(t)[p] ELSE 0
  <2>1. SharesNeedCoupon
    BY DEF SalesAreKept, LedgerInvariant
  <2>2. ASSUME NEW p \in S
        PROVE  WorthIn(t)[p] \in Int /\ h[p] = IF p \in P THEN WorthIn(t)[p] ELSE 0
    <3>1. WorthIn(t)[p] = h[p]
      BY DEF WorthIn, Worth
    <3>2. p \in P <=> HasCoupon(payments[p])
      BY DEF Owed
    <3>3. ~HasCoupon(payments[p]) => h[p] = 0
      BY <2>1 DEF SharesNeedCoupon
    <3>4. WorthIn(t)[p] \in Int
      BY <1>1, WorthType
    <3> HIDE DEF P, h
    <3>5. QED
      BY <3>1, <3>2, <3>3, <3>4
  <2>3. QED
    BY <2>2
<1>6. GetMerchantSharing(m) = SumFunctionOnSet(h, S)
  BY DEF GetMerchantSharing, SalesSum
<1>7. IsFiniteSet(S)
  BY SalesFinite
<1> HIDE DEF P, S, h
<1>8. SumFunctionOnSet(h, S) = SumFunctionOnSet(WorthIn(t), P)
  BY ONLY <1>1, <1>5, <1>7, SumPart
<1>9. QED
  BY <1>3, <1>4, <1>6, <1>8

\* The merchants of a marketer brought it its bonus.
LEMMA BonusOfMerchants ==
  ASSUME SalesAreKept, JournalIsKept, NEW k \in Marketer
  PROVE  TotalBonus(k) = SumOver({m \in Merchant : Inviter[m] = k}, GetSharing)
<1> DEFINE t == "MARKETER_SHARE"
           M == {m \in Merchant : Inviter[m] = k}
           P == OwedTo(k, t)
           h == [m \in M |-> GetSharing(m)]
<1>1. t \in PaymentType /\ P \in SUBSET Serial /\ IsFiniteSet(M) /\ TypeOK
  BY ReportAssumption, FS_Subset DEF PaymentType, OwedTo, SalesAreKept, LedgerInvariant
<1>2. ASSUME NEW p \in P
      PROVE  WorthIn(t)[p] \in Int /\ SoldBy[p] \in M
  BY <1>1, WorthType, PartsType DEF OwedTo, Owner, SoldBy
<1>3. ASSUME NEW m \in M
      PROVE  h[m] = SumFunctionOnSet(WorthIn(t), {p \in P : SoldBy[p] = m})
  <2>1. {p \in P : SoldBy[p] = m}
        = {p \in Serial : payments[p].merchant = m /\ Owed(payments[p], t)}
    BY DEF OwedTo, Owner, SoldBy
  <2>2. QED
    BY <2>1, SharingIs
<1>4. SumsGroups(h, M, WorthIn(t), P, SoldBy)
  BY <1>3 DEF SumsGroups
<1>5. \A p \in P : WorthIn(t)[p] \in Int /\ SoldBy[p] \in M
  BY <1>2
<1>6. SumOver(M, GetSharing) = SumFunctionOnSet(h, M)
  <2>1. SumOver(M, GetSharing) = SumFunction(h) /\ DOMAIN h = M
    BY DEF SumOver
  <2> HIDE DEF h, M
  <2>2. QED
    BY <2>1, SumOfFunction
<1>7. IsFiniteSet(P)
  BY <1>1, SalesFinite
<1> HIDE DEF h, M, P
<1>8. SumFunctionOnSet(h, M) = SumFunctionOnSet(WorthIn(t), P)
  BY ONLY <1>1, <1>4, <1>5, <1>7, SumGroups
<1>9. TotalBonus(k) = SumFunctionOnSet(WorthIn(t), P)
  BY <1>1, BonusIs, RowsOnAccount DEF P
<1>10. QED
  BY <1>6, <1>8, <1>9 DEF M

LEMMA EarningsExplained ==
  ASSUME SalesAreKept, JournalIsKept
  PROVE  EarningsAreBalances
BY DailyEarnings, BonusIs, BonusOfMerchants, SharingIs DEF EarningsAreBalances

-----------------------------------------------------------------------------
(* Months                                                                  *)

\* Day d is in month k.
InMonth(d, k) == MonthStart[k] <= d /\ d < MonthStart[k] + MonthLength[k]

\* Months follow each other ...
LEMMA MonthsFollow ==
  /\ Len(MonthLength) \in Nat
  /\ \A k \in 1..Len(MonthLength) : MonthStart[k] \in Nat /\ MonthLength[k] \in Nat \ {0}
  /\ 1 <= Len(MonthLength) => MonthStart[1] = 1
  /\ \A k \in 1..Len(MonthLength) - 1 : MonthStart[k + 1] = MonthStart[k] + MonthLength[k]
<1> DEFINE L == Len(MonthLength)
<1>1. L \in Nat /\ \A k \in 1..L : MonthLength[k] \in Nat \ {0}
  BY ReportAssumption
<1>2. \A k \in 1..L : MonthStart[k] = 1 + SumTo(MonthLength, k - 1)
  BY DEF MonthStart
<1>3. \A i \in 1..L : MonthLength[i] \in Int /\ MonthLength[i] >= 0
  BY <1>1
<1>4. ASSUME NEW n \in 0..L
      PROVE  SumTo(MonthLength, n) \in Int /\ SumTo(MonthLength, n) >= 0
  <2>1. n \in Nat /\ \A i \in 1..n : MonthLength[i] \in Int /\ MonthLength[i] >= 0
    BY <1>1, <1>3
  <2> HIDE DEF L
  <2>2. QED
    BY ONLY <2>1, SumToNonNegative
<1>5. \A k \in 1..L : MonthStart[k] \in Nat
  <2>1. ASSUME NEW k \in 1..L
        PROVE  MonthStart[k] \in Nat
    <3>1. k - 1 \in 0..L
      BY <1>1
    <3>2. SumTo(MonthLength, k - 1) \in Int /\ SumTo(MonthLength, k - 1) >= 0
      BY <1>4, <3>1
    <3>3. QED
      BY <1>2, <3>2
  <2>2. QED
    BY <2>1
<1>6. 1 <= L => MonthStart[1] = 1
  <2>1. SumTo(MonthLength, 0) = 0
    BY SumToDef
  <2>2. SUFFICES ASSUME 1 <= L
                 PROVE  MonthStart[1] = 1
    OBVIOUS
  <2>3. 1 \in 1..L /\ 1 - 1 = 0
    BY <1>1, <2>2
  <2>4. MonthStart[1] = 1 + SumTo(MonthLength, 0)
    BY <1>2, <2>3
  <2>5. QED
    BY <2>1, <2>4
<1>7. ASSUME NEW k \in 1..L - 1
      PROVE  MonthStart[k + 1] = MonthStart[k] + MonthLength[k]
  <2>1. k \in 1..L /\ k + 1 \in 1..L /\ k - 1 \in Nat /\ (k + 1) - 1 = k /\ (k - 1) + 1 = k
        /\ k - 1 \in 0..L /\ k \in 0..L
    BY <1>1
  <2>2. SumTo(MonthLength, (k - 1) + 1) = SumTo(MonthLength, k - 1) + MonthLength[(k - 1) + 1]
    BY <2>1, SumToDef
  <2>3. SumTo(MonthLength, k) = SumTo(MonthLength, k - 1) + MonthLength[k]
    BY <2>1, <2>2
  <2>4. MonthStart[k + 1] = 1 + SumTo(MonthLength, k) /\ MonthStart[k] = 1 + SumTo(MonthLength, k - 1)
    BY <1>2, <2>1
  <2>5. SumTo(MonthLength, k - 1) \in Int /\ MonthLength[k] \in Int
    BY <1>1, <1>4, <2>1
  <2>6. QED
    BY <2>3, <2>4, <2>5
<1>8. QED
  BY <1>1, <1>5, <1>6, <1>7

\* ... without overlapping, ...
LEMMA MonthsApart ==
  ASSUME NEW j \in 1..Len(MonthLength), NEW k \in 1..Len(MonthLength), j < k
  PROVE  MonthStart[j] + MonthLength[j] <= MonthStart[k]
<1> DEFINE L == Len(MonthLength)
           e == MonthStart[j] + MonthLength[j]
           A == {n \in Nat : j + 1 + n <= L => e <= MonthStart[j + 1 + n]}
<1>1. /\ L \in Nat /\ e \in Nat /\ j \in Nat /\ j \in 1..L
      /\ \A i \in 1..L : MonthStart[i] \in Nat /\ MonthLength[i] \in Nat
      /\ \A i \in 1..L - 1 : MonthStart[i + 1] = MonthStart[i] + MonthLength[i]
  BY MonthsFollow
<1>2. 0 \in A
  <2>1. ASSUME j + 1 + 0 <= L
        PROVE  MonthStart[j + 1 + 0] = e
    <3>1. j \in 1..L - 1 /\ j + 1 + 0 = j + 1
      BY <1>1, <2>1
    <3>2. QED
      BY <1>1, <3>1
  <2>2. QED
    BY <1>1, <2>1
<1>3. ASSUME NEW n \in Nat, n \in A
      PROVE  n + 1 \in A
  <2>1. ASSUME j + 1 + (n + 1) <= L
        PROVE  e <= MonthStart[j + 1 + (n + 1)]
    <3>1. j + 1 + n \in 1..L - 1 /\ j + 1 + n \in 1..L /\ j + 1 + n <= L /\ j + 1 + (n + 1) = (j + 1 + n) + 1
      BY <1>1, <2>1
    <3>2. e <= MonthStart[j + 1 + n]
      BY <1>3, <3>1
    <3>3. MonthStart[(j + 1 + n) + 1] = MonthStart[j + 1 + n] + MonthLength[j + 1 + n]
      BY <1>1, <3>1
    <3>4. MonthStart[j + 1 + n] \in Nat /\ MonthLength[j + 1 + n] \in Nat
      BY <1>1, <3>1
    <3>5. e <= MonthStart[(j + 1 + n) + 1]
      <4>1. PICK a \in Nat, b \in Nat, c \in Nat :
              a = MonthStart[j + 1 + n] /\ b = MonthLength[j + 1 + n] /\ c = e
        BY <1>1, <3>4
      <4>2. c <= a /\ MonthStart[(j + 1 + n) + 1] = a + b
        BY <3>2, <3>3, <4>1
      <4>3. c <= a + b
        BY <4>2
      <4>4. QED
        BY <4>1, <4>2, <4>3
    <3>6. QED
      BY <3>1, <3>5
  <2>2. QED
    BY <2>1
<1> HIDE DEF A
<1>4. \A n \in Nat : n \in A
  BY <1>2, <1>3, SetInduction
<1>5. k - j - 1 \in Nat /\ j + 1 + (k - j - 1) = k /\ k <= L
  BY <1>1
<1>6. QED
  BY <1>4, <1>5 DEF A

\* ... and each day is in one.
LEMMA MonthIs ==
  ASSUME NEW d \in Day
  PROVE  /\ Month(d) \in 1..Len(MonthLength) /\ InMonth(d, Month(d))
         /\ \A k \in 1..Len(MonthLength) : InMonth(d, k) => k = Month(d)
<1>1. \E k \in 1..Len(MonthLength) : InMonth(d, k)
  BY ReportAssumption DEF InMonth
<1>2. Month(d) = CHOOSE k \in 1..Len(MonthLength) : InMonth(d, k)
  BY DEF Month, InMonth
<1>3. Month(d) \in 1..Len(MonthLength) /\ InMonth(d, Month(d))
  BY <1>1, <1>2
<1>4. ASSUME NEW k \in 1..Len(MonthLength), NEW j \in 1..Len(MonthLength), InMonth(d, k), InMonth(d, j), j < k
      PROVE  FALSE
  <2>1. MonthStart[j] + MonthLength[j] <= MonthStart[k]
    BY <1>4, MonthsApart
  <2>2. /\ MonthStart[j] \in Nat /\ MonthLength[j] \in Nat /\ MonthStart[k] \in Nat /\ d \in Nat
        /\ MonthStart[k] <= d /\ d < MonthStart[j] + MonthLength[j]
    BY <1>4, MonthsFollow DEF InMonth, Day
  <2>3. QED
    BY <2>1, <2>2
<1>5. ASSUME NEW k \in 1..Len(MonthLength), InMonth(d, k)
      PROVE  k = Month(d)
  <2>1. k < Month(d) \/ Month(d) < k \/ k = Month(d)
    BY <1>3
  <2>2. QED
    BY <1>3, <1>4, <1>5, <2>1
<1>6. QED
  BY <1>3, <1>5

\* The days before a month are those of the months before it.
LEMMA MonthsBefore ==
  ASSUME NEW d \in Day, NEW k \in 1..Len(MonthLength)
  PROVE  d < MonthStart[k] <=> Month(d) < k
<1> DEFINE i == Month(d)
<1>1. i \in 1..Len(MonthLength) /\ InMonth(d, i)
  BY MonthIs
<1> HIDE DEF i
<1>2. /\ MonthStart[i] <= d /\ d < MonthStart[i] + MonthLength[i]
      /\ MonthStart[i] \in Nat /\ MonthLength[i] \in Nat /\ MonthStart[k] \in Nat /\ d \in Nat
      /\ MonthLength[k] \in Nat
  BY <1>1, MonthsFollow DEF InMonth, Day
<1>3. i < k => MonthStart[i] + MonthLength[i] <= MonthStart[k]
  BY <1>1, MonthsApart
<1>4. k < i => MonthStart[k] + MonthLength[k] <= MonthStart[i]
  BY <1>1, MonthsApart
<1>5. i \in Nat /\ k \in Nat
  BY <1>1
<1>6. d < MonthStart[k] <=> i < k
  <2>1. CASE i < k
    BY <1>2, <1>3, <2>1
  <2>2. CASE i = k
    BY <1>2, <2>2
  <2>3. CASE k < i
    BY <1>2, <1>4, <1>5, <2>3
  <2>4. QED
    BY <1>5, <2>1, <2>2, <2>3
<1>7. QED
  BY <1>6 DEF i

\* The month bill and the statement are of the same rows.
LEMMA MonthBillExplained ==
  ASSUME SalesAreKept, JournalIsKept
  PROVE  MonthBillIsStatement
<1> DEFINE k == Month(day)
           last == MonthStart[k] - 1
           j == k - 1
<1>1. SUFFICES ASSUME k > 1, NEW m \in Merchant, k - 1 \in MonthsShown(Listed(m))
               PROVE  /\ MonthBill(m).turnover = MonthFigures(m, j).turnover
                      /\ MonthBill(m).sharing_earning = MonthFigures(m, j).originator_earning
  BY DEF MonthBillIsStatement
<1>2. day \in Day /\ MaxDay \in Nat
  BY DayAssumption DEF SalesAreKept, PlacedHasDay
<1>3. k \in 1..Len(MonthLength) /\ InMonth(day, k)
  BY <1>2, MonthIs
<1>4. /\ j \in 1..Len(MonthLength) /\ j \in 1..Len(MonthLength) - 1 /\ j + 1 = k
  <2>1. k > 1
    BY <1>1
  <2> HIDE DEF k
  <2>2. QED
    BY ONLY <1>3, <2>1, MonthsFollow
<1> HIDE DEF k, j
<1>5. /\ MonthStart[k] = MonthStart[j] + MonthLength[j]
      /\ MonthStart[j] \in Nat /\ MonthLength[j] \in Nat \ {0} /\ MonthStart[k] \in Nat
      /\ MonthStart[k] <= day
  BY <1>3, <1>4, MonthsFollow DEF InMonth
<1>6. MonthStart[j] >= 1
  <2>1. 1 \in 1..Len(MonthLength) /\ MonthStart[1] = 1 /\ MonthLength[1] \in Nat
    BY <1>4, MonthsFollow
  <2>2. CASE j = 1
    BY <2>1, <2>2
  <2>3. CASE j # 1
    <3>1. MonthStart[1] + MonthLength[1] <= MonthStart[j]
      BY <1>4, <2>1, <2>3, MonthsApart
    <3>2. QED
      BY <1>5, <2>1, <3>1
  <2>4. QED
    BY <2>2, <2>3
<1>7. last \in Day /\ InMonth(last, j)
  <2>1. PICK a \in Nat, b \in Nat \ {0}, c \in Nat :
          a = MonthStart[j] /\ b = MonthLength[j] /\ c = MonthStart[k]
    BY <1>5
  <2>2. c = a + b /\ c <= day /\ 1 <= a /\ last = c - 1 /\ day \in 1..MaxDay
    BY <1>2, <1>5, <1>6, <2>1 DEF Day
  <2>3. last \in 1..MaxDay /\ a <= last /\ last < a + b
    BY <1>2, <2>2
  <2>4. QED
    BY <2>1, <2>3 DEF Day, InMonth
<1> HIDE DEF last
<1>8. Month(last) = j
  BY <1>4, <1>7, MonthIs
<1>9. ASSUME NEW r \in journal
      PROVE  r.day \in last - MonthLength[Month(last)] + 1..last <=> Month(r.day) = j
  <2>1. r.day \in 1..day
    BY DEF JournalIsKept, RowsAreExplained
  <2>2. r.day \in Day /\ r.day \in Int
    BY <1>2, <2>1 DEF Day
  <2>3. last - MonthLength[j] + 1 = MonthStart[j] /\ last = MonthStart[j] + MonthLength[j] - 1
        /\ last \in Int
    BY <1>5 DEF last
  <2>4. r.day \in MonthStart[j]..last <=> InMonth(r.day, j)
    <3>1. PICK a \in Nat, b \in Nat, c \in Int : a = MonthStart[j] /\ b = MonthLength[j] /\ c = r.day
      BY <1>5, <2>2
    <3>2. last = a + b - 1
      BY <2>3, <3>1
    <3>3. c \in a..last <=> a <= c /\ c < a + b
      BY <3>2
    <3>4. QED
      BY <3>1, <3>3 DEF InMonth
  <2>5. InMonth(r.day, j) <=> Month(r.day) = j
    BY <1>4, <2>2, MonthIs
  <2>6. QED
    BY <1>8, <2>3, <2>4, <2>5
<1>10. ASSUME NEW T
       PROVE  {r \in {s \in journal : s.account = m
                        /\ s.day \in last - MonthLength[Month(last)] + 1..last} :
                  r.transaction_type \in T}
              = {r \in journal : r.account = m /\ Month(r.day) = j /\ r.transaction_type \in T}
  BY <1>9
<1>11. /\ MonthBill(m).turnover = AmountOf({r \in {s \in journal : s.account = m
                        /\ s.day \in last - MonthLength[Month(last)] + 1..last} :
                  r.transaction_type \in {"MERCHANT_RECEIVE", "MERCHANT_REFUND"}})
       /\ MonthBill(m).sharing_earning = AmountOf({r \in {s \in journal : s.account = m
                        /\ s.day \in last - MonthLength[Month(last)] + 1..last} :
                  r.transaction_type \in {"MERCHANT_SHARE"}})
  BY DEF MonthBill, last, k
<1>12. /\ MonthFigures(m, j).turnover = AmountOf({r \in journal : r.account = m /\ Month(r.day) = j
                  /\ r.transaction_type \in {"MERCHANT_RECEIVE", "MERCHANT_REFUND"}})
       /\ MonthFigures(m, j).originator_earning = AmountOf({r \in journal : r.account = m
                  /\ Month(r.day) = j /\ r.transaction_type \in {"MERCHANT_SHARE"}})
  BY DEF MonthFigures
<1>13. QED
  BY <1>10, <1>11, <1>12

-----------------------------------------------------------------------------
(* Bills                                                                   *)

\* What a function takes a finite set to is finite.
LEMMA ImageFinite ==
  ASSUME NEW D, NEW e, IsFiniteSet(D)
  PROVE  IsFiniteSet({e[x] : x \in D})
<1> DEFINE G == {s \in SUBSET D : IsFiniteSet({e[x] : x \in s})}
<1>1. {} \in G
  <2>1. {e[x] : x \in {}} = {}
    OBVIOUS
  <2>2. QED
    BY <2>1, FS_EmptySet
<1>2. ASSUME NEW s \in SUBSET D, NEW y \in D \ s, s \in G
      PROVE  s \cup {y} \in G
  <2>1. {e[x] : x \in s \cup {y}} = {e[x] : x \in s} \cup {e[y]}
    OBVIOUS
  <2>2. IsFiniteSet({e[x] : x \in s} \cup {e[y]})
    BY <1>2, FS_AddElement
  <2>3. QED
    BY <2>1, <2>2
<1> HIDE DEF G
<1>3. D \in G
  BY <1>1, <1>2, PartsInduct
<1>4. QED
  BY <1>3 DEF G

BillIn == [k \in BillsOf("PROCESSING") \cup BillsOf("FINISHED") |->
             bills[k[1]][k[2]].wechat + bills[k[1]][k[2]].alipay]
BillsOfMerchant(m) == {k \in BillsOf("PROCESSING") \cup BillsOf("FINISHED") : k[1] = m}

\* All the bills
LEMMA AllBills ==
  ASSUME SettlementTypeOK
  PROVE  /\ \A k \in BillsOf("PROCESSING") \cup BillsOf("FINISHED") :
              /\ k[1] \in Enterprise /\ k = <<k[1], k[2]>>
              /\ k[2] \in 1..Len(bills[k[1]]) /\ BillIn[k] \in Int
         /\ \A m \in Enterprise : \A i \in 1..Len(bills[m]) :
              <<m, i>> \in BillsOf("PROCESSING") \cup BillsOf("FINISHED")
         /\ BillsOf("PROCESSING") \cap BillsOf("FINISHED") = {}
<1>1. /\ bills \in [Enterprise -> Seq(Bill)]
      /\ \A m \in Enterprise : Len(bills[m]) \in Nat /\ DOMAIN bills[m] = 1..Len(bills[m])
      /\ \A m \in Enterprise : \A i \in 1..Len(bills[m]) : bills[m][i] \in Bill
  BY DEF SettlementTypeOK
<1>2. ASSUME NEW status, NEW k
      PROVE  k \in BillsOf(status) <=>
               \E m \in Enterprise : \E i \in 1..Len(bills[m]) :
                 k = <<m, i>> /\ bills[m][i].status = status
  BY <1>1 DEF BillsOf
<1>3. ASSUME NEW k \in BillsOf("PROCESSING") \cup BillsOf("FINISHED")
      PROVE  /\ k[1] \in Enterprise /\ k = <<k[1], k[2]>>
             /\ k[2] \in 1..Len(bills[k[1]]) /\ BillIn[k] \in Int
             /\ k \in BillsOf(bills[k[1]][k[2]].status)
             /\ \A status : k \in BillsOf(status) => status = bills[k[1]][k[2]].status
  <2>1. PICK m, i : m \in Enterprise /\ i \in 1..Len(bills[m]) /\ k = <<m, i>>
    BY <1>2
  <2>2. k[1] = m /\ k[2] = i /\ k = <<k[1], k[2]>>
    BY <2>1
  <2>3. bills[m][i].wechat \in Nat /\ bills[m][i].alipay \in Nat
    BY <1>1, <2>1 DEF Bill
  <2>4. BillIn[k] = bills[m][i].wechat + bills[m][i].alipay
    BY <2>2 DEF BillIn
  <2>5. k \in BillsOf(bills[m][i].status)
    BY <1>2, <2>1
  <2>6. ASSUME NEW status, k \in BillsOf(status)
        PROVE  status = bills[m][i].status
    <3>1. PICK n, j : n \in Enterprise /\ k = <<n, j>> /\ bills[n][j].status = status
      BY <1>2, <2>6
    <3>2. n = m /\ j = i
      BY <2>2, <3>1
    <3>3. QED
      BY <3>1, <3>2
  <2>7. k[1] \in Enterprise /\ k[2] \in 1..Len(bills[k[1]]) /\ BillIn[k] \in Int
    BY <2>1, <2>2, <2>3, <2>4
  <2>8. QED
    BY <2>2, <2>5, <2>6, <2>7
<1>4. ASSUME NEW m \in Enterprise, NEW i \in 1..Len(bills[m])
      PROVE  <<m, i>> \in BillsOf("PROCESSING") \cup BillsOf("FINISHED")
  <2>1. bills[m][i].status \in {"PROCESSING", "FINISHED"}
    BY <1>1 DEF Bill
  <2>2. QED
    BY <1>2, <2>1
<1>5. BillsOf("PROCESSING") \cap BillsOf("FINISHED") = {}
  <2>1. SUFFICES ASSUME NEW k, k \in BillsOf("PROCESSING"), k \in BillsOf("FINISHED")
                 PROVE  FALSE
    OBVIOUS
  <2>2. "PROCESSING" = bills[k[1]][k[2]].status /\ "FINISHED" = bills[k[1]][k[2]].status
    BY <1>3, <2>1
  <2>3. QED
    BY <2>2
<1>6. QED
  BY <1>3, <1>4, <1>5

\* The bills of a merchant are what was settled of its account.
LEMMA MerchantBills ==
  ASSUME SettlementTypeOK, NEW m \in Enterprise
  PROVE  /\ IsFiniteSet(BillsOfMerchant(m))
         /\ SumFunctionOnSet(BillIn, BillsOfMerchant(m)) =
              Settled(m, "WECHAT") + Settled(m, "ALIPAY")
<1> DEFINE n == Len(bills[m])
           D == 1..n
           f == [i \in D |-> bills[m][i].wechat]
           g == [i \in D |-> bills[m][i].alipay]
           h == [i \in D |-> f[i] + g[i]]
           B == BillsOfMerchant(m)
           e == [i \in D |-> <<m, i>>]
<1>1. n \in Nat /\ IsFiniteSet(D) /\ \A i \in D : bills[m][i] \in Bill
  BY FS_Interval DEF SettlementTypeOK
<1>2. \A i \in D : f[i] \in Int /\ g[i] \in Int /\ h[i] = f[i] + g[i] /\ h[i] \in Int
  BY <1>1 DEF Bill
<1>3. Settled(m, "WECHAT") = SumTo(f, n) /\ Settled(m, "ALIPAY") = SumTo(g, n)
  BY DEF Settled
<1>4. ASSUME NEW i \in D
      PROVE  e[i] = <<m, i>> /\ e[i] \in B /\ h[i] = BillIn[e[i]]
  <2>1. <<m, i>> \in BillsOf("PROCESSING") \cup BillsOf("FINISHED")
    BY AllBills
  <2> DEFINE k == <<m, i>>
  <2>2. k[1] = m /\ k[2] = i
    OBVIOUS
  <2>3. k \in B /\ e[i] = k
    BY <2>1, <2>2 DEF BillsOfMerchant
  <2>4. BillIn[k] = h[i]
    BY <2>1, <2>2 DEF BillIn
  <2>5. QED
    BY <2>3, <2>4
<1>5. ASSUME NEW k \in B
      PROVE  \E i \in D : e[i] = k
  <2>1. k \in BillsOf("PROCESSING") \cup BillsOf("FINISHED") /\ k[1] = m
    BY DEF BillsOfMerchant
  <2>2. k = <<m, k[2]>> /\ k[2] \in D
    BY <2>1, AllBills
  <2>3. QED
    BY <1>4, <2>2
<1>6. \A i, j \in D : e[i] = e[j] => i = j
  <2>1. SUFFICES ASSUME NEW i \in D, NEW j \in D, e[i] = e[j]
                 PROVE  i = j
    OBVIOUS
  <2>2. <<m, i>> = <<m, j>>
    BY <1>4, <2>1
  <2>3. QED
    BY <2>2
<1> HIDE DEF D, f, g, h, B, e
<1>7. IsFiniteSet(B)
  <2>1. B = {e[i] : i \in D}
    BY <1>4, <1>5
  <2>2. IsFiniteSet({e[i] : i \in D})
    BY <1>1, ImageFinite
  <2>3. QED
    BY <2>1, <2>2
<1>8. SumFunctionOnSet(h, D) = SumFunctionOnSet(BillIn, B)
  <2>1. \A i \in D : e[i] \in B /\ h[i] = BillIn[e[i]] /\ h[i] \in Int
    BY <1>2, <1>4
  <2>2. \A i \in D, j \in D : e[i] = e[j] => i = j
    BY <1>6
  <2>3. \A k \in B : \E i \in D : e[i] = k
    BY <1>5
  <2>4. QED
    BY ONLY <1>1, <1>7, <2>1, <2>2, <2>3, SumImage
<1>9. SumFunctionOnSet(h, D) = SumFunctionOnSet(f, D) + SumFunctionOnSet(g, D)
  BY ONLY <1>1, <1>2, SumAdds
<1>10. SumTo(f, n) = SumFunctionOnSet(f, D) /\ SumTo(g, n) = SumFunctionOnSet(g, D)
  <2>1. (\A i \in 1..n : f[i] \in Int) /\ (\A i \in 1..n : g[i] \in Int)
    BY <1>2 DEF D
  <2>2. QED
    BY <1>1, <2>1, SumToIs DEF D
<1>11. QED
  BY <1>3, <1>7, <1>8, <1>9, <1>10 DEF B

LEMMA BillMoneyIs ==
  ASSUME NEW S \in SUBSET (BillsOf("PROCESSING") \cup BillsOf("FINISHED")), IsFiniteSet(S)
  PROVE  BillMoney(S) = SumFunctionOnSet(BillIn, S)
<1> DEFINE f == [k \in S |-> bills[k[1]][k[2]].wechat + bills[k[1]][k[2]].alipay]
<1>1. BillMoney(S) = SumFunction(f) /\ DOMAIN f = S /\ \A k \in S : f[k] = BillIn[k]
  BY DEF BillMoney, BillIn
<1> HIDE DEF f
<1>2. SumFunction(f) = SumFunctionOnSet(f, S)
  BY <1>1, SumOfFunction
<1>3. SumFunctionOnSet(f, S) = SumFunctionOnSet(BillIn, S)
  BY <1>1, SumSame
<1>4. QED
  BY <1>1, <1>2, <1>3

\* All that was settled is in the bills, settled or in process.
LEMMA SettledIsBilled ==
  ASSUME SettlementTypeOK, NEW h, \A a \in Person : h[a] = Settled(a, "WECHAT") + Settled(a, "ALIPAY")
  PROVE  /\ SumFunctionOnSet(h, Person) = BillMoney(BillsOf("PROCESSING")) + BillMoney(BillsOf("FINISHED"))
         /\ BillMoney(BillsOf("PROCESSING")) \in Int /\ BillMoney(BillsOf("FINISHED")) \in Int
<1> DEFINE P == BillsOf("PROCESSING")
           F == BillsOf("FINISHED")
           A == P \cup F
           g == [k \in A |-> k[1]]
<1>1. IsFiniteSet(Enterprise) /\ IsFiniteSet(Person) /\ Enterprise \subseteq Person
  <2>1. IsFiniteSet(Merchant) /\ IsFiniteSet(Marketer) /\ Enterprise \subseteq Merchant
    BY ReportAssumption, AccountAssumption
  <2>2. QED
    BY <2>1, FS_Subset, FS_Union DEF Person
<1>2. \A k \in A : BillIn[k] \in Int /\ g[k] \in Enterprise
  BY AllBills
<1>3. ASSUME NEW a \in Person
      PROVE  h[a] \in Int /\ h[a] = IF a \in Enterprise THEN h[a] ELSE 0
  <2>1. h[a] \in Int
    BY SettledInt
  <2>2. a \notin Enterprise => h[a] = 0
    <3>1. a \notin Enterprise => Settled(a, "WECHAT") = 0 /\ Settled(a, "ALIPAY") = 0
      BY DEF Settled
    <3>2. h[a] = Settled(a, "WECHAT") + Settled(a, "ALIPAY")
      OBVIOUS
    <3>3. QED
      BY <3>1, <3>2
  <2>3. QED
    BY <2>1, <2>2
<1>4. ASSUME NEW m \in Enterprise
      PROVE  h[m] = SumFunctionOnSet(BillIn, {k \in A : g[k] = m}) /\ IsFiniteSet({k \in A : g[k] = m})
  <2>1. {k \in A : g[k] = m} = BillsOfMerchant(m)
    BY DEF BillsOfMerchant
  <2>2. h[m] = Settled(m, "WECHAT") + Settled(m, "ALIPAY")
    BY <1>1
  <2> HIDE DEF A, g
  <2>3. QED
    BY <2>1, <2>2, MerchantBills
<1> HIDE DEF A, g
<1>5. IsFiniteSet(A)
  <2>1. A = UNION {{k \in A : g[k] = m} : m \in Enterprise}
    BY <1>2
  <2>2. IsFiniteSet({{k \in A : g[k] = m} : m \in Enterprise})
    <3> DEFINE e == [m \in Enterprise |-> {k \in A : g[k] = m}]
    <3>1. {{k \in A : g[k] = m} : m \in Enterprise} = {e[m] : m \in Enterprise}
      OBVIOUS
    <3> HIDE DEF e
    <3>2. IsFiniteSet({e[m] : m \in Enterprise})
      BY <1>1, ImageFinite
    <3>3. QED
      BY <3>1, <3>2
  <2>3. \A T \in {{k \in A : g[k] = m} : m \in Enterprise} : IsFiniteSet(T)
    BY <1>4
  <2>4. IsFiniteSet(UNION {{k \in A : g[k] = m} : m \in Enterprise})
    BY <2>2, <2>3, FS_UNION
  <2>5. QED
    BY <2>1, <2>4
<1>6. SumFunctionOnSet(h, Enterprise) = SumFunctionOnSet(BillIn, A)
  <2>1. SumsGroups(h, Enterprise, BillIn, A, g)
    BY <1>4 DEF SumsGroups
  <2>2. QED
    BY ONLY <1>1, <1>2, <1>5, <2>1, SumGroups
<1>7. SumFunctionOnSet(h, Person) = SumFunctionOnSet(h, Enterprise)
  BY ONLY <1>1, <1>3, SumPart
<1>8. /\ P \in SUBSET A /\ F \in SUBSET A /\ P \cup F = A /\ P \cap F = {}
  BY AllBills DEF A
<1>9. IsFiniteSet(P) /\ IsFiniteSet(F)
  BY <1>5, <1>8, FS_Subset
<1>10. BillMoney(P) = SumFunctionOnSet(BillIn, P) /\ BillMoney(F) = SumFunctionOnSet(BillIn, F)
  BY <1>8, <1>9, BillMoneyIs DEF A
<1>11. SumFunctionOnSet(BillIn, P \cup F) = SumFunctionOnSet(BillIn, P) + SumFunctionOnSet(BillIn, F)
  <2>1. \A k \in P \cup F : BillIn[k] \in Int
    BY <1>2, <1>8
  <2> HIDE DEF P, F
  <2>2. QED
    BY ONLY <1>8, <1>9, <2>1, SumUnion
<1>12. SumFunctionOnSet(BillIn, P) \in Int /\ SumFunctionOnSet(BillIn, F) \in Int
  <2>1. (\A k \in P : BillIn[k] \in Int) /\ (\A k \in F : BillIn[k] \in Int)
    BY <1>2, <1>8
  <2> HIDE DEF P, F
  <2>2. QED
    BY <1>9, <2>1, SumTakes
<1>13. QED
  BY <1>6, <1>7, <1>8, <1>10, <1>11, <1>12

-----------------------------------------------------------------------------
(* Months of a statement                                                   *)

LEMMA SumNegated ==
  ASSUME NEW D, NEW f, NEW g, IsFiniteSet(D), \A x \in D : f[x] \in Int /\ g[x] = -f[x]
  PROVE  SumFunctionOnSet(g, D) = -SumFunctionOnSet(f, D)
<1> DEFINE z == [x \in D |-> 0]
<1>1. \A x \in D : f[x] \in Int /\ g[x] \in Int /\ z[x] = f[x] + g[x] /\ z[x] = 0
  OBVIOUS
<1> HIDE DEF z
<1>2. SumFunctionOnSet(z, D) = SumFunctionOnSet(f, D) + SumFunctionOnSet(g, D)
  BY ONLY IsFiniteSet(D), <1>1, SumAdds
<1>3. SumFunctionOnSet(z, D) = 0
  BY <1>1, SumZero
<1>4. SumFunctionOnSet(f, D) \in Int
  BY <1>1, SumTakes
<1>5. SumFunctionOnSet(g, D) \in Int
  BY <1>1, SumTakes
<1>6. QED
  BY <1>2, <1>3, <1>4, <1>5

Withdrawal(r) == CHOOSE w \in withdraws : w.serial_number = r.content[2]

\* The withdrawal that a row names
LEMMA WithdrawalIs ==
  ASSUME JournalIsKept, WithdrawsAreKept, NEW r \in journal,
         r.transaction_type \in {"MERCHANT_WITHDRAW", "MARKETER_WITHDRAW"} \/ r.content[1] = "withdraw"
  PROVE  /\ Withdrawal(r) \in withdraws /\ OfWithdraw(r, Withdrawal(r))
         /\ r.amount = -Withdrawal(r).amount /\ Withdrawal(r).amount \in Int /\ r.amount \in Int
         /\ r.content[1] = "withdraw"
<1>1. PICK w \in withdraws : /\ OfWithdraw(r, w) /\ r.content[1] = "withdraw"
                             /\ r.content[2] = w.serial_number
  BY WithdrawRow
<1>2. w.amount \in Nat /\ \A v \in withdraws : v.serial_number = w.serial_number => v = w
  BY DEF WithdrawsAreKept
<1>3. Withdrawal(r) = w
  <2>1. \A v \in withdraws : v.serial_number = r.content[2] <=> v = w
    BY <1>1, <1>2
  <2>2. QED
    BY <2>1 DEF Withdrawal
<1>4. r.amount = -w.amount
  BY <1>1 DEF OfWithdraw
<1>5. QED
  BY <1>1, <1>2, <1>3, <1>4

WithdrawRowsOf(a) == {r \in journal : r.account = a /\ r.content[1] = "withdraw"}

\* The rows of withdrawals are the withdrawals that succeeded.
LEMMA WithdrawRows ==
  ASSUME JournalIsKept, WithdrawsAreKept, NEW a \in Person
  PROVE  AmountOf(WithdrawRowsOf(a)) = -AmountOf(FinishedOf(a))
<1> DEFINE S == WithdrawRowsOf(a)
           F == FinishedOf(a)
           e == [r \in S |-> Withdrawal(r)]
           f == [r \in S |-> -AmountIn[r]]
           g == [w \in withdraws |-> w.amount]
<1>1. S \in SUBSET journal /\ IsFiniteSet(S) /\ AmountOf(S) = SumFunctionOnSet(AmountIn, S)
  BY RowSums DEF WithdrawRowsOf
<1>2. /\ IsFiniteSet(F) /\ F \in SUBSET withdraws /\ AmountOf(F) = SumFunctionOnSet(g, F)
      /\ AmountOf(F) \in Int /\ IsFiniteSet(withdraws)
  <2>1. IsFiniteSet(F) /\ F \in SUBSET withdraws /\ AmountOf(F) \in Int /\ IsFiniteSet(withdraws)
    BY FinishedAmounts DEF WithdrawsAreKept
  <2> HIDE DEF F
  <2>2. AmountOf(F) = SumFunctionOnSet(g, F)
    BY <2>1, AmountIs
  <2>3. QED
    BY <2>1, <2>2
<1>3. ASSUME NEW r \in S
      PROVE  /\ e[r] \in F /\ f[r] = g[e[r]] /\ f[r] \in Int /\ AmountIn[r] = -f[r]
             /\ r.content = <<"withdraw", e[r].serial_number>> /\ OfWithdraw(r, e[r])
  <2>1. r \in journal /\ r.account = a /\ r.content[1] = "withdraw"
    BY DEF WithdrawRowsOf
  <2>2. PICK w : w = Withdrawal(r)
    OBVIOUS
  <2>3. w \in withdraws /\ OfWithdraw(r, w) /\ r.amount = -w.amount /\ w.amount \in Int
    BY <2>1, <2>2, WithdrawalIs
  <2>4. w \in F /\ r.content = <<"withdraw", w.serial_number>>
    BY <2>1, <2>3 DEF OfWithdraw, FinishedOf
  <2>5. e[r] = w /\ AmountIn[r] = -w.amount /\ f[r] = -AmountIn[r] /\ g[w] = w.amount
    BY <2>1, <2>2, <2>3 DEF AmountIn
  <2> HIDE DEF e, f, g, F
  <2>6. QED
    BY <2>3, <2>4, <2>5
<1>4. ASSUME NEW r \in S, NEW s \in S, e[r] = e[s]
      PROVE  r = s
  <2>1. r \in journal /\ s \in journal
    BY DEF WithdrawRowsOf
  <2> HIDE DEF e
  <2>2. OfWithdraw(r, e[r]) /\ OfWithdraw(s, e[r])
    BY <1>3, <1>4
  <2>3. SameKey(r, s) /\ ~IsSettlement(r)
    BY <2>2 DEF OfWithdraw, SameKey, IsSettlement
  <2>4. QED
    BY <2>1, <2>3 DEF JournalIsKept, RowsAreOne
<1>5. ASSUME NEW w \in F
      PROVE  \E r \in S : e[r] = w
  <2>1. w \in withdraws /\ w.status = "FINISHED" /\ w.account = a
    BY DEF FinishedOf
  <2>2. PICK r \in journal : OfWithdraw(r, w)
    BY <2>1 DEF JournalIsKept, WithdrawsHaveRows
  <2>3. r.content[1] = "withdraw" /\ r.content[2] = w.serial_number /\ r.account = a
    BY <2>1, <2>2 DEF OfWithdraw
  <2>4. r \in S
    BY <2>2, <2>3 DEF WithdrawRowsOf
  <2>5. \A v \in withdraws : v.serial_number = w.serial_number => v = w
    BY <2>1 DEF WithdrawsAreKept
  <2>6. Withdrawal(r) = w
    BY <2>1, <2>3, <2>5 DEF Withdrawal
  <2>7. QED
    BY <2>4, <2>6
<1> HIDE DEF S, F, e, f, g
<1>6. SumFunctionOnSet(f, S) = SumFunctionOnSet(g, F)
  <2>1. \A r \in S : e[r] \in F /\ f[r] = g[e[r]] /\ f[r] \in Int
    BY <1>3
  <2>2. \A r \in S, s \in S : e[r] = e[s] => r = s
    BY <1>4
  <2>3. \A w \in F : \E r \in S : e[r] = w
    BY <1>5
  <2>4. QED
    BY ONLY <1>1, <1>2, <2>1, <2>2, <2>3, SumImage
<1>7. SumFunctionOnSet(AmountIn, S) = -SumFunctionOnSet(f, S)
  <2>1. \A r \in S : f[r] \in Int /\ AmountIn[r] = -f[r]
    BY <1>3
  <2>2. QED
    BY ONLY <1>1, <2>1, SumNegated
<1>8. QED
  BY <1>1, <1>2, <1>6, <1>7 DEF S, F

\* What a merchant received and gave back is what its sales brought it.
LEMMA TurnoverIs ==
  ASSUME SalesAreKept, JournalIsKept, NEW m \in Merchant
  PROVE  /\ AmountOf(RowsOf(m, {"MERCHANT_RECEIVE", "MERCHANT_REFUND"})) =
              SumFunctionOnSet(PartIn, SoldOf(m))
         /\ \A r \in RowsOf(m, {"MERCHANT_RECEIVE", "MERCHANT_REFUND"}) : r.amount \in Int
<1> DEFINE got == "MERCHANT_RECEIVE"
           back == "MERCHANT_REFUND"
           A == RowsOf(m, {got})
           B == RowsOf(m, {back})
           S == SoldOf(m)
           R == {p \in Serial : payments[p].merchant = m /\ payments[p].status = "REFUND"}
           f == WorthIn(got)
           g == WorthIn(back)
<1>1. got \in PaymentType /\ back \in PaymentType
  BY DEF PaymentType
<1>2. /\ AmountOf(A) = SumFunctionOnSet(f, OwedTo(m, got))
      /\ \A r \in A : r.amount \in Int
      /\ AmountOf(B) = SumFunctionOnSet(g, OwedTo(m, back))
      /\ \A r \in B : r.amount \in Int
  BY <1>1, RowsOnAccount
<1>3. IsFiniteSet(A) /\ IsFiniteSet(B)
  <2>1. A \in SUBSET journal /\ B \in SUBSET journal
    BY DEF RowsOf
  <2> HIDE DEF A, B
  <2>2. QED
    BY <2>1, RowSums
<1>4. RowsOf(m, {got, back}) = A \cup B /\ A \cap B = {}
  BY DEF RowsOf
<1>5. OwedTo(m, got) = S \cup R /\ OwedTo(m, back) = R /\ S \cap R = {}
  <2>1. ASSUME NEW p \in Serial
        PROVE  /\ Owed(payments[p], got) <=> payments[p].status \in GotMoney
               /\ Owed(payments[p], back) <=> payments[p].status = "REFUND"
               /\ Owner(payments[p], got) = payments[p].merchant
               /\ Owner(payments[p], back) = payments[p].merchant
    BY DEF Owed, Owner
  <2>2. QED
    BY <2>1 DEF OwedTo, SoldOf, GotMoney, NotRefunded
<1>6. \A p \in Serial : f[p] = PartIn[p] /\ g[p] = -PartIn[p] /\ PartIn[p] \in Int
  <2>1. ASSUME NEW p \in Serial
        PROVE  f[p] = PartIn[p] /\ g[p] = -PartIn[p]
    <3>1. Worth(payments[p], got) = MerchantPart(payments[p])
      BY DEF Worth
    <3>2. Worth(payments[p], back) = -MerchantPart(payments[p])
      BY DEF Worth
    <3>3. QED
      BY <3>1, <3>2 DEF WorthIn, PartIn
  <2>2. \A p \in Serial : PartIn[p] \in Int
    BY MerchantMoney
  <2>3. QED
    BY <2>1, <2>2
<1>7. IsFiniteSet(S) /\ IsFiniteSet(R) /\ S \in SUBSET Serial /\ R \in SUBSET Serial
  <2>1. S \in SUBSET Serial /\ R \in SUBSET Serial
    BY DEF SoldOf
  <2> HIDE DEF S, R
  <2>2. QED
    BY <2>1, SalesFinite
<1> HIDE DEF A, B, S, R, f, g
<1>8. AmountOf(A \cup B) = AmountOf(A) + AmountOf(B)
  <2>1. \A r \in A \cup B : r.amount \in Int
    BY <1>2
  <2>2. QED
    BY ONLY <1>3, <1>4, <2>1, AmountUnion
<1>9. SumFunctionOnSet(f, S \cup R) = SumFunctionOnSet(PartIn, S) + SumFunctionOnSet(PartIn, R)
  <2>1. \A p \in S \cup R : f[p] = PartIn[p] /\ PartIn[p] \in Int
    BY <1>6, <1>7
  <2>2. IsFiniteSet(S \cup R)
    BY <1>7, FS_Union
  <2>3. SumFunctionOnSet(f, S \cup R) = SumFunctionOnSet(PartIn, S \cup R)
    BY <2>1, <2>2, SumSame
  <2>4. SumFunctionOnSet(PartIn, S \cup R) = SumFunctionOnSet(PartIn, S) + SumFunctionOnSet(PartIn, R)
    BY ONLY <1>5, <1>7, <2>1, SumUnion
  <2>5. QED
    BY <2>3, <2>4
<1>10. SumFunctionOnSet(g, R) = -SumFunctionOnSet(PartIn, R)
  <2>1. \A p \in R : PartIn[p] \in Int /\ g[p] = -PartIn[p]
    BY <1>6, <1>7
  <2>2. QED
    BY ONLY <1>7, <2>1, SumNegated
<1>11. SumFunctionOnSet(PartIn, R) \in Int /\ SumFunctionOnSet(PartIn, S) \in Int
  BY <1>6, <1>7, SumTakes
<1>12. AmountOf(A \cup B) = SumFunctionOnSet(PartIn, S)
  <2>1. PICK s \in Int, q \in Int : s = SumFunctionOnSet(PartIn, S) /\ q = SumFunctionOnSet(PartIn, R)
    BY <1>11
  <2>2. AmountOf(A) = s + q /\ AmountOf(B) = -q
    BY <1>2, <1>5, <1>9, <1>10, <2>1
  <2>3. (s + q) + (-q) = s
    OBVIOUS
  <2>4. QED
    BY <1>8, <2>1, <2>2, <2>3
<1>13. QED
  BY <1>2, <1>4, <1>12 DEF S

\* The monthly figures of one kind add up to the rows of that kind.
LEMMA MonthsOf ==
  ASSUME SalesAreKept, JournalIsKept, NEW m \in Merchant, NEW T, \A r \in RowsOf(m, T) : r.amount \in Int,
         NEW h, \A k \in 1..Len(MonthLength) :
           h[k] = AmountOf({r \in journal : r.account = m /\ Month(r.day) = k /\ r.transaction_type \in T})
  PROVE  /\ SumFunctionOnSet(h, 1..Len(MonthLength)) = AmountOf(RowsOf(m, T))
         /\ \A k \in 1..Len(MonthLength) : h[k] \in Int
<1> DEFINE S == RowsOf(m, T)
           g == [r \in journal |-> Month(r.day)]
           D == 1..Len(MonthLength)
<1>1. S \in SUBSET journal /\ IsFiniteSet(D)
  BY MonthsFollow, FS_Interval DEF RowsOf
<1>2. ASSUME NEW k \in D
      PROVE  {r \in S : g[r] = k}
             = {r \in journal : r.account = m /\ Month(r.day) = k /\ r.transaction_type \in T}
  BY DEF RowsOf
<1>3. GroupsRows(h, D, S, g)
  BY <1>2 DEF GroupsRows
<1>4. \A r \in S : g[r] \in D
  <2>1. day \in Day /\ MaxDay \in Nat /\ Day = 1..MaxDay
    BY DayAssumption DEF SalesAreKept, PlacedHasDay, Day
  <2>2. SUFFICES ASSUME NEW r \in S
                 PROVE  g[r] \in D
    OBVIOUS
  <2>3. r \in journal /\ r.day \in 1..day
    BY <1>1 DEF JournalIsKept, RowsAreExplained
  <2>4. r.day \in Day
    BY <2>1, <2>3
  <2>5. Month(r.day) \in D
    BY <2>4, MonthIs
  <2>6. QED
    BY <2>3, <2>5
<1> HIDE DEF g
<1>5. \A r \in S : r.amount \in Int
  OBVIOUS
<1> HIDE DEF S, D
<1>6. SumFunctionOnSet(h, D) = AmountOf(S) /\ \A k \in D : h[k] \in Int
  BY ONLY JournalIsKept, <1>1, <1>3, <1>4, <1>5, RowGroups
<1>7. QED
  BY <1>6 DEF S, D

LEMMA MoneyInt ==
  ASSUME SalesAreKept, NEW a \in Person
  PROVE  Money(balance, a) \in Int /\ Money(paidOut, a) \in Int
<1>1. /\ balance \in [Purse -> Int] /\ paidOut \in [Purse -> Int]
      /\ <<a, "WECHAT">> \in Purse /\ <<a, "ALIPAY">> \in Purse
  BY AccountAssumption DEF SalesAreKept, LedgerInvariant, TypeOK, Purse, Account, Person, Channel
<1>2. QED
  BY <1>1 DEF Money

\* The rows of a statement show what their pages show.
LEMMA ListShowsDetail ==
  ASSUME JournalIsKept, WithdrawsAreKept, NEW m, NEW r \in Listed(m)
  PROVE  ListAmount(r) = Detail(r).amount
<1> DEFINE t == r.transaction_type
<1>1. r \in journal /\ t \in {"MERCHANT_RECEIVE", "MERCHANT_SHARE", "MERCHANT_WITHDRAW",
                              "MERCHANT_WECHAT_SETTLEMENT"}
  BY DEF Listed
<1>2. CASE t = "MERCHANT_WECHAT_SETTLEMENT"
  <2>1. IsSettlement(r)
    BY <1>2 DEF IsSettlement
  <2>2. ListAmount(r) = BillOf(r).wechat + BillOf(r).alipay
    BY <2>1 DEF ListAmount
  <2>3. Detail(r) = SettlementDetail(r)
    BY <1>2, <2>1 DEF Detail
  <2>4. QED
    BY <2>2, <2>3 DEF SettlementDetail, Shows
<1>3. CASE t = "MERCHANT_WITHDRAW"
  <2>1. ~IsSettlement(r)
    BY <1>3 DEF IsSettlement
  <2>2. ListAmount(r) = Withdrawal(r).amount
    BY <1>3, <2>1 DEF ListAmount, Withdrawal
  <2>3. Detail(r) = WithdrawDetail(r)
    BY <1>3, <2>1 DEF Detail
  <2>4. Detail(r).amount = -r.amount
    BY <2>3 DEF WithdrawDetail, Shows
  <2>5. r.amount = -Withdrawal(r).amount /\ Withdrawal(r).amount \in Int
    BY <1>1, <1>3, WithdrawalIs
  <2>6. QED
    BY <2>2, <2>4, <2>5
<1>4. CASE t = "MERCHANT_SHARE"
  <2>1. ~IsSettlement(r)
    BY <1>4 DEF IsSettlement
  <2>2. ListAmount(r) = r.amount
    BY <1>4, <2>1 DEF ListAmount
  <2>3. Detail(r) = OriginatorDetail(r, payments[r.content[2]])
    BY <1>4, <2>1 DEF Detail
  <2>4. QED
    BY <2>2, <2>3 DEF OriginatorDetail, Shows
<1>5. CASE t = "MERCHANT_RECEIVE"
  <2>1. ~IsSettlement(r)
    BY <1>5 DEF IsSettlement
  <2>2. ListAmount(r) = r.amount
    BY <1>5, <2>1 DEF ListAmount
  <2>3. Detail(r) = ReceiveDetail(r, payments[r.content[2]])
    BY <1>5, <2>1 DEF Detail
  <2>4. QED
    BY <2>2, <2>3 DEF ReceiveDetail, Shows
<1>6. QED
  BY <1>1, <1>2, <1>3, <1>4, <1>5

\* The figures of all months explain the balance.
LEMMA MonthsExplained ==
  ASSUME SalesAreKept, BooksAreKept, NEW m \in Merchant
  PROVE  SumOver(1..Len(MonthLength), LAMBDA k :
             MonthFigures(m, k).turnover + MonthFigures(m, k).originator_earning
               - MonthFigures(m, k).withdraw)
           - (IF m \in Enterprise
              THEN BillMoney({k \in BillsOf("PROCESSING") \cup BillsOf("FINISHED") : k[1] = m})
              ELSE 0)
           = Money(balance, m)
<1> DEFINE D == 1..Len(MonthLength)
           sold == {"MERCHANT_RECEIVE", "MERCHANT_REFUND"}
           shared == {"MERCHANT_SHARE"}
           left == {"MERCHANT_WITHDRAW"}
           Rows(k, T) == {r \in journal : r.account = m /\ Month(r.day) = k
                                          /\ r.transaction_type \in T}
           s == [k \in D |-> AmountOf(Rows(k, sold))]
           e == [k \in D |-> AmountOf(Rows(k, shared))]
           w == [k \in D |-> AmountOf(Rows(k, left))]
           a == [k \in D |-> s[k] + e[k]]
           f == [k \in D |-> MonthFigures(m, k).turnover + MonthFigures(m, k).originator_earning
                               - MonthFigures(m, k).withdraw]
           billed == IF m \in Enterprise
              THEN BillMoney({k \in BillsOf("PROCESSING") \cup BillsOf("FINISHED") : k[1] = m})
              ELSE 0
<1>1. JournalIsKept /\ WithdrawsAreKept /\ PaidOutIsKept /\ m \in Person /\ SettlementTypeOK
  BY DEF BooksAreKept, Person, SalesAreKept
<1>2. IsFiniteSet(D)
  BY MonthsFollow, FS_Interval
<1>3. \A k \in D : /\ MonthFigures(m, k).turnover = s[k]
                   /\ MonthFigures(m, k).originator_earning = e[k]
                   /\ MonthFigures(m, k).withdraw = -w[k]
  BY DEF MonthFigures
<1>4. /\ SumFunctionOnSet(s, D) = SumFunctionOnSet(PartIn, SoldOf(m))
      /\ \A k \in D : s[k] \in Int
  <2>1. /\ AmountOf(RowsOf(m, sold)) = SumFunctionOnSet(PartIn, SoldOf(m))
        /\ \A r \in RowsOf(m, sold) : r.amount \in Int
    BY <1>1, TurnoverIs
  <2>2. \A k \in D : s[k] = AmountOf(Rows(k, sold))
    OBVIOUS
  <2> HIDE DEF s, sold
  <2>3. SumFunctionOnSet(s, D) = AmountOf(RowsOf(m, sold)) /\ \A k \in D : s[k] \in Int
    BY <1>1, <2>1, <2>2, MonthsOf
  <2>4. QED
    BY <2>1, <2>3
<1>5. /\ SumFunctionOnSet(e, D) =
           SumFunctionOnSet(WorthIn("MERCHANT_SHARE"), OwedTo(m, "MERCHANT_SHARE"))
      /\ \A k \in D : e[k] \in Int
  <2>1. /\ AmountOf(RowsOf(m, shared)) =
             SumFunctionOnSet(WorthIn("MERCHANT_SHARE"), OwedTo(m, "MERCHANT_SHARE"))
        /\ \A r \in RowsOf(m, shared) : r.amount \in Int
    BY <1>1, RowsOnAccount DEF PaymentType
  <2>2. \A k \in D : e[k] = AmountOf(Rows(k, shared))
    OBVIOUS
  <2> HIDE DEF e, shared
  <2>3. SumFunctionOnSet(e, D) = AmountOf(RowsOf(m, shared)) /\ \A k \in D : e[k] \in Int
    BY <1>1, <2>1, <2>2, MonthsOf
  <2>4. QED
    BY <2>1, <2>3
<1>6. /\ SumFunctionOnSet(w, D) = -AmountOf(FinishedOf(m))
      /\ \A k \in D : w[k] \in Int
  <2>1. \A r \in RowsOf(m, left) : r.amount \in Int /\ r.content[1] = "withdraw"
    BY <1>1, WithdrawalIs DEF RowsOf
  <2>2. RowsOf(m, left) = WithdrawRowsOf(m)
    <3>1. ASSUME NEW r \in journal, r.account = m, r.content[1] = "withdraw"
          PROVE  r.transaction_type = "MERCHANT_WITHDRAW"
      <4>1. OfWithdraw(r, Withdrawal(r))
        BY <1>1, <3>1, WithdrawalIs
      <4>2. QED
        BY <3>1, <4>1 DEF OfWithdraw
    <3>2. QED
      BY <2>1, <3>1 DEF RowsOf, WithdrawRowsOf
  <2>3. \A k \in D : w[k] = AmountOf(Rows(k, left))
    OBVIOUS
  <2>4. \A r \in RowsOf(m, left) : r.amount \in Int
    BY <2>1
  <2> HIDE DEF w, left
  <2>5. SumFunctionOnSet(w, D) = AmountOf(RowsOf(m, left)) /\ \A k \in D : w[k] \in Int
    BY <1>1, <2>4, <2>3, MonthsOf
  <2>6. QED
    BY <1>1, <2>2, <2>5, WithdrawRows
<1>7. billed = Settled(m, "WECHAT") + Settled(m, "ALIPAY") /\ billed \in Int
  <2>1. CASE m \in Enterprise
    <3> DEFINE B == BillsOfMerchant(m)
    <3>1. IsFiniteSet(B) /\ SumFunctionOnSet(BillIn, B) = Settled(m, "WECHAT") + Settled(m, "ALIPAY")
      BY <1>1, <2>1, MerchantBills
    <3>2. B \in SUBSET (BillsOf("PROCESSING") \cup BillsOf("FINISHED")) /\ billed = BillMoney(B)
      BY <2>1 DEF BillsOfMerchant
    <3> HIDE DEF B, billed
    <3>3. BillMoney(B) = SumFunctionOnSet(BillIn, B)
      BY <3>1, <3>2, BillMoneyIs
    <3>4. Settled(m, "WECHAT") + Settled(m, "ALIPAY") \in Int
      BY <1>1, SettledInt
    <3>5. QED
      BY <3>1, <3>2, <3>3, <3>4
  <2>2. CASE m \notin Enterprise
    <3>1. billed = 0
      BY <2>2
    <3>2. Settled(m, "WECHAT") = 0 /\ Settled(m, "ALIPAY") = 0
      BY <2>2 DEF Settled
    <3>3. QED
      BY <3>1, <3>2
  <2>3. QED
    BY <2>1, <2>2
<1>8. \A k \in D : a[k] = s[k] + e[k] /\ a[k] \in Int
  BY <1>4, <1>5
<1>9. \A k \in D : f[k] = a[k] + w[k]
  <2>1. SUFFICES ASSUME NEW k \in D
                 PROVE  f[k] = a[k] + w[k]
    OBVIOUS
  <2>2. f[k] = MonthFigures(m, k).turnover + MonthFigures(m, k).originator_earning
                 - MonthFigures(m, k).withdraw
    OBVIOUS
  <2> HIDE DEF f, a, w, s, e
  <2>3. s[k] \in Int /\ e[k] \in Int /\ w[k] \in Int
    BY <1>4, <1>5, <1>6
  <2>4. QED
    BY <1>3, <1>8, <2>2, <2>3
<1>10. SumOver(D, LAMBDA k : MonthFigures(m, k).turnover + MonthFigures(m, k).originator_earning
                              - MonthFigures(m, k).withdraw) = SumFunctionOnSet(f, D)
  <2>1. SumOver(D, LAMBDA k : MonthFigures(m, k).turnover + MonthFigures(m, k).originator_earning
                              - MonthFigures(m, k).withdraw) = SumFunction(f)
    BY DEF SumOver
  <2>2. DOMAIN f = D
    OBVIOUS
  <2> HIDE DEF f
  <2>3. QED
    BY <2>1, <2>2, SumOfFunction
<1> HIDE DEF D, s, e, w, a, f, billed
<1>11. SumFunctionOnSet(a, D) = SumFunctionOnSet(s, D) + SumFunctionOnSet(e, D)
  <2>1. \A k \in D : s[k] \in Int /\ e[k] \in Int /\ a[k] = s[k] + e[k]
    BY <1>4, <1>5, <1>8
  <2>2. QED
    BY ONLY <1>2, <2>1, SumAdds
<1>12. SumFunctionOnSet(f, D) = SumFunctionOnSet(a, D) + SumFunctionOnSet(w, D)
  <2>1. \A k \in D : a[k] \in Int /\ w[k] \in Int /\ f[k] = a[k] + w[k]
    BY <1>6, <1>8, <1>9
  <2>2. QED
    BY ONLY <1>2, <2>1, SumAdds
<1>13. SumFunctionOnSet(f, D) - billed = Money(balance, m)
  <2>1. AmountOf(FinishedOf(m)) \in Int
    BY <1>1, FinishedAmounts
  <2>2. PICK q \in Int, b \in Int : q = AmountOf(FinishedOf(m)) /\ b = billed
    BY <1>7, <2>1
  <2>3. Money(paidOut, m) = q + b
    BY <1>1, <1>7, <2>2 DEF PaidOutIsKept
  <2>4. Money(balance, m) \in Int
    BY <1>1, MoneyInt
  <2>5. SumFunctionOnSet(a, D) = Money(balance, m) + Money(paidOut, m)
    BY <1>4, <1>5, <1>11, MerchantMoney
  <2>6. PICK c \in Int : c = Money(balance, m)
    BY <2>4
  <2>7. SumFunctionOnSet(f, D) = (c + (q + b)) + (-q)
    BY <1>6, <1>12, <2>2, <2>3, <2>5, <2>6
  <2>8. QED
    BY <2>2, <2>6, <2>7
<1>14. QED
  BY <1>10, <1>13 DEF D, billed

\* The figures of one month
LEMMA FiguresInt ==
  ASSUME SalesAreKept, BooksAreKept, NEW m \in Merchant, NEW k
  PROVE  /\ MonthFigures(m, k).turnover \in Int
         /\ MonthFigures(m, k).originator_earning \in Int
         /\ MonthFigures(m, k).withdraw \in Int
<1> DEFINE Rows(T) == {r \in journal : r.account = m /\ Month(r.day) = k
                                       /\ r.transaction_type \in T}
<1>1. JournalIsKept /\ WithdrawsAreKept
  BY DEF BooksAreKept
<1>2. ASSUME NEW T, \A r \in RowsOf(m, T) : r.amount \in Int
      PROVE  AmountOf(Rows(T)) \in Int
  <2>1. Rows(T) \in SUBSET journal /\ \A r \in Rows(T) : r.amount \in Int
    BY <1>2 DEF RowsOf
  <2>2. IsFiniteSet(Rows(T))
    BY <1>1, <2>1, FS_Subset DEF JournalIsKept
  <2> HIDE DEF Rows
  <2>3. QED
    BY <2>1, <2>2, AmountType
<1>3. \A r \in RowsOf(m, {"MERCHANT_RECEIVE", "MERCHANT_REFUND"}) : r.amount \in Int
  BY <1>1, TurnoverIs
<1>4. \A r \in RowsOf(m, {"MERCHANT_SHARE"}) : r.amount \in Int
  BY <1>1, RowsOnAccount DEF PaymentType
<1>5. \A r \in RowsOf(m, {"MERCHANT_WITHDRAW"}) : r.amount \in Int
  BY <1>1, WithdrawalIs DEF RowsOf
<1>6. /\ MonthFigures(m, k).turnover = AmountOf(Rows({"MERCHANT_RECEIVE", "MERCHANT_REFUND"}))
      /\ MonthFigures(m, k).originator_earning = AmountOf(Rows({"MERCHANT_SHARE"}))
      /\ MonthFigures(m, k).withdraw = -AmountOf(Rows({"MERCHANT_WITHDRAW"}))
  BY DEF MonthFigures
<1> HIDE DEF Rows
<1>7. /\ AmountOf(Rows({"MERCHANT_RECEIVE", "MERCHANT_REFUND"})) \in Int
      /\ AmountOf(Rows({"MERCHANT_SHARE"})) \in Int
      /\ AmountOf(Rows({"MERCHANT_WITHDRAW"})) \in Int
  BY <1>2, <1>3, <1>4, <1>5
<1>8. QED
  BY <1>6, <1>7

\* A month that a statement does not show has no row on it, only refunds.
LEMMA HiddenMonth ==
  ASSUME NEW m \in Merchant, NEW k \in 1..Len(MonthLength), k \notin MonthsShown(Listed(m))
  PROVE  /\ MonthFigures(m, k).turnover = AmountOf({r \in Untold(m) : Month(r.day) = k})
         /\ MonthFigures(m, k).originator_earning = 0
         /\ MonthFigures(m, k).withdraw = 0
<1>1. k \in Int
  BY MonthsFollow
<1>2. \A r \in Listed(m) : Month(r.day) # k
  BY <1>1 DEF MonthsShown
<1>3. {r \in journal : r.account = m /\ Month(r.day) = k
                       /\ r.transaction_type \in {"MERCHANT_RECEIVE", "MERCHANT_REFUND"}}
        = {r \in Untold(m) : Month(r.day) = k}
  BY <1>2 DEF Untold, Listed
<1>4. /\ {r \in journal : r.account = m /\ Month(r.day) = k
                          /\ r.transaction_type \in {"MERCHANT_SHARE"}} = {}
      /\ {r \in journal : r.account = m /\ Month(r.day) = k
                          /\ r.transaction_type \in {"MERCHANT_WITHDRAW"}} = {}
  BY <1>2 DEF Listed
<1>5. AmountOf({}) = 0
  <2>1. AmountOf({}) = SumFunctionOnSet([r \in {} |-> r.amount], {})
    BY FS_EmptySet, AmountIs
  <2>2. QED
    BY <2>1, SumEmpty
<1>6. MonthFigures(m, k).turnover = AmountOf({r \in Untold(m) : Month(r.day) = k})
  BY <1>3 DEF MonthFigures
<1>7. /\ MonthFigures(m, k).originator_earning = AmountOf({})
      /\ MonthFigures(m, k).withdraw = -AmountOf({})
  BY <1>4 DEF MonthFigures
<1>8. QED
  BY <1>5, <1>6, <1>7

\* The months shown and the refunds told nowhere are all months.
LEMMA MonthsShownAndUntold ==
  ASSUME SalesAreKept, BooksAreKept, NEW m \in Merchant
  PROVE  SumOver(MonthsShown(Listed(m)), LAMBDA k :
             MonthFigures(m, k).turnover + MonthFigures(m, k).originator_earning
               - MonthFigures(m, k).withdraw)
           + AmountOf(Untold(m))
         = SumOver(1..Len(MonthLength), LAMBDA k :
             MonthFigures(m, k).turnover + MonthFigures(m, k).originator_earning
               - MonthFigures(m, k).withdraw)
<1> DEFINE D == 1..Len(MonthLength)
           S == MonthsShown(Listed(m))
           T == D \ S
           U == Untold(m)
           month == [r \in journal |-> Month(r.day)]
           f == [k \in D |-> MonthFigures(m, k).turnover + MonthFigures(m, k).originator_earning
                               - MonthFigures(m, k).withdraw]
           h == [k \in S |-> MonthFigures(m, k).turnover + MonthFigures(m, k).originator_earning
                               - MonthFigures(m, k).withdraw]
<1>1. JournalIsKept
  BY DEF BooksAreKept
<1>2. S \in SUBSET D /\ IsFiniteSet(D)
  BY MonthsFollow, FS_Interval DEF MonthsShown
<1>3. IsFiniteSet(S) /\ IsFiniteSet(T) /\ S \cup T = D /\ S \cap T = {}
  <2>1. IsFiniteSet(S)
    BY <1>2, FS_Subset
  <2>2. T \in SUBSET D
    OBVIOUS
  <2>3. IsFiniteSet(T)
    BY <1>2, <2>2, FS_Subset
  <2>4. QED
    BY <1>2, <2>1, <2>3
<1>4. \A k \in D : f[k] = MonthFigures(m, k).turnover + MonthFigures(m, k).originator_earning
                            - MonthFigures(m, k).withdraw
  OBVIOUS
<1>5. \A k \in D : f[k] \in Int
  <2> HIDE DEF f, D
  <2>1. QED
    BY <1>4, FiguresInt
<1>6. \A k \in T : f[k] = AmountOf({r \in U : month[r] = k}) /\ f[k] \in Int
  <2>1. SUFFICES ASSUME NEW k \in T
                 PROVE  f[k] = AmountOf({r \in U : month[r] = k})
    BY <1>5
  <2>2. {r \in U : month[r] = k} = {r \in Untold(m) : Month(r.day) = k}
    BY DEF Untold
  <2>3. MonthFigures(m, k).turnover = AmountOf({r \in Untold(m) : Month(r.day) = k})
        /\ MonthFigures(m, k).originator_earning = 0 /\ MonthFigures(m, k).withdraw = 0
    BY HiddenMonth
  <2>4. k \in D
    OBVIOUS
  <2>5. MonthFigures(m, k).turnover \in Int
    BY FiguresInt
  <2>6. f[k] = MonthFigures(m, k).turnover + 0 - 0
    BY <1>4, <2>3, <2>4
  <2> HIDE DEF f, D, U, month
  <2>7. f[k] = MonthFigures(m, k).turnover
    BY ONLY <2>5, <2>6
  <2>8. QED
    BY <2>2, <2>3, <2>7
<1>7. GroupsRows(f, T, U, month)
  BY <1>6 DEF GroupsRows
<1>8. U \in SUBSET journal /\ \A r \in U : r.amount \in Int /\ month[r] \in T
  <2>1. SUFFICES ASSUME NEW r \in U
                 PROVE  r.amount \in Int /\ month[r] \in T
    BY DEF Untold
  <2>2. r \in journal /\ r \in RowsOf(m, {"MERCHANT_RECEIVE", "MERCHANT_REFUND"})
        /\ Month(r.day) \notin S
    BY DEF Untold, RowsOf
  <2>3. r.amount \in Int
    BY <1>1, <2>2, TurnoverIs DEF BooksAreKept
  <2>4. day \in Day /\ MaxDay \in Nat /\ Day = 1..MaxDay
    BY DayAssumption DEF SalesAreKept, PlacedHasDay, Day
  <2>5. r.day \in 1..day
    BY <1>1, <2>2 DEF JournalIsKept, RowsAreExplained
  <2>6. r.day \in Day
    BY <2>4, <2>5
  <2>7. Month(r.day) \in D
    BY <2>6, MonthIs
  <2>8. QED
    BY <2>2, <2>3, <2>7
<1> HIDE DEF D, S, T, U, month, f
<1>9. SumFunctionOnSet(f, T) = AmountOf(U)
  BY <1>1, <1>3, <1>7, <1>8, RowGroups
<1>10. SumFunctionOnSet(f, D) = SumFunctionOnSet(f, S) + SumFunctionOnSet(f, T)
  <2>1. \A k \in S \cup T : f[k] \in Int
    BY <1>3, <1>5
  <2>2. SumFunctionOnSet(f, S \cup T) = SumFunctionOnSet(f, S) + SumFunctionOnSet(f, T)
    BY ONLY <1>3, <2>1, SumUnion
  <2>3. QED
    BY <1>3, <2>2
<1>11. SumOver(1..Len(MonthLength), LAMBDA k :
           MonthFigures(m, k).turnover + MonthFigures(m, k).originator_earning
             - MonthFigures(m, k).withdraw) = SumFunctionOnSet(f, D)
  <2>1. DOMAIN f = D
    BY DEF f
  <2>2. SumFunction(f) = SumFunctionOnSet(f, D)
    BY <2>1, SumOfFunction
  <2>3. QED
    BY <2>2 DEF SumOver, f, D
<1>12. SumOver(MonthsShown(Listed(m)), LAMBDA k :
           MonthFigures(m, k).turnover + MonthFigures(m, k).originator_earning
             - MonthFigures(m, k).withdraw) = SumFunctionOnSet(f, S)
  <2>1. DOMAIN h = S /\ \A k \in S : h[k] = f[k]
    BY <1>2 DEF f
  <2>2. SumOver(MonthsShown(Listed(m)), LAMBDA k :
           MonthFigures(m, k).turnover + MonthFigures(m, k).originator_earning
             - MonthFigures(m, k).withdraw) = SumFunction(h)
    BY DEF SumOver, S
  <2> HIDE DEF h
  <2>3. SumFunction(h) = SumFunctionOnSet(h, S)
    BY <2>1, SumOfFunction
  <2>4. SumFunctionOnSet(h, S) = SumFunctionOnSet(f, S)
    BY <1>3, <2>1, SumSame
  <2>5. QED
    BY <2>2, <2>3, <2>4
<1>13. QED
  BY <1>9, <1>10, <1>11, <1>12 DEF U

\* A refund that is told nowhere is of a month after all that a statement shows:
\* the row of its sale is on the statement, of that month or of one before.
LEMMA UntoldIsLate ==
  ASSUME SalesAreKept, BooksAreKept, RefundsFollow, NEW m \in Merchant,
         NEW r \in Untold(m), NEW s \in Listed(m)
  PROVE  Month(s.day) < Month(r.day)
<1>1. JournalIsKept
  BY DEF BooksAreKept
<1>2. ASSUME NEW x \in journal
      PROVE  x.day \in Day /\ x.day \in Nat /\ Month(x.day) \in 1..Len(MonthLength)
  <2>1. day \in Day /\ MaxDay \in Nat /\ Day = 1..MaxDay
    BY DayAssumption DEF SalesAreKept, PlacedHasDay, Day
  <2>2. x.day \in 1..day
    BY <1>1 DEF JournalIsKept, RowsAreExplained
  <2>3. x.day \in Day /\ x.day \in Nat
    BY <2>1, <2>2
  <2>4. QED
    BY <2>3, MonthIs
<1>3. /\ r \in journal /\ r.transaction_type = "MERCHANT_REFUND" /\ r.account = m
      /\ Month(r.day) \notin MonthsShown(Listed(m))
  BY DEF Untold
<1>4. PICK x \in journal : /\ x.transaction_type = "MERCHANT_RECEIVE"
                           /\ x.content = r.content /\ x.account = r.account
  BY <1>1, <1>3, RefundHasSale
<1>5. x \in Listed(m) /\ s \in journal /\ x.day <= r.day
  BY <1>3, <1>4 DEF Listed, RefundsFollow
<1>6. Month(x.day) <= Month(r.day)
  <2> DEFINE i == Month(x.day)
             k == Month(r.day)
  <2>1. /\ i \in 1..Len(MonthLength) /\ k \in 1..Len(MonthLength)
        /\ InMonth(x.day, i) /\ InMonth(r.day, k)
    BY <1>2, <1>3, <1>4, MonthIs
  <2>2. r.day < MonthStart[i] <=> k < i
    BY <1>2, <1>3, <2>1, MonthsBefore
  <2> HIDE DEF i, k
  <2>3. MonthStart[i] <= x.day /\ MonthStart[i] \in Nat
    BY <2>1, MonthsFollow DEF InMonth
  <2>4. x.day \in Nat /\ r.day \in Nat /\ x.day <= r.day
    BY <1>2, <1>3, <1>4, <1>5
  <2>5. ~(r.day < MonthStart[i])
    BY <2>3, <2>4
  <2>6. i \in Int /\ k \in Int
    BY <2>1, MonthsFollow
  <2>7. i <= k
    BY <2>2, <2>5, <2>6
  <2>8. QED
    BY <2>7 DEF i, k
<1>7. ASSUME Month(r.day) <= Month(s.day)
      PROVE  FALSE
  BY <1>2, <1>3, <1>5, <1>6, <1>7 DEF MonthsShown
<1>8. Month(r.day) \in Int /\ Month(s.day) \in Int
  BY <1>2, <1>3, <1>5, MonthsFollow
<1>9. QED
  BY <1>7, <1>8

-----------------------------------------------------------------------------
(* Operations of marketers                                                 *)

\* A row of a marketer is of a sale or of a withdrawal.
LEMMA OperationIs ==
  ASSUME SalesAreKept, JournalIsKept, WithdrawsAreKept, NEW k \in Marketer, NEW r \in journal,
         r.account = k
  PROVE  /\ r.amount \in Int
         /\ \/ r.content[1] = "payment" /\ OperationAmount(r) = r.amount
            \/ r.content[1] = "withdraw" /\ OperationAmount(r) = -r.amount
<1>1. CASE \E p \in Serial : OfPayment(r, p)
  <2>1. r.content[1] = "payment"
    BY <1>1 DEF OfPayment
  <2>2. r.transaction_type = "MARKETER_SHARE"
    BY <2>1, BonusIs
  <2>3. OfPayment(r, r.content[2]) /\ r.content[2] \in Serial
    BY <2>1, PaymentRow
  <2>4. r.amount = payments[r.content[2]].inviter_share
    BY <2>2, <2>3 DEF OfPayment, Worth
  <2>5. r.amount \in Int
    BY <2>2, <2>3, WorthType DEF OfPayment
  <2>6. QED
    BY <2>1, <2>4, <2>5 DEF OperationAmount
<1>2. CASE \E w \in withdraws : OfWithdraw(r, w)
  <2>1. r.content[1] = "withdraw"
    BY <1>2 DEF OfWithdraw
  <2>2. r.amount = -Withdrawal(r).amount /\ Withdrawal(r).amount \in Int /\ r.amount \in Int
    BY <2>1, WithdrawalIs
  <2>3. OperationAmount(r) = Withdrawal(r).amount
    BY <2>1 DEF OperationAmount, Withdrawal
  <2>4. QED
    BY <2>1, <2>2, <2>3
<1>3. CASE OfBill(r)
  BY <1>3, AccountAssumption DEF OfBill
<1>4. QED
  BY <1>1, <1>2, <1>3 DEF JournalIsKept, RowsAreExplained

\* Days of rows are in the months up to the present one.
LEMMA MonthsSoFar ==
  ASSUME SalesAreKept, JournalIsKept, NEW r \in journal
  PROVE  /\ r.day < MonthStart[Month(day)] <=> Month(r.day) # Month(day)
         /\ MonthStart[1] <= r.day
<1> DEFINE k == Month(day)
           j == Month(r.day)
           d == r.day
<1>1. day \in Day /\ MaxDay \in Nat /\ Day = 1..MaxDay
  BY DayAssumption DEF SalesAreKept, PlacedHasDay, Day
<1>2. d \in 1..day
  BY DEF JournalIsKept, RowsAreExplained
<1>3. d \in Day /\ d \in Nat /\ 1 <= d /\ d <= day
  BY <1>1, <1>2
<1>4. k \in 1..Len(MonthLength) /\ j \in 1..Len(MonthLength) /\ InMonth(d, j)
  BY <1>1, <1>3, MonthIs
<1>5. (d < MonthStart[k] <=> j < k) /\ (day < MonthStart[j] <=> k < j)
  <2>1. ASSUME NEW x \in Day, NEW y \in 1..Len(MonthLength)
        PROVE  x < MonthStart[y] <=> Month(x) < y
    BY <2>1, MonthsBefore
  <2>2. d < MonthStart[k] <=> Month(d) < k
    BY <1>3, <1>4, <2>1
  <2>3. day < MonthStart[j] <=> Month(day) < j
    BY <1>1, <1>4, <2>1
  <2>4. QED
    BY <2>2, <2>3
<1> HIDE DEF k, j, d
<1>6. MonthStart[j] \in Nat /\ MonthStart[1] = 1
  BY <1>4, MonthsFollow
<1>7. MonthStart[j] <= d
  BY <1>4 DEF InMonth
<1>8. ~(k < j)
  BY <1>1, <1>3, <1>5, <1>6, <1>7
<1>9. j < k <=> j # k
  BY <1>4, <1>8, MonthsFollow
<1>10. QED
  BY <1>3, <1>5, <1>6, <1>9 DEF k, j, d

\* What a marketer may see of its operations explains its balance.
LEMMA OperationsExplained ==
  ASSUME SalesAreKept, BooksAreKept
  PROVE  OperationsExplainBalance
<1>1. SUFFICES ASSUME NEW k \in Marketer
               PROVE  SumOver(UserTransactions(k, {"payment"}, 1, Month(day)), OperationAmount)
                      - SumOver(UserTransactions(k, {"withdraw"}, 1, Month(day)), OperationAmount)
                      + AmountOf({r \in journal : r.account = k /\ Month(r.day) = Month(day)})
                      = Money(balance, k)
  BY DEF OperationsExplainBalance
<1> DEFINE P == UserTransactions(k, {"payment"}, 1, Month(day))
           W == UserTransactions(k, {"withdraw"}, 1, Month(day))
           T == {r \in journal : r.account = k /\ Month(r.day) = Month(day)}
           A == {r \in journal : r.account = k /\ r.content[1] = "payment"}
           B == WithdrawRowsOf(k)
           f == [r \in P |-> OperationAmount(r)]
           g == [r \in W |-> OperationAmount(r)]
<1>2. JournalIsKept /\ WithdrawsAreKept /\ PaidOutIsKept /\ SettlementTypeOK /\ k \in Person
  BY DEF BooksAreKept, SalesAreKept, Person
<1>3. \A r \in journal : r.account = k =>
        /\ r.amount \in Int
        /\ \/ r.content[1] = "payment" /\ OperationAmount(r) = r.amount
           \/ r.content[1] = "withdraw" /\ OperationAmount(r) = -r.amount
  BY <1>2, OperationIs
<1>4. \A r \in journal : /\ r.day < MonthStart[Month(day)] <=> Month(r.day) # Month(day)
                         /\ MonthStart[1] <= r.day
  BY <1>2, MonthsSoFar
<1>5. /\ A \cup B = (P \cup W) \cup T /\ A \cap B = {} /\ P \cap W = {} /\ (P \cup W) \cap T = {}
  <2>1. P = {r \in A : Month(r.day) # Month(day)}
    BY <1>4 DEF UserTransactions
  <2>2. W = {r \in B : Month(r.day) # Month(day)}
    BY <1>4 DEF UserTransactions, WithdrawRowsOf
  <2>3. T = {r \in A \cup B : Month(r.day) = Month(day)}
    BY <1>3 DEF WithdrawRowsOf
  <2>4. A \cap B = {}
    BY DEF WithdrawRowsOf
  <2> HIDE DEF P, W, T, A, B
  <2>5. QED
    BY <2>1, <2>2, <2>3, <2>4
<1>6. /\ P \in SUBSET journal /\ W \in SUBSET journal /\ T \in SUBSET journal
      /\ A \in SUBSET journal /\ B \in SUBSET journal
  BY DEF UserTransactions, WithdrawRowsOf
<1>7. \A r \in P : f[r] = AmountIn[r]
  BY <1>3 DEF UserTransactions, AmountIn
<1>8. \A r \in W : AmountIn[r] \in Int /\ g[r] = -AmountIn[r]
  BY <1>3 DEF UserTransactions, AmountIn
<1>9. \A r \in A \cup B : r.amount \in Int
  BY <1>3 DEF WithdrawRowsOf
<1>10. DOMAIN f = P /\ DOMAIN g = W /\ SumOver(P, OperationAmount) = SumFunction(f)
       /\ SumOver(W, OperationAmount) = SumFunction(g)
  BY DEF SumOver
<1>11. AmountOf(A) = Money(balance, k) + Money(paidOut, k)
  <2>1. AmountOf(A) = TotalBonus(k)
    BY DEF TotalBonus
  <2>2. QED
    BY <1>2, <2>1, BonusIs
<1>12. AmountOf(B) = -AmountOf(FinishedOf(k))
  BY <1>2, WithdrawRows
<1> HIDE DEF P, W, T, A, B, f, g
<1>13. /\ IsFiniteSet(P) /\ AmountOf(P) = SumFunctionOnSet(AmountIn, P)
       /\ IsFiniteSet(W) /\ AmountOf(W) = SumFunctionOnSet(AmountIn, W)
       /\ IsFiniteSet(T) /\ IsFiniteSet(A) /\ IsFiniteSet(B)
  BY <1>2, <1>6, RowSums
<1>14. SumOver(P, OperationAmount) = AmountOf(P)
  <2>1. SumFunctionOnSet(f, P) = SumFunctionOnSet(AmountIn, P)
    BY <1>7, <1>13, SumSame
  <2>2. SumFunction(f) = SumFunctionOnSet(f, P)
    BY <1>10, SumOfFunction
  <2>3. QED
    BY <1>10, <1>13, <2>1, <2>2
<1>15. SumOver(W, OperationAmount) = -AmountOf(W)
  <2>1. SumFunctionOnSet(g, W) = -SumFunctionOnSet(AmountIn, W)
    BY ONLY <1>8, <1>13, SumNegated
  <2>2. SumFunction(g) = SumFunctionOnSet(g, W)
    BY <1>10, SumOfFunction
  <2>3. QED
    BY <1>10, <1>13, <2>1, <2>2
<1>16. AmountOf(A \cup B) = AmountOf(A) + AmountOf(B)
  BY ONLY <1>5, <1>9, <1>13, AmountUnion
<1>17. AmountOf((P \cup W) \cup T) = (AmountOf(P) + AmountOf(W)) + AmountOf(T)
  <2> DEFINE Q == P \cup W
  <2>1. /\ \A r \in Q \cup T : r.amount \in Int
        /\ \A r \in P \cup W : r.amount \in Int
    BY <1>5, <1>9
  <2>2. IsFiniteSet(Q) /\ Q \cap T = {}
    BY <1>5, <1>13, FS_Union
  <2>3. AmountOf(P \cup W) = AmountOf(P) + AmountOf(W)
    BY ONLY <1>5, <1>13, <2>1, AmountUnion
  <2> HIDE DEF Q
  <2>4. AmountOf(Q \cup T) = AmountOf(Q) + AmountOf(T)
    BY ONLY <1>13, <2>1, <2>2, AmountUnion
  <2>5. QED
    BY <2>3, <2>4 DEF Q
<1>18. /\ AmountOf(P) \in Int /\ AmountOf(W) \in Int /\ AmountOf(T) \in Int
  <2>1. (\A r \in P : r.amount \in Int) /\ (\A r \in W : r.amount \in Int) /\ (\A r \in T : r.amount \in Int)
    BY <1>5, <1>9
  <2>2. QED
    BY <1>13, <2>1, AmountType
<1>19. Money(paidOut, k) = AmountOf(FinishedOf(k)) /\ AmountOf(FinishedOf(k)) \in Int
       /\ Money(balance, k) \in Int
  <2>1. k \notin Enterprise
    BY AccountAssumption
  <2>2. Settled(k, "WECHAT") = 0 /\ Settled(k, "ALIPAY") = 0
    BY <2>1 DEF Settled
  <2>3. Money(paidOut, k) = AmountOf(FinishedOf(k)) + (Settled(k, "WECHAT") + Settled(k, "ALIPAY"))
    BY <1>2 DEF PaidOutIsKept
  <2>4. AmountOf(FinishedOf(k)) \in Int /\ Money(balance, k) \in Int
    BY <1>2, FinishedAmounts, MoneyInt
  <2>5. QED
    BY <2>2, <2>3, <2>4
<1>20. QED
  <2>1. PICK p \in Int, w \in Int, t \in Int, q \in Int, c \in Int :
          /\ p = AmountOf(P) /\ w = AmountOf(W) /\ t = AmountOf(T)
          /\ q = AmountOf(FinishedOf(k)) /\ c = Money(balance, k)
    BY <1>18, <1>19
  <2>2. (p + w) + t = (c + q) + (-q)
    BY <1>5, <1>11, <1>12, <1>16, <1>17, <1>19, <2>1
  <2>3. p - (-w) + t = c
    BY <2>2
  <2>4. QED
    BY <1>14, <1>15, <2>1, <2>3 DEF P, W, T

-----------------------------------------------------------------------------
(* Lists and files of the administrators                                   *)

\* All the money that left is in the lists of the administrators.
LEMMA MoneyOutExplained ==
  ASSUME SalesAreKept, BooksAreKept
  PROVE  MoneyOutIsListed
<1> DEFINE f == [a \in Person |-> Money(paidOut, a)]
           u == [a \in Person |-> AmountOf(FinishedOf(a))]
           h == [a \in Person |-> Settled(a, "WECHAT") + Settled(a, "ALIPAY")]
           g == [w \in withdraws |-> w.amount]
           of == [w \in withdraws |-> w.account]
           F == {w \in withdraws : w.status = "FINISHED"}
<1>1. JournalIsKept /\ WithdrawsAreKept /\ PaidOutIsKept /\ SettlementTypeOK
  BY DEF BooksAreKept, SalesAreKept
<1>2. IsFiniteSet(Person)
  BY ReportAssumption, FS_Union DEF Person
<1>3. SumOver(Person, LAMBDA a : Money(paidOut, a)) = SumFunction(f) /\ DOMAIN f = Person
  BY DEF SumOver
<1>4. WithdrawRecord(1, MaxDay).with_draw_total_money = AmountOf(F)
  <2>1. day \in 1..MaxDay /\ MaxDay \in Nat
    BY DayAssumption DEF SalesAreKept, PlacedHasDay, Day
  <2>2. \A w \in withdraws : w.day \in 1..day
    BY <1>1 DEF WithdrawsAreKept
  <2>3. \A w \in withdraws : w.day \in 1..MaxDay
    BY <2>1, <2>2
  <2>4. {w \in {v \in withdraws : v.day \in 1..MaxDay} : w.status = "FINISHED"} = F
    BY <2>3
  <2>5. WithdrawRecord(1, MaxDay).with_draw_total_money =
          AmountOf({w \in {v \in withdraws : v.day \in 1..MaxDay} : w.status = "FINISHED"})
    BY DEF WithdrawRecord
  <2>6. QED
    BY <2>4, <2>5
<1>5. /\ F \in SUBSET withdraws /\ IsFiniteSet(withdraws) /\ IsFiniteSet(F)
      /\ \A w \in F : g[w] \in Int /\ of[w] \in Person
  <2>1. F \in SUBSET withdraws /\ IsFiniteSet(withdraws)
    BY <1>1 DEF WithdrawsAreKept
  <2>2. \A w \in F : g[w] \in Int /\ of[w] \in Person
    BY <1>1 DEF WithdrawsAreKept
  <2> HIDE DEF F, g, of
  <2>3. QED
    BY <2>1, <2>2, FS_Subset
<1>6. \A S \in SUBSET withdraws : AmountOf(S) = SumFunctionOnSet(g, S)
  BY <1>5, AmountIs
<1>7. ASSUME NEW a \in Person
      PROVE  u[a] = SumFunctionOnSet(g, {w \in F : of[w] = a})
  <2>1. FinishedOf(a) = {w \in F : of[w] = a} /\ FinishedOf(a) \in SUBSET withdraws
    BY DEF FinishedOf
  <2>2. u[a] = AmountOf(FinishedOf(a))
    OBVIOUS
  <2> HIDE DEF u, F, of, g
  <2>3. QED
    BY <1>6, <2>1, <2>2
<1>8. \A a \in Person : u[a] \in Int /\ h[a] \in Int /\ f[a] = u[a] + h[a]
  <2>1. SUFFICES ASSUME NEW a \in Person
                 PROVE  u[a] \in Int /\ h[a] \in Int /\ f[a] = u[a] + h[a]
    OBVIOUS
  <2>2. AmountOf(FinishedOf(a)) \in Int /\ Settled(a, "WECHAT") + Settled(a, "ALIPAY") \in Int
    BY <1>1, FinishedAmounts, SettledInt
  <2>3. Money(paidOut, a) = AmountOf(FinishedOf(a)) + (Settled(a, "WECHAT") + Settled(a, "ALIPAY"))
    BY <1>1 DEF PaidOutIsKept
  <2>4. QED
    BY <2>2, <2>3
<1>9. \A a \in Person : h[a] = Settled(a, "WECHAT") + Settled(a, "ALIPAY")
  OBVIOUS
<1> HIDE DEF f, u, h, g, of, F
<1>10. SumFunction(f) = SumFunctionOnSet(f, Person)
  BY <1>3, SumOfFunction
<1>11. SumFunctionOnSet(f, Person) = SumFunctionOnSet(u, Person) + SumFunctionOnSet(h, Person)
  BY ONLY <1>2, <1>8, SumAdds
<1>12. SumFunctionOnSet(u, Person) = SumFunctionOnSet(g, F)
  <2>1. SumsGroups(u, Person, g, F, of)
    BY <1>7 DEF SumsGroups
  <2>2. QED
    BY ONLY <1>2, <1>5, <2>1, SumGroups
<1>13. AmountOf(F) = SumFunctionOnSet(g, F)
  BY <1>5, <1>6
<1>14. /\ SumFunctionOnSet(h, Person) = BillMoney(BillsOf("PROCESSING")) + BillMoney(BillsOf("FINISHED"))
       /\ BillMoney(BillsOf("PROCESSING")) \in Int /\ BillMoney(BillsOf("FINISHED")) \in Int
  BY <1>1, <1>9, SettledIsBilled
<1>15. SumFunctionOnSet(h, Person) \in Int /\ SumFunctionOnSet(u, Person) \in Int
  <2>1. (\A a \in Person : h[a] \in Int) /\ (\A a \in Person : u[a] \in Int)
    BY <1>8
  <2>2. QED
    BY <1>2, <2>1, SumTakes
<1>16. QED
  <2>1. PICK a \in Int, b \in Int, c \in Int :
          /\ a = AmountOf(F) /\ b = BillMoney(BillsOf("PROCESSING"))
          /\ c = BillMoney(BillsOf("FINISHED"))
    BY <1>12, <1>13, <1>14, <1>15
  <2>2. SumOver(Person, LAMBDA x : Money(paidOut, x)) = a + (b + c)
    BY <1>3, <1>10, <1>11, <1>12, <1>13, <1>14, <2>1
  <2>3. a + (b + c) = a + b + c
    OBVIOUS
  <2>4. QED
    BY <1>4, <2>1, <2>2, <2>3 DEF MoneyOutIsListed

\* A file whose rows are the cells c[d] of each d of D
LEMMA FileAddsUp ==
  ASSUME NEW D, IsFiniteSet(D), NEW c, NEW file, file.rows = {<<d, c[d]>> : d \in D},
         \A i \in DOMAIN file.bottom :
           /\ file.bottom[i] = SumFunction([d \in D |-> c[d][i]])
           /\ \A d \in D : c[d][i] \in Int
  PROVE  AddsUp(file)
<1>1. SUFFICES ASSUME NEW i \in DOMAIN file.bottom
               PROVE  file.bottom[i] = SumFunction([row \in file.rows |-> row[2][i]])
  BY DEF AddsUp
<1> DEFINE f == [d \in D |-> c[d][i]]
           R == {<<d, c[d]>> : d \in D}
           g == [row \in R |-> row[2][i]]
           e == [d \in D |-> <<d, c[d]>>]
<1>2. file.bottom[i] = SumFunction(f) /\ DOMAIN f = D
      /\ SumFunction([row \in file.rows |-> row[2][i]]) = SumFunction(g) /\ DOMAIN g = R
  OBVIOUS
<1>3. \A d \in D : e[d] \in R /\ f[d] = g[e[d]] /\ f[d] \in Int
  <2>1. SUFFICES ASSUME NEW d \in D
                 PROVE  e[d] \in R /\ f[d] = g[e[d]] /\ f[d] \in Int
    OBVIOUS
  <2>2. e[d] = <<d, c[d]>> /\ e[d] \in R /\ f[d] = c[d][i] /\ c[d][i] \in Int
    OBVIOUS
  <2>3. e[d][2] = c[d]
    BY <2>2
  <2>4. g[e[d]] = e[d][2][i]
    BY <2>2
  <2> HIDE DEF e, f, g, R
  <2>5. QED
    BY <2>2, <2>3, <2>4
<1>4. \A d \in D, b \in D : e[d] = e[b] => d = b
  <2>1. SUFFICES ASSUME NEW d \in D, NEW b \in D, e[d] = e[b]
                 PROVE  d = b
    OBVIOUS
  <2>2. <<d, c[d]>> = <<b, c[b]>>
    BY <2>1
  <2>3. QED
    BY <2>2
<1>5. \A row \in R : \E d \in D : e[d] = row
  OBVIOUS
<1>6. IsFiniteSet(R)
  <2>1. R = {e[d] : d \in D}
    OBVIOUS
  <2> HIDE DEF e, R
  <2>2. QED
    BY <2>1, ImageFinite
<1> HIDE DEF e, f, g, R
<1>7. SumFunctionOnSet(f, D) = SumFunctionOnSet(g, R)
  BY ONLY IsFiniteSet(D), <1>3, <1>4, <1>5, <1>6, SumImage
<1>8. SumFunction(f) = SumFunctionOnSet(f, D) /\ SumFunction(g) = SumFunctionOnSet(g, R)
  BY <1>2, SumOfFunction
<1>9. QED
  BY <1>2, <1>7, <1>8

\* The figures of a set of sales are numbers.
LEMMA FiguresType ==
  ASSUME SalesAreKept, NEW S \in SUBSET Serial
  PROVE  /\ DayFigures(S).tran_count \in Int /\ DayFigures(S).order_price \in Int
         /\ DayFigures(S).paid_price \in Int /\ DayFigures(S).brokerage \in Int
         /\ DayFigures(S).ordinary \in Int /\ DayFigures(S).preferential \in Int
         /\ PaidOf(S) \in Int
         /\ SalesSum(S, LAMBDA x : x.platform_share) \in Int
         /\ SalesSum(S, LAMBDA x : x.inviter_share) \in Int
         /\ SalesSum(S, LAMBDA x : x.originator_share) \in Int
         /\ SalesSum(S, TotalShare) \in Int
<1>1. ASSUME NEW f, \A p \in Serial : f[p] \in Int, NEW Q \in SUBSET Serial
      PROVE  SumFunctionOnSet(f, Q) \in Int
  <2>1. IsFiniteSet(Q) /\ \A p \in Q : f[p] \in Int
    BY <1>1, SalesFinite
  <2>2. QED
    BY <2>1, SumTakes
<1> DEFINE order == [p \in Serial |-> payments[p].order_price]
           fee == [p \in Serial |-> Brokerage(payments[p])]
           platform == [p \in Serial |-> payments[p].platform_share]
           inviter == [p \in Serial |-> payments[p].inviter_share]
           originator == [p \in Serial |-> payments[p].originator_share]
<1>2. TypeOK
  BY DEF SalesAreKept, LedgerInvariant
<1>3. \A p \in Serial : /\ order[p] \in Int /\ platform[p] \in Int /\ inviter[p] \in Int
                        /\ originator[p] \in Int
  BY <1>2, PartsType
<1>4. \A p \in Serial : fee[p] \in Int
  <2>1. SUFFICES ASSUME NEW p \in Serial
                 PROVE  Brokerage(payments[p]) \in Int
    OBVIOUS
  <2>2. PICK a \in Int : a = PaidPrice(payments[p])
    BY <1>2, PartsType
  <2>3. (6 * a + 500) \div 1000 \in Int
    OBVIOUS
  <2>4. QED
    BY <2>2, <2>3 DEF Brokerage
<1>5. \A p \in Serial : PaidIn[p] \in Int /\ SharedIn[p] \in Int /\ OneEach[p] \in Int
  BY SaleTerms
<1>6. /\ SalesSum(S, LAMBDA x : x.order_price) = SumFunctionOnSet(order, S)
      /\ SalesSum(S, LAMBDA x : x.platform_share) = SumFunctionOnSet(platform, S)
      /\ SalesSum(S, LAMBDA x : x.inviter_share) = SumFunctionOnSet(inviter, S)
      /\ SalesSum(S, LAMBDA x : x.originator_share) = SumFunctionOnSet(originator, S)
      /\ \A Q \in SUBSET Serial : SalesSum(Q, Brokerage) = SumFunctionOnSet(fee, Q)
  BY DEF SalesSum
<1> HIDE DEF order, fee, platform, inviter, originator
<1>7. \A Q \in SUBSET Serial : /\ SumFunctionOnSet(PaidIn, Q) \in Int
                               /\ SumFunctionOnSet(SharedIn, Q) \in Int
                               /\ SumFunctionOnSet(OneEach, Q) \in Int
                               /\ SumFunctionOnSet(fee, Q) \in Int
  BY <1>1, <1>4, <1>5
<1>8. /\ SumFunctionOnSet(order, S) \in Int /\ SumFunctionOnSet(platform, S) \in Int
      /\ SumFunctionOnSet(inviter, S) \in Int /\ SumFunctionOnSet(originator, S) \in Int
  BY <1>1, <1>3
<1>9. \A Q \in SUBSET Serial : /\ PaidOf(Q) \in Int /\ SalesSum(Q, TotalShare) \in Int
                               /\ Cardinality(Q) \in Int /\ SalesSum(Q, Brokerage) \in Int
  BY <1>6, <1>7, SumsAre
<1>10. /\ By(S, "WECHAT") \in SUBSET Serial /\ By(S, "ALIPAY") \in SUBSET Serial
       /\ WithCoupon(S) \in SUBSET Serial /\ S \ WithCoupon(S) \in SUBSET Serial
  BY DEF By, WithCoupon
<1>11. /\ DayFigures(S).tran_count = Cardinality(S)
       /\ DayFigures(S).order_price = SalesSum(S, LAMBDA x : x.order_price)
       /\ DayFigures(S).paid_price = PaidOf(S)
       /\ DayFigures(S).brokerage = SalesSum(By(S, "WECHAT"), Brokerage) + SalesSum(By(S, "ALIPAY"), Brokerage)
       /\ DayFigures(S).ordinary = PaidOf(S \ WithCoupon(S))
       /\ DayFigures(S).preferential = PaidOf(WithCoupon(S))
  BY DEF DayFigures
<1>12. DayFigures(S).brokerage \in Int
  <2>1. SalesSum(By(S, "WECHAT"), Brokerage) \in Int /\ SalesSum(By(S, "ALIPAY"), Brokerage) \in Int
    BY <1>9, <1>10
  <2>2. QED
    BY <1>11, <2>1
<1>13. /\ SalesSum(S, LAMBDA x : x.platform_share) \in Int
       /\ SalesSum(S, LAMBDA x : x.inviter_share) \in Int
       /\ SalesSum(S, LAMBDA x : x.originator_share) \in Int
       /\ SalesSum(S, LAMBDA x : x.order_price) \in Int
  BY <1>6, <1>8
<1>14. QED
  BY <1>9, <1>10, <1>11, <1>12, <1>13

\* The days of a set of sales are finitely many.
LEMMA DaysFinite ==
  ASSUME NEW S, S \subseteq Sales(1, MaxDay)
  PROVE  IsFiniteSet({placed[p] : p \in S})
<1>1. IsFiniteSet(1..MaxDay)
  BY FS_Interval
<1>2. {placed[p] : p \in S} \subseteq 1..MaxDay
  BY DEF Sales
<1>3. QED
  BY <1>1, <1>2, FS_Subset

\* A file with the columns `names' of the data of each day of D: c[d] are its cells.
HasColumns(file, D, data, result, names, c) ==
  /\ file.rows = {<<d, c[d]>> : d \in D}
  /\ DOMAIN file.bottom = DOMAIN names
  /\ \A i \in DOMAIN names :
       /\ file.bottom[i] = result[names[i]]
       /\ result[names[i]] = SumFunction([d \in D |-> data[d][names[i]]])
       /\ \A d \in D : c[d][i] = data[d][names[i]] /\ data[d][names[i]] \in Int

LEMMA ColumnsAddUp ==
  ASSUME NEW D, IsFiniteSet(D), NEW data, NEW result, NEW names, NEW c, NEW file,
         HasColumns(file, D, data, result, names, c)
  PROVE  AddsUp(file)
<1> USE DEF HasColumns
<1>1. ASSUME NEW i \in DOMAIN file.bottom
      PROVE  /\ file.bottom[i] = SumFunction([d \in D |-> c[d][i]])
             /\ \A d \in D : c[d][i] \in Int
  <2>1. [d \in D |-> c[d][i]] = [d \in D |-> data[d][names[i]]]
    OBVIOUS
  <2>2. QED
    BY <2>1
<1>2. QED
  BY <1>1, FileAddsUp

LEMMA TransactionFile ==
  ASSUME SalesAreKept
  PROVE  AddsUp(TransactionCsv(1, MaxDay))
<1> DEFINE S == Sales(1, MaxDay)
           D == {placed[p] : p \in S}
           report == TransactionDetails(1, MaxDay)
           Of(d) == DayFigures({p \in S : placed[p] = d})
           names == <<"tran_count", "order_price", "paid_price", "brokerage", "ordinary",
                      "preferential">>
           Cells(x) == <<x.tran_count, x.order_price, x.paid_price, x.brokerage, x.ordinary,
                         x.preferential>>
           c == [d \in D |-> Cells(report.data[d])]
           file == TransactionCsv(1, MaxDay)
<1>1. DOMAIN report.data = D /\ \A d \in D : report.data[d] = Of(d)
  BY DEF TransactionDetails
<1>2. ASSUME NEW field \in {"tran_count", "order_price", "paid_price", "brokerage", "ordinary",
                            "preferential"}
      PROVE  report.result[field] = SumFunction([d \in DOMAIN report.data |-> report.data[d][field]])
  <2>1. field \in DOMAIN DayFigures({})
    BY DEF DayFigures
  <2>2. QED
    BY <2>1 DEF TransactionDetails
<1>3. IsFiniteSet(D)
  BY DaysFinite
<1>4. ASSUME NEW d \in D
      PROVE  /\ Of(d).tran_count \in Int /\ Of(d).order_price \in Int /\ Of(d).paid_price \in Int
             /\ Of(d).brokerage \in Int /\ Of(d).ordinary \in Int /\ Of(d).preferential \in Int
  <2>1. {p \in S : placed[p] = d} \in SUBSET Serial
    BY DEF Sales
  <2>2. QED
    BY <2>1, FiguresType
<1>5. /\ file.rows = {<<d, Cells(report.data[d])>> : d \in DOMAIN report.data}
      /\ file.bottom = Cells(report.result)
  BY DEF TransactionCsv
<1>6. ASSUME NEW x
      PROVE  DOMAIN Cells(x) = DOMAIN names /\ \A i \in DOMAIN names : Cells(x)[i] = x[names[i]]
  OBVIOUS
<1>7. \A i \in DOMAIN names :
        names[i] \in {"tran_count", "order_price", "paid_price", "brokerage", "ordinary",
                      "preferential"}
  OBVIOUS
<1>8. \A d \in D : \A i \in DOMAIN names : Of(d)[names[i]] \in Int
  <2>1. \A d \in D : \A field \in {"tran_count", "order_price", "paid_price", "brokerage",
                                   "ordinary", "preferential"} : Of(d)[field] \in Int
    BY <1>4
  <2> HIDE DEF names, Of, D
  <2>2. QED
    BY <1>7, <2>1
<1>9. file.rows = {<<d, c[d]>> : d \in D}
  <2>1. \A d \in D : c[d] = Cells(report.data[d])
    OBVIOUS
  <2> HIDE DEF c, Cells, report, D, file
  <2>2. QED
    BY <1>1, <1>5, <2>1
<1>10. \A d \in D : c[d] = Cells(report.data[d])
  OBVIOUS
<1> HIDE DEF file, report, D, c, names, Of, Cells
<1>11. DOMAIN file.bottom = DOMAIN names
  BY <1>5, <1>6
<1>12. ASSUME NEW i \in DOMAIN names
       PROVE  /\ file.bottom[i] = report.result[names[i]]
              /\ report.result[names[i]] = SumFunction([d \in D |-> report.data[d][names[i]]])
              /\ \A d \in D : c[d][i] = report.data[d][names[i]] /\ report.data[d][names[i]] \in Int
  <2>1. file.bottom[i] = report.result[names[i]]
    BY <1>5, <1>6
  <2>2. report.result[names[i]] = SumFunction([d \in D |-> report.data[d][names[i]]])
    BY <1>1, <1>2, <1>7
  <2>3. \A d \in D : c[d][i] = report.data[d][names[i]] /\ report.data[d][names[i]] \in Int
    BY <1>1, <1>6, <1>8, <1>10
  <2>4. QED
    BY <2>1, <2>2, <2>3
<1>13. HasColumns(file, D, report.data, report.result, names, c)
  BY <1>9, <1>11, <1>12 DEF HasColumns
<1>14. AddsUp(file)
  BY ONLY <1>3, <1>13, ColumnsAddUp
<1>15. QED
  BY <1>14 DEF file

LEMMA SharingFile ==
  ASSUME SalesAreKept
  PROVE  AddsUp(SharingCsv(1, MaxDay))
<1> DEFINE S == WithCoupon(Sales(1, MaxDay))
           D == {placed[p] : p \in S}
           report == SharingDetails(1, MaxDay)
           OfDay(d) == {p \in S : placed[p] = d}
           names == <<"paid_price", "share_all", "share_originator", "share_inviter",
                      "share_platform">>
           Cells(x) == <<x.paid_price, x.share_all, x.share_originator, x.share_inviter,
                         x.share_platform>>
           c == [d \in D |-> Cells(report.data[d])]
           file == SharingCsv(1, MaxDay)
<1>1. /\ DOMAIN report.data = D
      /\ \A d \in D : /\ report.data[d].paid_price = PaidOf(OfDay(d))
                      /\ report.data[d].share_platform = SalesSum(OfDay(d), LAMBDA x : x.platform_share)
                      /\ report.data[d].share_inviter = SalesSum(OfDay(d), LAMBDA x : x.inviter_share)
                      /\ report.data[d].share_originator = SalesSum(OfDay(d), LAMBDA x : x.originator_share)
                      /\ report.data[d].share_all = SalesSum(OfDay(d), TotalShare)
  BY DEF SharingDetails
<1>2. ASSUME NEW field \in {"paid_price", "share_all", "share_platform", "share_inviter",
                            "share_originator"}
      PROVE  report.result[field] = SumFunction([d \in DOMAIN report.data |-> report.data[d][field]])
  BY DEF SharingDetails
<1>3. IsFiniteSet(D)
  <2>1. S \subseteq Sales(1, MaxDay)
    BY DEF WithCoupon
  <2> HIDE DEF S
  <2>2. QED
    BY <2>1, DaysFinite
<1>4. ASSUME NEW d \in D
      PROVE  /\ report.data[d].paid_price \in Int /\ report.data[d].share_platform \in Int
             /\ report.data[d].share_inviter \in Int /\ report.data[d].share_originator \in Int
             /\ report.data[d].share_all \in Int
  <2>1. OfDay(d) \in SUBSET Serial
    BY DEF Sales, WithCoupon
  <2> HIDE DEF D, OfDay, report
  <2>2. QED
    BY <1>1, <2>1, FiguresType
<1>5. /\ file.rows = {<<d, Cells(report.data[d])>> : d \in DOMAIN report.data}
      /\ file.bottom = Cells(report.result)
  BY DEF SharingCsv
<1>6. ASSUME NEW x
      PROVE  DOMAIN Cells(x) = DOMAIN names /\ \A i \in DOMAIN names : Cells(x)[i] = x[names[i]]
  OBVIOUS
<1>7. \A i \in DOMAIN names :
        names[i] \in {"paid_price", "share_all", "share_platform", "share_inviter",
                      "share_originator"}
  OBVIOUS
<1>8. \A d \in D : c[d] = Cells(report.data[d])
  OBVIOUS
<1> HIDE DEF file, report, D, c, names, OfDay, Cells
<1>9. \A d \in D : \A i \in DOMAIN names : report.data[d][names[i]] \in Int
  <2>1. \A d \in D : \A field \in {"paid_price", "share_all", "share_platform", "share_inviter",
                                   "share_originator"} : report.data[d][field] \in Int
    BY <1>4
  <2>2. QED
    BY <1>7, <2>1
<1>10. file.rows = {<<d, c[d]>> : d \in D}
  BY <1>1, <1>5, <1>8
<1>11. DOMAIN file.bottom = DOMAIN names
  BY <1>5, <1>6
<1>12. ASSUME NEW i \in DOMAIN names
       PROVE  /\ file.bottom[i] = report.result[names[i]]
              /\ report.result[names[i]] = SumFunction([d \in D |-> report.data[d][names[i]]])
              /\ \A d \in D : c[d][i] = report.data[d][names[i]] /\ report.data[d][names[i]] \in Int
  <2>1. file.bottom[i] = report.result[names[i]]
    BY <1>5, <1>6
  <2>2. report.result[names[i]] = SumFunction([d \in D |-> report.data[d][names[i]]])
    BY <1>1, <1>2, <1>7
  <2>3. \A d \in D : c[d][i] = report.data[d][names[i]] /\ report.data[d][names[i]] \in Int
    BY <1>6, <1>8, <1>9
  <2>4. QED
    BY <2>1, <2>2, <2>3
<1>13. HasColumns(file, D, report.data, report.result, names, c)
  BY <1>10, <1>11, <1>12 DEF HasColumns
<1>14. AddsUp(file)
  BY ONLY <1>3, <1>13, ColumnsAddUp
<1>15. QED
  BY <1>14 DEF file

LEMMA BooksExplain ==
  ASSUME SalesAreKept, BooksAreKept, RefundsFollow
  PROVE  StatementsExplainMoney
<1>1. JournalIsKept /\ WithdrawsAreKept
  BY DEF BooksAreKept
<1>2. EarningsAreBalances
  BY <1>1, EarningsExplained
<1>3. MonthsExplainBalance
  <2>1. SUFFICES ASSUME NEW m \in Merchant
                 PROVE  /\ \A r \in Listed(m) : ListAmount(r) = Detail(r).amount
                        /\ (SumOver(MonthsShown(Listed(m)), LAMBDA k :
                               MonthFigures(m, k).turnover + MonthFigures(m, k).originator_earning
                                 - MonthFigures(m, k).withdraw)
                             + AmountOf(Untold(m)))
                             - (IF m \in Enterprise
                                THEN BillMoney({k \in BillsOf("PROCESSING") \cup BillsOf("FINISHED") :
                                                  k[1] = m})
                                ELSE 0)
                             = Money(balance, m)
                        /\ \A r \in Untold(m), s \in Listed(m) : Month(s.day) < Month(r.day)
    BY DEF MonthsExplainBalance
  <2>2. \A r \in Listed(m) : ListAmount(r) = Detail(r).amount
    BY <1>1, ListShowsDetail
  <2>3. \A r \in Untold(m), s \in Listed(m) : Month(s.day) < Month(r.day)
    BY UntoldIsLate
  <2> DEFINE shown == SumOver(MonthsShown(Listed(m)), LAMBDA k :
                        MonthFigures(m, k).turnover + MonthFigures(m, k).originator_earning
                          - MonthFigures(m, k).withdraw)
             all == SumOver(1..Len(MonthLength), LAMBDA k :
                        MonthFigures(m, k).turnover + MonthFigures(m, k).originator_earning
                          - MonthFigures(m, k).withdraw)
             billed == IF m \in Enterprise
               THEN BillMoney({k \in BillsOf("PROCESSING") \cup BillsOf("FINISHED") : k[1] = m})
               ELSE 0
  <2>4. shown + AmountOf(Untold(m)) = all
    BY MonthsShownAndUntold
  <2>5. all - billed = Money(balance, m)
    BY MonthsExplained
  <2> HIDE DEF all
  <2>6. (shown + AmountOf(Untold(m))) - billed = Money(balance, m)
    BY <2>4, <2>5
  <2>7. QED
    BY ONLY <2>2, <2>3, <2>6, Zenon
<1>4. MonthBillIsStatement
  BY <1>1, MonthBillExplained
<1>5. OperationsExplainBalance
  BY OperationsExplained
<1>6. MoneyOutIsListed
  BY MoneyOutExplained
<1>7. DownloadsAddUp
  BY TransactionFile, SharingFile DEF DownloadsAddUp
<1>8. QED
  BY <1>2, <1>3, <1>4, <1>5, <1>6, <1>7 DEF StatementsExplainMoney

\* The inductive invariant of the books: each Transaction row of a merchant or
\* marketer has one cause among the payments, withdrawals and bills, each cause has
\* its row, a refund is booked no earlier than its sale, and the money that left an
\* account is in its withdrawals and bills (what base.py, wechat.py, alipay.py and
\* settlement_query.py write).
THEOREM BooksCorrect == ReportsSpec => [](SalesAreKept /\ BooksAreKept /\ RefundsFollow)
<1>1. ReportsInit => SalesAreKept /\ BooksAreKept /\ RefundsFollow
  <2>1. ReportsInit => RefundsFollow
    BY DEF ReportsInit, RefundsFollow
  <2>2. QED
    BY <2>1, InitSales, InitBooks
<1>2. SalesAreKept /\ BooksAreKept /\ RefundsFollow /\ [ReportsNext]_reports
        => (SalesAreKept /\ BooksAreKept /\ RefundsFollow)'
  BY NextSales, NextBooks, NextRefundsFollow
<1>3. QED
  BY <1>1, <1>2, PTL DEF ReportsSpec

\* What merchants and marketers are shown explains their balances, and the
\* administrators' lists and files the money that left (the statements and
\* earnings of common/model_manager, the lists and downloads of
\* padmin/query_manage, get_inviting_info of the marketers).  For the statement of
\* a merchant this is so up to the refunds of months after its latest row, which
\* serialize tells nowhere, and only when no settlement is in process.
THEOREM StatementsCorrect == ReportsSpec => []StatementsExplainMoney
<1>1. SalesAreKept /\ BooksAreKept /\ RefundsFollow => StatementsExplainMoney
  BY BooksExplain
<1>2. QED
  BY <1>1, BooksCorrect, PTL

=============================================================================
