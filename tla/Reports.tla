------------------------------- MODULE Reports -------------------------------
(***************************************************************************)
(* What the server reports about the ledger.  The same sales are counted   *)
(* by eight queries, each with conditions of its own: the overview, the    *)
(* transaction and sharing details, the withdrawals and the month bills of *)
(* the administrators (padmin/query_manage/financial_query.py), the        *)
(* business report, the daily earnings and the statement of a merchant     *)
(* (common/model_manager), and the bonus of a marketer.  Some of them read *)
(* payments and others Transaction rows, some go by the day of the order   *)
(* and others by the day of the booking.                                   *)
(*                                                                         *)
(* The ledger and the settlement timer run underneath, day by day.  A      *)
(* report is an operator over the state.                                   *)
(***************************************************************************)
EXTENDS Settlement, Functions

CONSTANTS
  MonthLength,   \* the days of each month, a sequence
  MaxWithdraws   \* bound: attempts to withdraw

VARIABLES
  journal,    \* Transaction rows of merchants and marketers
  withdraws,  \* the Withdraw table
  released    \* the day each payment was unfrozen, 0 before

books == <<journal, withdraws, released>>
reports == <<vars, days, books>>

Person == Merchant \cup Marketer

\* The month of a day, and its first day
MonthStart[k \in 1..Len(MonthLength)] == 1 + SumTo(MonthLength, k - 1)
Month(d) == CHOOSE k \in 1..Len(MonthLength) :
              MonthStart[k] <= d /\ d < MonthStart[k] + MonthLength[k]

ASSUME ReportAssumption ==
  /\ MonthLength \in Seq(Nat \ {0})
  /\ MaxWithdraws \in Nat
  /\ IsFiniteSet(Merchant) /\ IsFiniteSet(Marketer)
  /\ \A d \in Day : \E k \in 1..Len(MonthLength) :
       MonthStart[k] <= d /\ d < MonthStart[k] + MonthLength[k]

-----------------------------------------------------------------------------
(* The ledger writes its Transaction rows: `types' are those of the rows   *)
(* of the step, "" for rows of the platform, which no report reads.        *)

Post(content, types) ==
  journal' = journal \cup
    {[transaction_type |-> types[i], account |-> rows'[i].account,
      amount |-> rows'[i].amount, day |-> day, content |-> content] :
        i \in {j \in DOMAIN types : types[j] # ""}}

OpenOrder(p) ==
  /\ \/ \E ch \in Channel, m \in Merchant, c \in CouponId \cup {NoCoupon},
           price \in OrderPrice : PlaceOrder(p, ch, m, c, price)
     \/ CancelOrder(p)
     \/ RequestRefund(p)
     \/ OnRefundFail(p)
  /\ UNCHANGED <<journal, released>>

Receive(p) ==
  /\ OnPaymentSuccess(p)
  /\ Post(<<"payment", p>>, <<"", "", "MERCHANT_RECEIVE">>)
  /\ UNCHANGED released

ReturnMoney(p) ==
  /\ OnRefundSuccess(p)
  /\ Post(<<"payment", p>>, <<"MERCHANT_REFUND", "", "">>)
  /\ UNCHANGED released

Unfreeze(p) ==
  /\ \/ UnfreezePlain(p) /\ UNCHANGED journal
     \/ UnfreezeShared(p)
        /\ Post(<<"payment", p>>, <<"", "", "", "", "MERCHANT_SHARE", "MARKETER_SHARE">>)
  /\ released' = [released EXCEPT ![p] = day]

SaleStep ==
  /\ \E p \in Serial : OpenOrder(p) \/ Receive(p) \/ ReturnMoney(p) \/ Unfreeze(p)
  /\ Dated
  /\ UNCHANGED <<day, bills, agenda, runs, withdraws>>

\* withdraw of both channels: a FINISHED row, or a FAILED row and no booking.
WithdrawStep(a, ch, n) ==
  LET row(status) == [serial_number |-> Cardinality(withdraws) + 1, account |-> a,
                      amount |-> n, day |-> day, status |-> status]
      type == IF a \in Merchant THEN "MERCHANT_WITHDRAW" ELSE "MARKETER_WITHDRAW"
  IN  /\ Cardinality(withdraws) < MaxWithdraws
      /\ withdrawable[<<a, ch>>] >= n
      /\ \/ /\ Withdraw(a, ch, n)
            /\ Post(<<"withdraw", Cardinality(withdraws) + 1>>, <<type>>)
            /\ withdraws' = withdraws \cup {row("FINISHED")}
         \/ /\ withdraws' = withdraws \cup {row("FAILED")}
            /\ UNCHANGED <<vars, journal>>
      /\ UNCHANGED <<days, released>>

\* One round of the timer's loop, with the rows of the settlement if there is one
SettleStep(b) ==
  LET m == b.merchant
  IN  /\ SettleBill(b)
      /\ IF bills' = bills THEN UNCHANGED journal
         ELSE Post(<<"settlement", m, Len(bills'[m])>>,
                   <<"MERCHANT_WECHAT_SETTLEMENT", "MERCHANT_ALIPAY_SETTLEMENT">>)
      /\ UNCHANGED <<withdraws, released>>

ReportsInit ==
  /\ Init
  /\ SettlementInit
  /\ journal = {}
  /\ withdraws = {}
  /\ released = [p \in Serial |-> 0]

ReportsNext ==
  \/ SaleStep
  \/ \E a \in Person, ch \in Channel, n \in Amount : WithdrawStep(a, ch, n)
  \/ StartSettlement /\ UNCHANGED books
  \/ \E b \in agenda : SettleStep(b)
  \/ \E m \in Enterprise : \E i \in DOMAIN bills[m] : MarkFinished(m, i) /\ UNCHANGED books
  \/ DayPasses /\ UNCHANGED books

ReportsSpec == ReportsInit /\ [][ReportsNext]_reports

-----------------------------------------------------------------------------
(* Reports of the administrators *)

SalesSum(S, f(_)) == SumFunctionOnSet([p \in Serial |-> f(payments[p])], S)
AmountOf(S) == SumFunction([r \in S |-> r.amount])

\* The statuses of a sale that counts
NotRefunded == {"FROZEN", "REFUND_REQUESTED", "REFUND_FAILED", "FINISHED"}

\* Sales by the day of the order
Sales(start, end) ==
  {p \in Serial : payments[p].status \in NotRefunded /\ placed[p] \in start..end}

By(S, ch) == {p \in S : payments[p].pay_channel = ch}
WithCoupon(S) == {p \in S : HasCoupon(payments[p])}

PaidOf(S) == SalesSum(S, PaidPrice)

\* Mutant of DataOverview: the order prices are added up.
DataOverviewGross ==
  LET all == Sales(0, MaxDay)
      Gross(S) == SalesSum(S, LAMBDA x : x.order_price)
  IN  [coupon_used |-> Cardinality({c \in CouponId : coupons[c].status = "USED"}),
       wechat |-> Gross(By(all, "WECHAT")),
       alipay |-> Gross(By(all, "ALIPAY")),
       total |-> Gross(all)]

\* FinancialQuery.data_overview (merchants, clients and marketers are counted
\* elsewhere)
DataOverview ==
  LET all == Sales(0, MaxDay)
  IN  [coupon_used |-> Cardinality({c \in CouponId : coupons[c].status = "USED"}),
       wechat |-> PaidOf(By(all, "WECHAT")),
       alipay |-> PaidOf(By(all, "ALIPAY")),
       total |-> PaidOf(all)]

\* round(price / 100 * BROKERAGE, 2) * 100 of one sale, halves away from zero
Brokerage(x) == (6 * PaidPrice(x) + 500) \div 1000

\* FinancialQuery.transaction_details: the figures of each day with sales, and
\* their totals
DayFigures(S) ==
  [order_price |-> SalesSum(S, LAMBDA x : x.order_price),
   paid_price |-> PaidOf(S),
   paid_price_wechat |-> PaidOf(By(S, "WECHAT")),
   paid_price_alipay |-> PaidOf(By(S, "ALIPAY")),
   ordinary |-> PaidOf(S \ WithCoupon(S)),
   preferential |-> PaidOf(WithCoupon(S)),
   brokerage |-> SalesSum(By(S, "WECHAT"), Brokerage) + SalesSum(By(S, "ALIPAY"), Brokerage),
   tran_count |-> Cardinality(S)]

TransactionDetails(start, end) ==
  LET S == Sales(start, end)
      data == [d \in {placed[p] : p \in S} |-> DayFigures({p \in S : placed[p] = d})]
      All(field) == SumFunction([d \in DOMAIN data |-> data[d][field]])
  IN  [data |-> data, result |-> [field \in DOMAIN DayFigures({}) |-> All(field)]]

\* FinancialQuery.sharing_details
SharingDetails(start, end) ==
  LET S == WithCoupon(Sales(start, end))
      data == [d \in {placed[p] : p \in S} |->
                 LET T == {p \in S : placed[p] = d}
                 IN  [paid_price |-> PaidOf(T),
                      share_platform |-> SalesSum(T, LAMBDA x : x.platform_share),
                      share_inviter |-> SalesSum(T, LAMBDA x : x.inviter_share),
                      share_originator |-> SalesSum(T, LAMBDA x : x.originator_share),
                      share_all |-> SalesSum(T, TotalShare)]]
      All(field) == SumFunction([d \in DOMAIN data |-> data[d][field]])
  IN  [data |-> data,
       result |-> [field \in {"paid_price", "share_all", "share_platform",
                              "share_inviter", "share_originator"} |-> All(field)]]

\* CsvResponseFactory: a row of cells for each day, and a bottom line
TransactionCsv(start, end) ==
  LET report == TransactionDetails(start, end)
      Cells(x) == <<x.tran_count, x.order_price, x.paid_price, x.brokerage, x.ordinary,
                    x.preferential>>
  IN  [rows |-> {<<d, Cells(report.data[d])>> : d \in DOMAIN report.data},
       bottom |-> Cells(report.result)]

SharingCsv(start, end) ==
  LET report == SharingDetails(start, end)
      Cells(x) == <<x.paid_price, x.share_all, x.share_originator, x.share_inviter,
                    x.share_platform>>
  IN  [rows |-> {<<d, Cells(report.data[d])>> : d \in DOMAIN report.data},
       bottom |-> Cells(report.result)]

AddsUp(file) ==
  \A i \in DOMAIN file.bottom :
    file.bottom[i] = SumFunction([row \in file.rows |-> row[2][i]])

\* Mutant of WithdrawRecord: rows of every status are added up.
WithdrawRecordAll(start, end) ==
  [data |-> {w \in withdraws : w.day \in start..end},
   with_draw_total_money |-> AmountOf({w \in withdraws : w.day \in start..end})]

\* FinancialQuery.withdraw_record without a status
WithdrawRecord(start, end) ==
  LET data == {w \in withdraws : w.day \in start..end}
  IN  [data |-> data,
       with_draw_total_money |-> AmountOf({w \in data : w.status = "FINISHED"})]

\* count and the list of SettlementQuery: settled bills and bills in process
BillsOf(status) ==
  UNION {{m} \X {i \in DOMAIN bills[m] : bills[m][i].status = status} : m \in Enterprise}
BillMoney(S) ==
  SumFunction([k \in S |-> bills[k[1]][k[2]].wechat + bills[k[1]][k[2]].alipay])

\* Mutant of MonthBill: refunds are not taken off.
MonthBillGross(m) ==
  LET last == MonthStart[Month(day)] - 1
      mine == {r \in journal : r.account = m
                 /\ r.day \in last - MonthLength[Month(last)] + 1..last}
      Sum(types) == AmountOf({r \in mine : r.transaction_type \in types})
  IN  [turnover |-> Sum({"MERCHANT_RECEIVE"}),
       sharing_earning |-> Sum({"MERCHANT_SHARE"})]

\* FinancialQuery.query_merchant_month_bill: last month, from its last day and
\* its length
MonthBill(m) ==
  LET last == MonthStart[Month(day)] - 1
      mine == {r \in journal : r.account = m
                 /\ r.day \in last - MonthLength[Month(last)] + 1..last}
      Sum(types) == AmountOf({r \in mine : r.transaction_type \in types})
  IN  [turnover |-> Sum({"MERCHANT_RECEIVE", "MERCHANT_REFUND"}),
       sharing_earning |-> Sum({"MERCHANT_SHARE"})]

-----------------------------------------------------------------------------
(* Reports of merchants and marketers *)

\* merchant_business_report for the days start..end
BusinessReport(m, start, end) ==
  LET counted == {p \in Serial : payments[p].merchant = m /\ placed[p] \in start..end
                    /\ payments[p].status \notin {"NONE", "UNPAID", "CANCELLED"}}
      sold == {p \in counted : payments[p].status \in NotRefunded}
  IN  [turnover |-> PaidOf(sold),
       originator_expenditure |-> SalesSum(sold, TotalShare),
       use_coupon |-> Cardinality(WithCoupon(counted)),
       not_use_coupon |-> Cardinality(counted \ WithCoupon(counted)),
       originator_earning |-> AmountOf({r \in journal :
          r.account = m /\ r.day \in start..end /\ r.transaction_type = "MERCHANT_SHARE"})]

\* Mutant of EarningOfDay: the shares of the sales are not taken off.
EarningOfDayGross(m, d) ==
  PaidOf({p \in Serial : payments[p].merchant = m /\ placed[p] = d
            /\ payments[p].status \notin {"NONE", "UNPAID", "CANCELLED", "REFUND"}})
  + AmountOf({r \in journal : r.account = m /\ r.day = d
                /\ r.transaction_type = "MERCHANT_SHARE"})

\* merchant_earning_list_by_day: the entry of one day
EarningOfDay(m, d) ==
  SalesSum({p \in Serial : payments[p].merchant = m /\ placed[p] = d
           /\ payments[p].status \notin {"NONE", "UNPAID", "CANCELLED", "REFUND"}},
        MerchantPart)
  + AmountOf({r \in journal : r.account = m /\ r.day = d
                /\ r.transaction_type = "MERCHANT_SHARE"})

\* list_every_day: days without an entry are filled in.
EarningList(m, start, end) == [i \in 1..(end - start + 1) |-> EarningOfDay(m, start + i - 1)]

\* Mutant of MonthFigures: settlements count as withdrawals.
MonthFiguresSettled(m, k) ==
  LET Sum(types) == AmountOf({r \in journal :
        r.account = m /\ Month(r.day) = k /\ r.transaction_type \in types})
  IN  [turnover |-> Sum({"MERCHANT_RECEIVE", "MERCHANT_REFUND"}),
       withdraw |-> -Sum({"MERCHANT_WITHDRAW", "MERCHANT_WECHAT_SETTLEMENT",
                          "MERCHANT_ALIPAY_SETTLEMENT"}),
       originator_earning |-> Sum({"MERCHANT_SHARE"})]

\* The figures that serialize puts over a month of the statement.  The filter
\* of the query leaves settlements out, although the sum would count them.
MonthFigures(m, k) ==
  LET Sum(types) == AmountOf({r \in journal :
        r.account = m /\ Month(r.day) = k /\ r.transaction_type \in types})
  IN  [turnover |-> Sum({"MERCHANT_RECEIVE", "MERCHANT_REFUND"}),
       withdraw |-> -Sum({"MERCHANT_WITHDRAW"}),
       originator_earning |-> Sum({"MERCHANT_SHARE"})]

\* list_merchant_transaction: the rows a statement lists
Listed(m) ==
  {r \in journal : r.account = m /\ r.transaction_type \in
     {"MERCHANT_RECEIVE", "MERCHANT_SHARE", "MERCHANT_WITHDRAW", "MERCHANT_WECHAT_SETTLEMENT"}}

\* The bill of a settlement row
BillOf(r) == bills[r.account][r.content[3]]
IsSettlement(r) ==
  r.transaction_type \in {"MERCHANT_WECHAT_SETTLEMENT", "MERCHANT_ALIPAY_SETTLEMENT"}

\* The amount that serialize puts beside a row of the statement
ListAmount(r) ==
  IF IsSettlement(r) THEN BillOf(r).wechat + BillOf(r).alipay
  ELSE IF r.transaction_type = "MERCHANT_WITHDRAW"
  THEN (CHOOSE w \in withdraws : w.serial_number = r.content[2]).amount
  ELSE r.amount

\* The months that serialize puts figures over, for the rows of a page: from
\* that of the oldest row to that of the latest.
MonthsShown(page) ==
  {k \in 1..Len(MonthLength) :
     \E r, s \in page : Month(r.day) <= k /\ k <= Month(s.day)}

\* A settlement has no finished_datetime before it is marked finished; a list
\* or a page that shows one ends in an AttributeError.
Served(page) == \A r \in page : IsSettlement(r) => BillOf(r).status = "FINISHED"

\* In hundredths of a percent, cut off
Percent(part, whole) == (10000 * part) \div whole

\* TransactionManager.detail: the amount and the share on the page of a row
Shows(amount, share) == [amount |-> amount, share |-> share]
ReceiveDetail(r, x) ==
  Shows(r.amount, IF HasCoupon(x) THEN Percent(TotalShare(x), PaidPrice(x)) ELSE 0)
OriginatorDetail(r, x) == Shows(r.amount, Percent(x.originator_share, PaidPrice(x)))
WithdrawDetail(r) == Shows(-r.amount, 0)
SettlementDetail(r) == Shows(BillOf(r).wechat + BillOf(r).alipay, 0)

Detail(r) ==
  LET x == payments[r.content[2]]
  IN  CASE IsSettlement(r) -> SettlementDetail(r)
        [] r.transaction_type = "MERCHANT_WITHDRAW" -> WithdrawDetail(r)
        [] r.transaction_type = "MERCHANT_SHARE" -> OriginatorDetail(r, x)
        [] r.transaction_type = "MERCHANT_RECEIVE" -> ReceiveDetail(r, x)

\* get_user_transactions: the operations of a marketer from the first day of
\* one month up to midnight before the first day of another
UserTransactions(k, content, first, last) ==
  {r \in journal : /\ r.account = k
                   /\ r.content[1] \in content
                   /\ MonthStart[first] <= r.day
                   /\ r.day < MonthStart[last]}

\* OperationDetailsSerializer.get_amount
OperationAmount(r) ==
  IF r.content[1] = "payment" THEN payments[r.content[2]].inviter_share
  ELSE (CHOOSE w \in withdraws : w.serial_number = r.content[2]).amount

\* get_inviting_info: total_bonus
TotalBonus(k) ==
  AmountOf({r \in journal : r.account = k /\ r.content[1] = "payment"})

\* UserTransactionModelManager.get_sharing: what the sales of a merchant
\* brought its inviter
GetSharing(m) ==
  AmountOf({r \in journal : /\ r.transaction_type = "MARKETER_SHARE"
                            /\ payments[r.content[2]].merchant = m})

\* PaymentModelManager.get_merchant_sharing: the same, from the sales
GetMerchantSharing(m) ==
  SalesSum({p \in Serial : payments[p].merchant = m /\ payments[p].status = "FINISHED"},
        LAMBDA x : x.inviter_share)

\* CouponRuleManager.obtain_used_num and relative_payment, of the rule of m
UsedNum(m) == Cardinality({c \in CouponId : coupons[c].rule = m /\ coupons[c].status = "USED"})
RelativePayments(m) ==
  {p \in Serial : /\ HasCoupon(payments[p])
                  /\ coupons[payments[p].coupon].rule = m
                  /\ payments[p].status \notin {"NONE", "UNPAID", "CANCELLED"}}

-----------------------------------------------------------------------------
(* Properties *)

SumOver(S, f(_)) == SumFunction([x \in S |-> f(x)])

\* The overview, the details by day, the sharing details, the reports of the
\* merchants and those of their coupon rules count the same sales: their
\* totals agree whatever is refunded, whenever.
ReportsAgree ==
  LET all == TransactionDetails(1, MaxDay).result
      shared == SharingDetails(1, MaxDay).result
      Of(field) == SumOver(Merchant, LAMBDA m : BusinessReport(m, 1, MaxDay)[field])
      returned == {p \in Serial : payments[p].status = "REFUND"}
      unpaid == WithCoupon({p \in Serial : payments[p].status = "UNPAID"})
  IN  /\ DataOverview.total = all.paid_price
      /\ DataOverview.wechat = all.paid_price_wechat
      /\ DataOverview.alipay = all.paid_price_alipay
      /\ all.paid_price = all.ordinary + all.preferential
      /\ shared.paid_price = all.preferential
      /\ shared.share_all = Of("originator_expenditure")
      /\ Of("turnover") = all.paid_price
      /\ Of("use_coupon") + Of("not_use_coupon") = all.tran_count + Cardinality(returned)
      /\ DataOverview.coupon_used = SumOver(Merchant, UsedNum)
      /\ \A m \in Merchant :
           UsedNum(m) = Cardinality(RelativePayments(m) \ returned)
                        + Cardinality({p \in unpaid : payments[p].merchant = m})

Money(f, a) == f[<<a, "WECHAT">>] + f[<<a, "ALIPAY">>]

\* The daily earnings of a merchant, which come from its payments and from the
\* shares it was sent, add up to what its account received: what is there and
\* what was paid out.  The bonus of a marketer does so too, and is what its
\* merchants are said to have brought it, by rows and by sales.
EarningsAreBalances ==
  /\ \A m \in Merchant :
       LET list == EarningList(m, 1, MaxDay)
       IN  SumTo(list, Len(list)) = Money(balance, m) + Money(paidOut, m)
  /\ \A k \in Marketer :
       /\ TotalBonus(k) = Money(balance, k) + Money(paidOut, k)
       /\ TotalBonus(k) = SumOver({m \in Merchant : Inviter[m] = k}, GetSharing)
  /\ \A m \in Merchant : GetSharing(m) = GetMerchantSharing(m)

\* Refunds of months the statement of m does not show
Untold(m) ==
  {r \in journal : /\ r.account = m
                   /\ r.transaction_type = "MERCHANT_REFUND"
                   /\ Month(r.day) \notin MonthsShown(Listed(m))}

\* The months of a statement, asked for as one page, explain the balance of the
\* merchant, but for two things.  Settlements are left out of the monthly
\* figures, and the statement cannot be had at all while one is in process.  And
\* refunds are not listed: those of months after the latest listed row are told
\* nowhere, as when a sale of the last day of a month is given back in the next.
\* The rows below the months show the same as their own pages.
MonthsExplainBalance ==
  \A m \in Merchant :
    /\ \A r \in Listed(m) : Served({r}) => ListAmount(r) = Detail(r).amount
    /\ Served(Listed(m)) =>
         /\ (SumOver(MonthsShown(Listed(m)), LAMBDA k :
                 MonthFigures(m, k).turnover + MonthFigures(m, k).originator_earning
                   - MonthFigures(m, k).withdraw)
               + AmountOf(Untold(m)))
              - (IF m \in Enterprise
                 THEN BillMoney({k \in BillsOf("PROCESSING") \cup BillsOf("FINISHED") : k[1] = m})
                 ELSE 0)
              = Money(balance, m)
         /\ \A r \in Untold(m), s \in Listed(m) : Month(s.day) < Month(r.day)

\* The bill that is pushed to a merchant tells the same of last month as the
\* merchant's own statement, if that shows the month.
MonthBillIsStatement ==
  Month(day) > 1 =>
    \A m \in Merchant :
      LET figures == MonthFigures(m, Month(day) - 1)
      IN  Month(day) - 1 \in MonthsShown(Listed(m)) =>
            /\ MonthBill(m).turnover = figures.turnover
            /\ MonthBill(m).sharing_earning = figures.originator_earning

\* What a marketer may see of its operations, month after month, explains its
\* balance: what its merchants brought it less what it withdrew.  (The month a
\* list ends with is not in it: the present one never is.)
OperationsExplainBalance ==
  \A k \in Marketer :
    LET Shown(content) ==
          SumOver(UserTransactions(k, {content}, 1, Month(day)), OperationAmount)
        ThisMonth == AmountOf({r \in journal : r.account = k /\ Month(r.day) = Month(day)})
    IN  Shown("payment") - Shown("withdraw") + ThisMonth = Money(balance, k)

\* All the money that left the accounts is in the administrators' lists of
\* withdrawals, of settled bills and of bills in process, once.
MoneyOutIsListed ==
  SumOver(Person, LAMBDA a : Money(paidOut, a)) =
    WithdrawRecord(1, MaxDay).with_draw_total_money
      + BillMoney(BillsOf("PROCESSING")) + BillMoney(BillsOf("FINISHED"))

\* The bottom line of every file an administrator downloads is the sum of the
\* columns above it.
DownloadsAddUp ==
  /\ AddsUp(TransactionCsv(1, MaxDay))
  /\ AddsUp(SharingCsv(1, MaxDay))

\* A sale that was released on the day of its order is in every bill of that
\* day: only what is released after midnight may be missing.
SameDayReleasesAreBilled ==
  \A m \in Enterprise : \A i \in DOMAIN bills[m] :
    LET b == bills[m][i]
    IN  SalesSum({p \in Serial : /\ payments[p].merchant = m
                              /\ placed[p] = b.sold
                              /\ released[p] = b.sold}, MerchantPart)
          <= b.wechat + b.alipay

\* What a merchant and a marketer are shown explains what they have and got;
\* what they got is in the lists of the administrators.
StatementsExplainMoney ==
  /\ EarningsAreBalances
  /\ MonthsExplainBalance
  /\ MonthBillIsStatement
  /\ OperationsExplainBalance
  /\ MoneyOutIsListed
  /\ DownloadsAddUp

=============================================================================
