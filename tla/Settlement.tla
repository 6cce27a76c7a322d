----------------------------- MODULE Settlement -----------------------------
(***************************************************************************)
(* The daily settlement of enterprise merchants                            *)
(* (padmin/query_manage/settlement_query.py, padmin/views/timer_manage.py):*)
(* a timer reads what the sales of yesterday left every enterprise merchant*)
(* and takes it out of the accounts, one merchant after the other; an      *)
(* administrator marks the bills finished when the bank has paid them.     *)
(* Meanwhile the ledger goes on, and a merchant may withdraw the money     *)
(* itself.                                                                 *)
(***************************************************************************)
EXTENDS Payments

CONSTANTS
  MaxDay,    \* bound: days 1..MaxDay pass
  MaxRuns    \* bound: calls of the timer view

ASSUME DayAssumption == MaxDay \in Nat \ {0} /\ MaxRuns \in Nat

VARIABLES
  day,       \* today
  placed,    \* the day each order was placed (Payment.datetime)
  bills,     \* the Settlement rows of each merchant, oldest first
  agenda,    \* the bills that running views have still to settle
  runs       \* number of calls of the view

days == <<day, placed, bills, agenda, runs>>

Day == 1..MaxDay

-----------------------------------------------------------------------------
\* Mutant of BilledPayment: sales that may still be refunded are billed too.
BilledEarly(p, m, ch) ==
  /\ payments[p].status \in {"FROZEN", "FINISHED"}
  /\ payments[p].merchant = m
  /\ payments[p].pay_channel = ch
  /\ placed[p] = day - 1

\* Mutant of BilledPayment: today's sales are billed for yesterday's.
BilledToday(p, m, ch) ==
  /\ payments[p].status = "FINISHED"
  /\ payments[p].merchant = m
  /\ payments[p].pay_channel = ch
  /\ placed[p] = day

\* query_enterprise_merchant_pure_profit_by_day: what a finished sale of
\* yesterday left its merchant.
BilledPayment(p, m, ch) ==
  /\ payments[p].status = "FINISHED"
  /\ payments[p].merchant = m
  /\ payments[p].pay_channel = ch
  /\ placed[p] = day - 1

Billed(m, ch) ==
  SumTo([p \in Serial |-> IF BilledPayment(p, m, ch) THEN MerchantPart(payments[p])
                                                     ELSE 0], NPayments)

\* timer_generate_settlement_bill up to the loop; merchants without sales are
\* left out.  Calls may overlap.
StartSettlement ==
  LET Due(m) == Billed(m, "WECHAT") # 0 \/ Billed(m, "ALIPAY") # 0
  IN  /\ runs < MaxRuns
      /\ runs' = runs + 1
      /\ agenda' = agenda \cup
           {[run |-> runs, merchant |-> m, day |-> day, wechat |-> Billed(m, "WECHAT"),
             alipay |-> Billed(m, "ALIPAY")] : m \in {n \in Enterprise : Due(n)}}
      /\ UNCHANGED <<vars, day, placed, bills>>

\* Mutant of Duplicate: bills are not compared.
NoDuplicate(m) == FALSE

\* The last bill in process is not older than today.  A bill that was marked
\* finished is not looked at.
Duplicate(m) ==
  \E i \in DOMAIN bills[m] : bills[m][i].status = "PROCESSING" /\ bills[m][i].day >= day

Covered(m, ch, n) == balance[<<m, ch>>] >= n /\ withdrawable[<<m, ch>>] >= n

\* One round of the loop: SettlementUseCase.settlement, or the exceptions
\* SettlementDuplicateException and SettlementAbnormalBalanceException.
SettleBill(b) ==
  LET m == b.merchant
  IN  /\ \/ /\ ~Duplicate(m)
            /\ Settle(m, b.wechat, b.alipay)
            /\ bills' = [bills EXCEPT ![m] = Append(@,
                 [day |-> day, sold |-> b.day - 1, status |-> "PROCESSING",
                  wechat |-> b.wechat, alipay |-> b.alipay])]
         \/ /\ \/ Duplicate(m)
               \/ ~Covered(m, "WECHAT", b.wechat)
               \/ ~Covered(m, "ALIPAY", b.alipay)
            /\ UNCHANGED <<vars, bills>>
      /\ agenda' = agenda \ {b}
      /\ UNCHANGED <<day, placed, runs>>

\* un_liquidated_settlement_update
MarkFinished(m, i) ==
  /\ i \in DOMAIN bills[m]
  /\ bills[m][i].status = "PROCESSING"
  /\ bills' = [bills EXCEPT ![m][i].status = "FINISHED"]
  /\ UNCHANGED <<vars, day, placed, agenda, runs>>

DayPasses ==
  /\ day < MaxDay
  /\ day' = day + 1
  /\ UNCHANGED <<vars, placed, bills, agenda, runs>>

\* The day an order is placed is kept with it.
Dated == placed' = [p \in Serial |->
  IF payments[p].status = "NONE" /\ payments'[p].status = "UNPAID" THEN day ELSE placed[p]]

SettlementInit ==
  /\ day = 1
  /\ placed = [p \in Serial |-> 0]
  /\ bills = [m \in Enterprise |-> << >>]
  /\ agenda = {}
  /\ runs = 0

-----------------------------------------------------------------------------
(* Properties *)

\* What finished sales of day d left merchant m
Earned(m, ch, d) ==
  SumTo([p \in Serial |-> IF /\ payments[p].status = "FINISHED"
                             /\ payments[p].merchant = m
                             /\ payments[p].pay_channel = ch
                             /\ placed[p] = d
                          THEN MerchantPart(payments[p]) ELSE 0], NPayments)

\* The view that computed bill b ran past midnight before it settled it.
Late(b) == b.day # b.sold + 1

\* No bill pays more than the finished sales of its day brought the merchant,
\* even when the ledger moved on between the reading and the settling; and no
\* two bills in process pay the sales of one day, although the timer computes
\* all bills before it locks an account and may be called again.  Only a view
\* that runs past midnight may do that: settlement compares the day on which it
\* settles, not the day whose sales it settles.
BillsAreEarned ==
  \A m \in Enterprise : \A i, j \in DOMAIN bills[m] :
    LET b == bills[m][i]
        c == bills[m][j]
    IN  /\ b.wechat <= Earned(m, "WECHAT", b.sold)
        /\ b.alipay <= Earned(m, "ALIPAY", b.sold)
        /\ /\ i # j /\ b.sold = c.sold
           /\ b.status = "PROCESSING" /\ c.status = "PROCESSING"
           => Late(b) \/ Late(c)

\* The date of the latest bill of a merchant is before the date of a new one,
\* "so that a day is not settled twice" (settlement_query.py:56).
OneBillADay ==
  \A m \in Enterprise : \A i, j \in DOMAIN bills[m] :
    bills[m][i].day = bills[m][j].day => i = j

=============================================================================
