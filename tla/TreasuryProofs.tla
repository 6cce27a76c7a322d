--------------------------- MODULE TreasuryProofs ---------------------------
(***************************************************************************)
(* Payouts and settlements: whatever requests, timers, lost answers and    *)
(* crashes come together, what the providers sent, what the bills settled  *)
(* and what the ledger booked explain each other, and no bill pays for     *)
(* sales that were not made.                                               *)
(***************************************************************************)
EXTENDS Treasury, LedgerProofs

USE AccountAssumption, BoundAssumption, PayoutAssumption

-----------------------------------------------------------------------------
(* The inductive invariant *)

RequestRow == {NoRequest, Done}
  \cup [pc : {"asked"}, account : Account, channel : Channel, amount : Amount]

Holder == {NoPayout}
  \cup [pc : {"call", "paid", "error"}, channel : Channel, amount : Amount]

\* A payout pays out of a purse of its account, and pays something.
MayHold(a, h) == MayPay(a, h.channel) /\ h.amount > 0

PayoutTypeOK ==
  /\ requests \in [Request -> RequestRow]
  /\ payout \in [Account -> Holder]
  /\ sent \in [Purse -> Int]
  /\ failed \in [Purse -> Int]
  /\ lost \in Nat
  /\ crashes \in Nat
  /\ \A r \in Request :
       requests[r].pc = "asked" => /\ MayPay(requests[r].account, requests[r].channel)
                                   /\ requests[r].amount > 0
  /\ \A a \in Account : Locked(a) => MayHold(a, payout[a])

Bill == [day : Nat, sold : Int, status : {"PROCESSING", "FINISHED"},
         wechat : Nat, alipay : Nat]

DueBill == [run : Nat, merchant : Enterprise, day : Nat, wechat : Nat, alipay : Nat]

SettlementTypeOK ==
  /\ day \in Nat
  /\ placed \in [Serial -> Nat]
  /\ bills \in [Enterprise -> Seq(Bill)]
  /\ agenda \subseteq DueBill
  /\ runs \in Nat

\* What was sent or settled out of a purse and is neither booked nor about to be
Excess(a, ch) ==
  sent[<<a, ch>>] + Settled(a, ch) - paidOut[<<a, ch>>] - InFlight(a, ch)

\* What may have been sent and is about to be recorded as failed
InDoubt(a, ch) ==
  IF payout[a].pc = "error" /\ payout[a].channel = ch THEN payout[a].amount ELSE 0

\* The ledger never books what was not sent, not even when the payout that is
\* in flight is counted as booked: this is what makes PayoutsAreAccounted
\* inductive.
MoneyIsTraced ==
  \A a \in Account, ch \in Channel :
    /\ Excess(a, ch) >= 0
    /\ lost = 0 /\ crashes = 0 => Excess(a, ch) = 0
    /\ crashes = 0 => Excess(a, ch) <= failed[<<a, ch>>] + InDoubt(a, ch)

\* A bill that a view has computed is earned already.
DueIsEarned ==
  \A b \in agenda :
    /\ b.day <= day
    /\ b.wechat <= Earned(b.merchant, "WECHAT", b.day - 1)
    /\ b.alipay <= Earned(b.merchant, "ALIPAY", b.day - 1)

BillIsEarned ==
  \A m \in Enterprise : \A i \in DOMAIN bills[m] :
    /\ bills[m][i].day <= day
    /\ bills[m][i].wechat <= Earned(m, "WECHAT", bills[m][i].sold)
    /\ bills[m][i].alipay <= Earned(m, "ALIPAY", bills[m][i].sold)

\* The bills of a merchant that are in process are of different days.
OneInProcess ==
  \A m \in Enterprise : \A i, j \in DOMAIN bills[m] :
    /\ i # j
    /\ bills[m][i].status = "PROCESSING" /\ bills[m][j].status = "PROCESSING"
    => bills[m][i].day # bills[m][j].day

TreasuryInvariant ==
  /\ LedgerInvariant
  /\ PayoutTypeOK
  /\ SettlementTypeOK
  /\ HeldIsCovered
  /\ MoneyIsTraced
  /\ DueIsEarned
  /\ BillIsEarned
  /\ OneInProcess

-----------------------------------------------------------------------------
(* Sums over bills *)

\* The amount of a bill on a channel
On(b, ch) == IF ch = "WECHAT" THEN b.wechat ELSE b.alipay

\* What is settled depends on the amounts of the bills only.
LEMMA SettledSame ==
  ASSUME NEW a \in Account, NEW ch \in Channel,
         a \in Enterprise => /\ Len(bills'[a]) = Len(bills[a])
                             /\ \A i \in 1..Len(bills[a]) :
                                  On(bills'[a][i], ch) = On(bills[a][i], ch)
  PROVE  SettlementTypeOK => Settled(a, ch)' = Settled(a, ch)
<1> SUFFICES ASSUME SettlementTypeOK, a \in Enterprise
             PROVE  Settled(a, ch)' = Settled(a, ch)
  BY DEF Settled
<1> DEFINE n == Len(bills[a])
           f == [i \in 1..n |-> On(bills[a][i], ch)]
           g == [i \in 1..n |-> On(bills'[a][i], ch)]
<1>1. n \in Nat
  BY DEF SettlementTypeOK
<1>2. \A i \in 1..n : g[i] = f[i]
  OBVIOUS
<1>3. Settled(a, ch) = SumTo(f, n) /\ Settled(a, ch)' = SumTo(g, n)
  BY DEF Settled, On
<1> HIDE DEF n, f, g
<1>4. QED
  BY <1>1, <1>2, <1>3, SumToSame

\* Every sum of bills is an integer.
LEMMA SettledType ==
  ASSUME SettlementTypeOK, NEW a \in Account, NEW ch \in Channel
  PROVE  Settled(a, ch) \in Int
<1> SUFFICES ASSUME a \in Enterprise
             PROVE  Settled(a, ch) \in Int
  BY DEF Settled
<1> DEFINE n == Len(bills[a])
           f == [i \in 1..n |-> On(bills[a][i], ch)]
<1>1. n \in Nat /\ \A i \in 1..n : bills[a][i] \in Bill
  BY DEF SettlementTypeOK
<1>2. \A i \in 1..n : f[i] \in Int
  BY <1>1 DEF On, Bill
<1>3. Settled(a, ch) = SumTo(f, n)
  BY DEF Settled, On
<1> HIDE DEF n, f
<1>4. \A k \in 0..n : SumTo(f, k) \in Int
  BY <1>1, <1>2, SumToType
<1>5. QED
  BY <1>1, <1>3, <1>4

\* A new bill adds its amounts to what is settled of its merchant.
LEMMA SettledAppend ==
  ASSUME SettlementTypeOK, NEW m \in Enterprise, NEW b \in Bill,
         bills' = [bills EXCEPT ![m] = Append(@, b)],
         NEW a \in Account, NEW ch \in Channel
  PROVE  Settled(a, ch)' = Settled(a, ch) + (IF a = m THEN On(b, ch) ELSE 0)
<1>1. bills \in [Enterprise -> Seq(Bill)]
  BY DEF SettlementTypeOK
<1>2. CASE a # m
  <2>1. a \in Enterprise => bills'[a] = bills[a]
    BY <1>1, <1>2
  <2>2. Settled(a, ch)' = Settled(a, ch)
    BY <2>1, SettledSame
  <2>3. QED
    BY <1>2, <2>2, SettledType
<1>3. CASE a = m
  <2> DEFINE s == bills[m]
             n == Len(s)
             f == [i \in 1..n |-> On(s[i], ch)]
             g == [i \in 1..(n + 1) |-> On(bills'[m][i], ch)]
  <2>1. s \in Seq(Bill) /\ n \in Nat /\ bills'[m] = Append(s, b)
    BY <1>1
  <2>2. /\ Len(bills'[m]) = n + 1
        /\ \A i \in 1..n : bills'[m][i] = s[i]
        /\ bills'[m][n + 1] = b
    BY <2>1
  <2>3. Settled(a, ch) = SumTo(f, n) /\ Settled(a, ch)' = SumTo(g, n + 1)
    BY <1>3, <2>2 DEF Settled, On
  <2>4. (\A i \in 1..n : g[i] = f[i]) /\ g[n + 1] = On(b, ch)
    BY <2>1, <2>2
  <2> HIDE DEF s, n, f, g
  <2>5. SumTo(g, n + 1) = SumTo(g, n) + g[n + 1]
    BY <2>1, SumToDef
  <2>6. SumTo(g, n) = SumTo(f, n)
    BY <2>1, <2>4, SumToSame
  <2>7. QED
    BY <1>3, <2>3, <2>4, <2>5, <2>6
<1>4. QED
  BY <1>2, <1>3

-----------------------------------------------------------------------------
(* What finished sales earned *)

\* The terms of Earned
EarnedOf(m, ch, d) ==
  [p \in Serial |-> IF /\ payments[p].status = "FINISHED"
                       /\ payments[p].merchant = m
                       /\ payments[p].pay_channel = ch
                       /\ placed[p] = d
                    THEN MerchantPart(payments[p]) ELSE 0]

LEMMA EarnedTerms ==
  ASSUME TypeOK, PartsNotNegative, NEW m, NEW ch, NEW d
  PROVE  /\ Earned(m, ch, d) = SumTo(EarnedOf(m, ch, d), NPayments)
         /\ \A p \in 1..NPayments : /\ EarnedOf(m, ch, d)[p] \in Int
                                    /\ EarnedOf(m, ch, d)[p] >= 0
<1>1. Earned(m, ch, d) = SumTo(EarnedOf(m, ch, d), NPayments)
  BY DEF Earned, EarnedOf
<1>2. ASSUME NEW p \in Serial
      PROVE  EarnedOf(m, ch, d)[p] \in Int /\ EarnedOf(m, ch, d)[p] >= 0
  <2>1. MerchantPart(payments[p]) \in Int
    BY PartsType
  <2>2. payments[p].status = "FINISHED" => MerchantPart(payments[p]) >= 0
    BY DEF PartsNotNegative
  <2>3. QED
    BY <2>1, <2>2 DEF EarnedOf
<1>3. QED
  BY <1>1, <1>2 DEF Serial

LEMMA EarnedTermsNext ==
  ASSUME NEW CONSTANT m, NEW CONSTANT ch, NEW CONSTANT d
  PROVE  (TypeOK /\ PartsNotNegative =>
            /\ Earned(m, ch, d) = SumTo(EarnedOf(m, ch, d), NPayments)
            /\ \A p \in 1..NPayments : /\ EarnedOf(m, ch, d)[p] \in Int
                                       /\ EarnedOf(m, ch, d)[p] >= 0)'
<1>1. TypeOK /\ PartsNotNegative =>
        /\ Earned(m, ch, d) = SumTo(EarnedOf(m, ch, d), NPayments)
        /\ \A p \in 1..NPayments : /\ EarnedOf(m, ch, d)[p] \in Int
                                   /\ EarnedOf(m, ch, d)[p] >= 0
  BY EarnedTerms
<1>2. QED
  BY <1>1, PTL

-----------------------------------------------------------------------------
(* Sales *)

\* A step of one payment keeps the other payments, the terms of the coupons
\* and what was paid out, and does not touch a finished payment.
LEMMA PaymentKeeps ==
  ASSUME TypeOK, CouponTerms, CouponExists, NEW p \in Serial, PaymentStep(p)
  PROVE  /\ CouponsKept /\ OthersKept(p) /\ paidOut' = paidOut
         /\ payments[p].status # "FINISHED"
<1>0. payments \in [Serial -> Payment]
  BY DEF TypeOK
<1>1. ASSUME NEW ch \in Channel, NEW m \in Merchant, NEW c \in CouponId \cup {NoCoupon},
             NEW price \in OrderPrice, PlaceOrder(p, ch, m, c, price)
      PROVE  /\ CouponsKept /\ OthersKept(p) /\ paidOut' = paidOut
             /\ payments[p].status # "FINISHED"
  <2>1. CouponsKept
    BY <1>1, PlaceOrderCoupons
  <2>2. OthersKept(p) /\ paidOut' = paidOut /\ payments[p].status = "NONE"
    BY <1>0, <1>1 DEF PlaceOrder, OthersKept
  <2>3. QED
    BY <2>1, <2>2
<1>2. CASE CancelOrder(p) \/ OnRefundSuccess(p)
  <2>1. ReplaceCoupon(payments[p])
    BY <1>2 DEF CancelOrder, OnRefundSuccess
  <2>2. CouponsKept
    BY <2>1, ReplaceCouponTerms
  <2>3. OthersKept(p) /\ paidOut' = paidOut /\ payments[p].status # "FINISHED"
    BY <1>0, <1>2 DEF CancelOrder, OnRefundSuccess, RefundPending, OthersKept
  <2>4. QED
    BY <2>2, <2>3
<1>3. CASE OnPaymentSuccess(p) \/ RequestRefund(p) \/ OnRefundFail(p)
            \/ OnPaymentUnfreeze(p)
  <2>1. /\ coupons' = coupons
        /\ OthersKept(p) /\ paidOut' = paidOut /\ payments[p].status # "FINISHED"
    BY <1>0, <1>3 DEF OnPaymentSuccess, RequestRefund, OnRefundFail, RefundPending,
                      OnPaymentUnfreeze, UnfreezeShared, UnfreezePlain, OthersKept
  <2>2. QED
    BY <2>1, SameCoupons
<1>4. QED
  BY <1>1, <1>2, <1>3 DEF PaymentStep

\* What the sales of a day earned only grows: no later step takes a finished
\* payment back.
LEMMA EarnedGrows ==
  ASSUME LedgerInvariant, LedgerInvariant', CouponsKept,
         \A q \in Serial : payments[q].status = "FINISHED" =>
           payments'[q] = payments[q] /\ placed'[q] = placed[q],
         NEW CONSTANT m, NEW CONSTANT ch, NEW CONSTANT d
  PROVE  /\ Earned(m, ch, d) \in Int /\ Earned(m, ch, d)' \in Int
         /\ Earned(m, ch, d) <= Earned(m, ch, d)'
<1> DEFINE f == EarnedOf(m, ch, d)
           N == NPayments
<1>1. /\ Earned(m, ch, d) = SumTo(f, N)
      /\ \A p \in 1..N : f[p] \in Int /\ f[p] >= 0
  BY EarnedTerms DEF LedgerInvariant
<1>2. /\ Earned(m, ch, d)' = SumTo(f', N)
      /\ \A p \in 1..N : f'[p] \in Int /\ f'[p] >= 0
  BY EarnedTermsNext DEF LedgerInvariant
<1>3. ASSUME NEW p \in 1..N
      PROVE  f[p] <= f'[p]
  <2>1. CASE payments[p].status = "FINISHED"
    <3>1. payments'[p] = payments[p] /\ placed'[p] = placed[p] /\ p \in Serial
      BY <2>1 DEF Serial
    <3>2. HasCoupon(payments[p]) =>
            coupons'[payments[p].coupon].discount = coupons[payments[p].coupon].discount
      BY <3>1, CouponType DEF CouponExists, CouponsKept, LedgerInvariant
    <3>3. MerchantPart(payments[p])' = MerchantPart(payments[p])
      BY <3>1, <3>2 DEF MerchantPart, PaidPrice, Discount, HasCoupon
    <3>4. f'[p] = f[p]
      BY <3>1, <3>3 DEF EarnedOf
    <3>5. QED
      BY <1>1, <3>4
  <2>2. CASE payments[p].status # "FINISHED"
    <3>1. f[p] = 0
      BY <2>2 DEF EarnedOf, Serial
    <3>2. QED
      BY <1>2, <3>1
  <2>3. QED
    BY <2>1, <2>2
<1> HIDE DEF f
<1>4. N \in Nat
  OBVIOUS
<1>5. SumTo(f, N) \in Int
  BY <1>1, <1>4, SumToNonNegative
<1>6. SumTo(f', N) \in Int
  BY <1>2, <1>4, SumToNonNegative
<1>7. SumTo(f, N) <= SumTo(f', N)
  BY <1>1, <1>2, <1>3, <1>4, SumToMonotone
<1>8. QED
  BY <1>1, <1>2, <1>5, <1>6, <1>7

-----------------------------------------------------------------------------
(* Where the money is *)

\* The terms of Excess and InDoubt are integers.
LEMMA TermTypes ==
  ASSUME TypeOK, PayoutTypeOK, SettlementTypeOK, NEW a \in Account, NEW ch \in Channel
  PROVE  /\ sent[<<a, ch>>] \in Int /\ Settled(a, ch) \in Int
         /\ paidOut[<<a, ch>>] \in Int /\ failed[<<a, ch>>] \in Int
         /\ InFlight(a, ch) \in Nat /\ InDoubt(a, ch) \in Nat
         /\ Excess(a, ch) \in Int
<1>1. <<a, ch>> \in Purse
  BY DEF Purse
<1>2. /\ sent[<<a, ch>>] \in Int /\ paidOut[<<a, ch>>] \in Int
      /\ failed[<<a, ch>>] \in Int
  BY <1>1 DEF TypeOK, PayoutTypeOK
<1>3. payout[a] \in Holder
  BY DEF PayoutTypeOK
<1>4. payout[a].pc \in {"paid", "error"} => payout[a].amount \in Nat
  <2>1. CASE payout[a] = NoPayout
    BY <2>1 DEF NoPayout
  <2>2. CASE payout[a] # NoPayout
    <3>1. payout[a] \in [pc : {"call", "paid", "error"}, channel : Channel, amount : Amount]
      BY <1>3, <2>2 DEF Holder
    <3>2. payout[a].amount \in Amount
      BY <3>1
    <3>3. QED
      BY <3>2
  <2>3. QED
    BY <2>1, <2>2
<1>5. InFlight(a, ch) \in Nat /\ InDoubt(a, ch) \in Nat
  BY <1>4 DEF InFlight, InDoubt
<1>6. Settled(a, ch) \in Int
  BY SettledType
<1>7. QED
  BY <1>2, <1>5, <1>6 DEF Excess

LEMMA TermTypesNext ==
  ASSUME NEW CONSTANT a \in Account, NEW CONSTANT ch \in Channel
  PROVE  (TypeOK /\ PayoutTypeOK /\ SettlementTypeOK =>
            /\ sent[<<a, ch>>] \in Int /\ Settled(a, ch) \in Int
            /\ paidOut[<<a, ch>>] \in Int /\ failed[<<a, ch>>] \in Int
            /\ InFlight(a, ch) \in Nat /\ InDoubt(a, ch) \in Nat
            /\ Excess(a, ch) \in Int)'
<1>1. TypeOK /\ PayoutTypeOK /\ SettlementTypeOK =>
            /\ sent[<<a, ch>>] \in Int /\ Settled(a, ch) \in Int
            /\ paidOut[<<a, ch>>] \in Int /\ failed[<<a, ch>>] \in Int
            /\ InFlight(a, ch) \in Nat /\ InDoubt(a, ch) \in Nat
            /\ Excess(a, ch) \in Int
  BY TermTypes
<1>2. QED
  BY <1>1, PTL

\* What a step has to do with the terms of every purse for the money to stay
\* traced: nothing that is sent or settled is forgotten, and as long as no
\* payout dies it is booked, in flight, in doubt or recorded as failed.
LEMMA TracedStep ==
  ASSUME MoneyIsTraced, TypeOK, PayoutTypeOK, SettlementTypeOK,
         lost' \in Nat, crashes' \in Nat, lost' >= lost, crashes' >= crashes,
         TypeOK', PayoutTypeOK', SettlementTypeOK',
         \A a \in Account, ch \in Channel :
           /\ Excess(a, ch)' >= Excess(a, ch)
           /\ lost' = 0 /\ crashes' = 0 => Excess(a, ch)' = Excess(a, ch)
           /\ crashes' = 0 =>
                Excess(a, ch)' - failed'[<<a, ch>>] - InDoubt(a, ch)'
                  <= Excess(a, ch) - failed[<<a, ch>>] - InDoubt(a, ch)
  PROVE  MoneyIsTraced'
<1>1. lost \in Nat /\ crashes \in Nat
  BY DEF PayoutTypeOK
<1>2. ASSUME NEW a \in Account, NEW ch \in Channel
      PROVE  (/\ Excess(a, ch) >= 0
              /\ lost = 0 /\ crashes = 0 => Excess(a, ch) = 0
              /\ crashes = 0 => Excess(a, ch) <= failed[<<a, ch>>] + InDoubt(a, ch))'
  <2>1. /\ Excess(a, ch) \in Int /\ failed[<<a, ch>>] \in Int /\ InDoubt(a, ch) \in Nat
    BY TermTypes
  <2>2. /\ Excess(a, ch)' \in Int /\ failed'[<<a, ch>>] \in Int /\ InDoubt(a, ch)' \in Nat
    BY TermTypesNext
  <2>3. /\ Excess(a, ch) >= 0
        /\ lost = 0 /\ crashes = 0 => Excess(a, ch) = 0
        /\ crashes = 0 => Excess(a, ch) <= failed[<<a, ch>>] + InDoubt(a, ch)
    BY DEF MoneyIsTraced
  <2>4. QED
    BY <1>1, <2>1, <2>2, <2>3
<1>3. QED
  BY <1>2 DEF MoneyIsTraced

\* The terms of a purse after a step.
LEMMA ExcessMoves ==
  ASSUME NEW a \in Account, NEW ch \in Channel
  PROVE  /\ Excess(a, ch)' = sent'[<<a, ch>>] + Settled(a, ch)' - paidOut'[<<a, ch>>]
                               - InFlight(a, ch)'
         /\ (payout'[a] = payout[a] => /\ InFlight(a, ch)' = InFlight(a, ch)
                                       /\ InDoubt(a, ch)' = InDoubt(a, ch))
BY DEF Excess, InFlight, InDoubt

\* A step that leaves every term alone.
LEMMA NothingSent ==
  ASSUME MoneyIsTraced, TypeOK, PayoutTypeOK, SettlementTypeOK,
         TypeOK', PayoutTypeOK', SettlementTypeOK',
         lost' = lost, crashes' = crashes,
         sent' = sent, failed' = failed, payout' = payout, paidOut' = paidOut,
         \A a \in Account, ch \in Channel : Settled(a, ch)' = Settled(a, ch)
  PROVE  MoneyIsTraced'
<1>1. ASSUME NEW a \in Account, NEW ch \in Channel
      PROVE  Excess(a, ch)' = Excess(a, ch) /\ InDoubt(a, ch)' = InDoubt(a, ch)
  BY ExcessMoves DEF Excess
<1>2. \A a \in Account, ch \in Channel :
        /\ Excess(a, ch) \in Int /\ failed[<<a, ch>>] \in Int /\ InDoubt(a, ch) \in Nat
  BY TermTypes
<1>3. lost \in Nat /\ crashes \in Nat
  BY DEF PayoutTypeOK
<1>4. \A a \in Account, ch \in Channel :
           /\ Excess(a, ch)' >= Excess(a, ch)
           /\ lost' = 0 /\ crashes' = 0 => Excess(a, ch)' = Excess(a, ch)
           /\ crashes' = 0 =>
                Excess(a, ch)' - failed'[<<a, ch>>] - InDoubt(a, ch)'
                  <= Excess(a, ch) - failed[<<a, ch>>] - InDoubt(a, ch)
  <2> SUFFICES ASSUME NEW a \in Account, NEW ch \in Channel
               PROVE  /\ Excess(a, ch)' >= Excess(a, ch)
                      /\ lost' = 0 /\ crashes' = 0 => Excess(a, ch)' = Excess(a, ch)
                      /\ crashes' = 0 =>
                           Excess(a, ch)' - failed'[<<a, ch>>] - InDoubt(a, ch)'
                             <= Excess(a, ch) - failed[<<a, ch>>] - InDoubt(a, ch)
    OBVIOUS
  <2>1. QED
    BY <1>1, <1>2
<1>5. QED
  BY <1>3, <1>4, TracedStep

-----------------------------------------------------------------------------
(* Payouts *)

LEMMA RequestType ==
  ASSUME PayoutTypeOK, NEW r \in Request, requests[r].pc = "asked"
  PROVE  /\ requests[r].account \in Account
         /\ requests[r].channel \in Channel
         /\ requests[r].amount \in Amount /\ requests[r].amount > 0
         /\ MayPay(requests[r].account, requests[r].channel)
<1>1. requests[r] \in RequestRow
  BY DEF PayoutTypeOK
<1>2. requests[r] # NoRequest /\ requests[r] # Done
  BY DEF NoRequest, Done
<1>3. requests[r] \in [pc : {"asked"}, account : Account, channel : Channel,
                       amount : Amount]
  BY <1>1, <1>2 DEF RequestRow
<1>4. QED
  BY <1>3 DEF PayoutTypeOK

LEMMA HolderType ==
  ASSUME PayoutTypeOK, NEW a \in Account, payout[a].pc # "none"
  PROVE  /\ payout[a] \in [pc : {"call", "paid", "error"}, channel : Channel,
                           amount : Amount]
         /\ payout[a].channel \in Channel
         /\ payout[a].amount \in Amount /\ payout[a].amount \in Nat
         /\ Locked(a) /\ MayPay(a, payout[a].channel) /\ payout[a].amount > 0
<1>1. payout[a] \in Holder /\ payout[a] # NoPayout
  BY DEF PayoutTypeOK, NoPayout
<1>2. payout[a] \in [pc : {"call", "paid", "error"}, channel : Channel, amount : Amount]
  BY <1>1 DEF Holder
<1>3. payout[a].channel \in Channel /\ payout[a].amount \in Amount
  BY <1>2
<1>4. QED
  BY <1>1, <1>2, <1>3 DEF PayoutTypeOK, Locked, MayHold

\* A request that is answered is done.
LEMMA RequestDone ==
  ASSUME PayoutTypeOK, NEW r \in Request,
         requests' = [requests EXCEPT ![r] = Done]
  PROVE  /\ requests' \in [Request -> RequestRow]
         /\ \A k \in Request : requests'[k].pc = "asked" =>
              /\ MayPay(requests'[k].account, requests'[k].channel)
              /\ requests'[k].amount > 0
<1>1. requests \in [Request -> RequestRow] /\ Done \in RequestRow
  BY DEF PayoutTypeOK, RequestRow
<1>2. requests'[r] = Done /\ \A k \in Request : k # r => requests'[k] = requests[k]
  BY <1>1
<1>3. Done.pc # "asked"
  BY DEF Done
<1>4. QED
  BY <1>1, <1>2, <1>3 DEF PayoutTypeOK

\* The payout of one account goes on.
LEMMA PayoutMoves ==
  ASSUME PayoutTypeOK, NEW a \in Account, NEW h \in Holder,
         h # NoPayout => MayHold(a, h),
         payout' = [payout EXCEPT ![a] = h]
  PROVE  /\ payout' \in [Account -> Holder]
         /\ \A k \in Account : Locked(k)' => MayHold(k, payout'[k])
         /\ payout'[a] = h
         /\ \A k \in Account : k # a => payout'[k] = payout[k]
<1>1. payout \in [Account -> Holder]
  BY DEF PayoutTypeOK
<1>2. payout'[a] = h /\ \A k \in Account : k # a => payout'[k] = payout[k]
  BY <1>1
<1>3. \A k \in Account : payout[k] # NoPayout => MayHold(k, payout[k])
  BY DEF PayoutTypeOK, Locked
<1>4. \A k \in Account : payout'[k] # NoPayout => MayHold(k, payout'[k])
  BY <1>2, <1>3
<1>5. QED
  BY <1>1, <1>2, <1>4 DEF Locked

\* A sum of payouts of a purse grows by n.
LEMMA AddedTo ==
  ASSUME NEW f \in [Purse -> Int], NEW a \in Account, NEW ch \in Channel, NEW n \in Nat
  PROVE  /\ Add(f, <<a, ch>>, n) \in [Purse -> Int]
         /\ \A k \in Account, c \in Channel :
              Add(f, <<a, ch>>, n)[<<k, c>>]
                = f[<<k, c>>] + (IF k = a /\ c = ch THEN n ELSE 0)
<1>1. <<a, ch>> \in Purse /\ n \in Int
  BY DEF Purse
<1>2. Add(f, <<a, ch>>, n) \in [Purse -> Int]
  BY <1>1, AddType
<1>3. ASSUME NEW k \in Account, NEW c \in Channel
      PROVE  Add(f, <<a, ch>>, n)[<<k, c>>]
               = f[<<k, c>>] + (IF k = a /\ c = ch THEN n ELSE 0)
  <2>1. <<k, c>> \in Purse /\ f[<<k, c>>] \in Int
    BY DEF Purse
  <2>2. <<k, c>> = <<a, ch>> <=> k = a /\ c = ch
    OBVIOUS
  <2>3. QED
    BY <1>1, <2>1, <2>2 DEF Add
<1>4. QED
  BY <1>2, <1>3

\* A payout step leaves the bills alone.
LEMMA PayoutKeepsBills ==
  ASSUME SettlementTypeOK, days' = days
  PROVE  /\ SettlementTypeOK'
         /\ \A a \in Account, ch \in Channel : Settled(a, ch)' = Settled(a, ch)
<1>1. /\ day' = day /\ placed' = placed /\ bills' = bills /\ agenda' = agenda
      /\ runs' = runs
  BY DEF days
<1>2. \A a \in Account, ch \in Channel : Settled(a, ch)' = Settled(a, ch)
  BY <1>1, SettledSame
<1>3. QED
  BY <1>1, <1>2 DEF SettlementTypeOK

\* A request sends nothing.
LEMMA AskTraced ==
  ASSUME MoneyIsTraced, TypeOK, PayoutTypeOK, SettlementTypeOK, TypeOK', days' = days,
         NEW r \in Request, NEW a \in Account, NEW ch \in Channel, NEW n \in Amount,
         Ask(r, a, ch, n)
  PROVE  PayoutTypeOK' /\ MoneyIsTraced'
<1> DEFINE q == [pc |-> "asked", account |-> a, channel |-> ch, amount |-> n]
<1>1. /\ requests' = [requests EXCEPT ![r] = q] /\ MayPay(a, ch) /\ n > 0
      /\ payout' = payout /\ sent' = sent /\ failed' = failed
      /\ lost' = lost /\ crashes' = crashes /\ paidOut' = paidOut
  BY DEF Ask, counters, vars
<1>2. requests \in [Request -> RequestRow] /\ q \in RequestRow
  BY DEF PayoutTypeOK, RequestRow
<1>3. /\ q.pc = "asked" /\ q.account = a /\ q.channel = ch /\ q.amount = n
  OBVIOUS
<1> HIDE DEF q
<1>4. /\ requests' \in [Request -> RequestRow]
      /\ \A k \in Request : requests'[k].pc = "asked" =>
           /\ MayPay(requests'[k].account, requests'[k].channel)
           /\ requests'[k].amount > 0
  <2>1. requests'[r] = q /\ \A k \in Request : k # r => requests'[k] = requests[k]
    BY <1>1, <1>2
  <2>2. QED
    BY <1>1, <1>2, <1>3, <2>1 DEF PayoutTypeOK
<1>5. PayoutTypeOK'
  BY <1>1, <1>4 DEF PayoutTypeOK, Locked
<1>6. SettlementTypeOK' /\ \A k \in Account, c \in Channel : Settled(k, c)' = Settled(k, c)
  BY PayoutKeepsBills
<1>7. MoneyIsTraced'
  BY <1>1, <1>5, <1>6, NothingSent
<1>8. QED
  BY <1>5, <1>7

\* Taking the lock sends nothing either.
LEMMA BeginPayoutTraced ==
  ASSUME MoneyIsTraced, TypeOK, PayoutTypeOK, SettlementTypeOK, TypeOK', days' = days,
         NEW r \in Request, BeginPayout(r)
  PROVE  PayoutTypeOK' /\ MoneyIsTraced'
<1> DEFINE a == requests[r].account
           ch == requests[r].channel
           n == requests[r].amount
           h == At("call", ch, n)
<1>1. /\ requests[r].pc = "asked" /\ ~Locked(a)
      /\ payout' = [payout EXCEPT ![a] = h]
      /\ requests' = [requests EXCEPT ![r] = Done]
      /\ sent' = sent /\ failed' = failed
      /\ lost' = lost /\ crashes' = crashes /\ paidOut' = paidOut
  BY DEF BeginPayout, counters, vars
<1>2. a \in Account /\ ch \in Channel /\ n \in Amount /\ MayPay(a, ch) /\ n > 0
  BY <1>1, RequestType
<1>3. h \in Holder /\ h.channel = ch /\ h.pc = "call" /\ MayHold(a, h)
  BY <1>2 DEF At, Holder, MayHold
<1>4. payout[a] = NoPayout /\ payout[a].pc = "none"
  BY <1>1 DEF Locked, NoPayout
<1> HIDE DEF a, ch, n, h
<1>5. /\ payout' \in [Account -> Holder]
      /\ \A k \in Account : Locked(k)' => MayHold(k, payout'[k])
      /\ payout'[a] = h
      /\ \A k \in Account : k # a => payout'[k] = payout[k]
  BY <1>1, <1>2, <1>3, PayoutMoves
<1>6. PayoutTypeOK'
  BY <1>1, <1>5, RequestDone DEF PayoutTypeOK
<1>7. SettlementTypeOK' /\ \A k \in Account, c \in Channel : Settled(k, c)' = Settled(k, c)
  BY PayoutKeepsBills
<1>8. ASSUME NEW k \in Account, NEW c \in Channel
      PROVE  /\ Excess(k, c)' >= Excess(k, c)
             /\ lost' = 0 /\ crashes' = 0 => Excess(k, c)' = Excess(k, c)
             /\ crashes' = 0 =>
                  Excess(k, c)' - failed'[<<k, c>>] - InDoubt(k, c)'
                    <= Excess(k, c) - failed[<<k, c>>] - InDoubt(k, c)
  <2>1. InFlight(k, c)' = InFlight(k, c) /\ InDoubt(k, c)' = InDoubt(k, c)
    BY <1>3, <1>4, <1>5 DEF InFlight, InDoubt
  <2>2. Excess(k, c)' = Excess(k, c)
    BY <1>1, <1>7, <2>1 DEF Excess
  <2>3. Excess(k, c) \in Int /\ failed[<<k, c>>] \in Int /\ InDoubt(k, c) \in Nat
    BY TermTypes
  <2>4. QED
    BY <1>1, <2>1, <2>2, <2>3
<1>9. lost \in Nat /\ crashes \in Nat
  BY DEF PayoutTypeOK
<1>10. MoneyIsTraced'
  BY <1>1, <1>6, <1>7, <1>8, <1>9, TracedStep
<1>11. QED
  BY <1>6, <1>10

\* A refused payout is recorded as failed and sends nothing.
LEMMA RefusePayoutTraced ==
  ASSUME MoneyIsTraced, TypeOK, PayoutTypeOK, SettlementTypeOK, TypeOK', days' = days,
         NEW r \in Request, RefusePayout(r)
  PROVE  PayoutTypeOK' /\ MoneyIsTraced'
<1> DEFINE a == requests[r].account
           ch == requests[r].channel
           n == requests[r].amount
<1>1. /\ requests[r].pc = "asked"
      /\ requests' = [requests EXCEPT ![r] = Done]
      /\ failed' = Add(failed, <<a, ch>>, n)
      /\ payout' = payout /\ sent' = sent
      /\ lost' = lost /\ crashes' = crashes /\ paidOut' = paidOut
  BY DEF RefusePayout, RecordFailure, counters, vars
<1>2. a \in Account /\ ch \in Channel /\ n \in Nat
  BY <1>1, RequestType
<1> HIDE DEF a, ch, n
<1>3. failed \in [Purse -> Int]
  BY DEF PayoutTypeOK
<1>4. /\ failed' \in [Purse -> Int]
      /\ \A k \in Account, c \in Channel :
           failed'[<<k, c>>] = failed[<<k, c>>] + (IF k = a /\ c = ch THEN n ELSE 0)
  <2>1. /\ Add(failed, <<a, ch>>, n) \in [Purse -> Int]
        /\ \A k \in Account, c \in Channel :
             Add(failed, <<a, ch>>, n)[<<k, c>>]
               = failed[<<k, c>>] + (IF k = a /\ c = ch THEN n ELSE 0)
    BY <1>2, <1>3, AddedTo
  <2>2. QED
    BY <1>1, <2>1
<1>5. PayoutTypeOK'
  BY <1>1, <1>4, RequestDone DEF PayoutTypeOK, Locked
<1>6. SettlementTypeOK' /\ \A k \in Account, c \in Channel : Settled(k, c)' = Settled(k, c)
  BY PayoutKeepsBills
<1>7. ASSUME NEW k \in Account, NEW c \in Channel
      PROVE  /\ Excess(k, c)' >= Excess(k, c)
             /\ lost' = 0 /\ crashes' = 0 => Excess(k, c)' = Excess(k, c)
             /\ crashes' = 0 =>
                  Excess(k, c)' - failed'[<<k, c>>] - InDoubt(k, c)'
                    <= Excess(k, c) - failed[<<k, c>>] - InDoubt(k, c)
  <2>1. InFlight(k, c)' = InFlight(k, c) /\ InDoubt(k, c)' = InDoubt(k, c)
    BY <1>1 DEF InFlight, InDoubt
  <2>2. Excess(k, c)' = Excess(k, c)
    BY <1>1, <1>6, <2>1 DEF Excess
  <2>3. Excess(k, c) \in Int /\ failed[<<k, c>>] \in Int /\ InDoubt(k, c) \in Nat
    BY TermTypes
  <2>4. failed'[<<k, c>>] \in Int /\ failed'[<<k, c>>] >= failed[<<k, c>>]
    BY <1>2, <1>4, <2>3
  <2>5. QED
    BY <2>1, <2>2, <2>3, <2>4
<1>8. lost \in Nat /\ crashes \in Nat
  BY DEF PayoutTypeOK
<1>9. MoneyIsTraced'
  BY <1>1, <1>5, <1>6, <1>7, <1>8, TracedStep
<1>10. QED
  BY <1>5, <1>9

\* The provider's answer: what it paid is in flight or, when the answer got
\* lost, in doubt.
LEMMA CallProviderTraced ==
  ASSUME MoneyIsTraced, TypeOK, PayoutTypeOK, SettlementTypeOK, TypeOK', days' = days,
         NEW a \in Account, CallProvider(a)
  PROVE  PayoutTypeOK' /\ MoneyIsTraced'
<1> DEFINE ch == payout[a].channel
           n == payout[a].amount
           paid == At("paid", ch, n)
           error == At("error", ch, n)
           sentMore == Add(sent, <<a, ch>>, n)
<1>1. /\ payout[a].pc = "call"
      /\ \/ sent' = sentMore /\ payout' = [payout EXCEPT ![a] = paid] /\ lost' = lost
         \/ sent' = sent /\ payout' = [payout EXCEPT ![a] = error] /\ lost' = lost
         \/ /\ sent' = sentMore /\ payout' = [payout EXCEPT ![a] = error]
            /\ lost' = lost + 1
      /\ requests' = requests /\ failed' = failed /\ crashes' = crashes
      /\ paidOut' = paidOut
  BY DEF CallProvider, vars
<1>2. ch \in Channel /\ n \in Amount /\ n \in Nat /\ MayPay(a, ch) /\ n > 0
  BY <1>1, HolderType
<1>3. /\ paid \in Holder /\ paid.pc = "paid" /\ paid.channel = ch /\ paid.amount = n
      /\ error \in Holder /\ error.pc = "error" /\ error.channel = ch /\ error.amount = n
  BY <1>2 DEF At, Holder
<1>4. \A c \in Channel : InFlight(a, c) = 0 /\ InDoubt(a, c) = 0
  BY <1>1 DEF InFlight, InDoubt
<1>5. sent \in [Purse -> Int] /\ lost \in Nat /\ crashes \in Nat
  BY DEF PayoutTypeOK
<1> HIDE DEF ch, n, paid, error
<1>6. /\ sentMore \in [Purse -> Int]
      /\ \A k \in Account, c \in Channel :
           sentMore[<<k, c>>] = sent[<<k, c>>] + (IF k = a /\ c = ch THEN n ELSE 0)
  <2>1. sent \in [Purse -> Int] /\ ch \in Channel /\ n \in Nat
    BY <1>2, <1>5
  <2>2. QED
    BY <2>1, AddedTo
<1> HIDE DEF sentMore
<1>7. ASSUME NEW h \in {paid, error}, payout' = [payout EXCEPT ![a] = h]
      PROVE  /\ payout' \in [Account -> Holder]
             /\ \A k \in Account : Locked(k)' => MayHold(k, payout'[k])
             /\ payout'[a] = h
             /\ \A k \in Account : k # a => payout'[k] = payout[k]
  <2>1. h \in Holder /\ MayHold(a, h)
    BY <1>2, <1>3 DEF MayHold
  <2>2. QED
    BY <1>7, <2>1, PayoutMoves
<1>8. PayoutTypeOK'
  <2>1. sent' \in [Purse -> Int] /\ lost' \in Nat
    BY <1>1, <1>5, <1>6
  <2>2. /\ payout' \in [Account -> Holder]
        /\ \A k \in Account : Locked(k)' => MayHold(k, payout'[k])
    BY <1>1, <1>7
  <2>3. QED
    BY <1>1, <2>1, <2>2 DEF PayoutTypeOK
<1>9. SettlementTypeOK' /\ \A k \in Account, c \in Channel : Settled(k, c)' = Settled(k, c)
  BY PayoutKeepsBills
<1>10. ASSUME NEW k \in Account, NEW c \in Channel
       PROVE  /\ Excess(k, c)' >= Excess(k, c)
              /\ lost' = 0 /\ crashes' = 0 => Excess(k, c)' = Excess(k, c)
              /\ crashes' = 0 =>
                   Excess(k, c)' - failed'[<<k, c>>] - InDoubt(k, c)'
                     <= Excess(k, c) - failed[<<k, c>>] - InDoubt(k, c)
  <2> DEFINE d == IF k = a /\ c = ch THEN n ELSE 0
  <2>1. /\ sent[<<k, c>>] \in Int /\ Settled(k, c) \in Int
        /\ paidOut[<<k, c>>] \in Int /\ failed[<<k, c>>] \in Int
        /\ InFlight(k, c) \in Nat /\ InDoubt(k, c) \in Nat /\ d \in Nat
    BY <1>2, TermTypes
  <2>2. Excess(k, c)' = sent'[<<k, c>>] + Settled(k, c) - paidOut[<<k, c>>]
                          - InFlight(k, c)'
    BY <1>1, <1>9 DEF Excess
  <2>3. Excess(k, c) = sent[<<k, c>>] + Settled(k, c) - paidOut[<<k, c>>]
                         - InFlight(k, c)
    BY DEF Excess
  <2>4. ASSUME payout' = [payout EXCEPT ![a] = paid]
        PROVE  InFlight(k, c)' = InFlight(k, c) + d /\ InDoubt(k, c)' = InDoubt(k, c)
    <3>1. payout'[a] = paid /\ (k # a => payout'[k] = payout[k])
      BY <1>7, <2>4
    <3>2. CASE k = a
      <4>1. InFlight(k, c)' = d /\ InDoubt(k, c)' = 0
        BY <1>3, <3>1, <3>2 DEF InFlight, InDoubt
      <4>2. QED
        BY <1>4, <2>1, <3>2, <4>1
    <3>3. CASE k # a
      BY <2>1, <3>1, <3>3 DEF InFlight, InDoubt
    <3>4. QED
      BY <3>2, <3>3
  <2>5. ASSUME payout' = [payout EXCEPT ![a] = error]
        PROVE  InFlight(k, c)' = InFlight(k, c) /\ InDoubt(k, c)' = InDoubt(k, c) + d
    <3>1. payout'[a] = error /\ (k # a => payout'[k] = payout[k])
      BY <1>7, <2>5
    <3>2. CASE k = a
      <4>1. InFlight(k, c)' = 0 /\ InDoubt(k, c)' = d
        BY <1>3, <3>1, <3>2 DEF InFlight, InDoubt
      <4>2. QED
        BY <1>4, <2>1, <3>2, <4>1
    <3>3. CASE k # a
      BY <2>1, <3>1, <3>3 DEF InFlight, InDoubt
    <3>4. QED
      BY <3>2, <3>3
  <2>6. sentMore[<<k, c>>] = sent[<<k, c>>] + d
    BY <1>6
  <2> HIDE DEF d
  <2>7. CASE sent' = sentMore /\ payout' = [payout EXCEPT ![a] = paid] /\ lost' = lost
    BY <1>1, <2>1, <2>2, <2>3, <2>4, <2>6, <2>7
  <2>8. CASE sent' = sent /\ payout' = [payout EXCEPT ![a] = error] /\ lost' = lost
    BY <1>1, <2>1, <2>2, <2>3, <2>5, <2>8
  <2>9. CASE sent' = sentMore /\ payout' = [payout EXCEPT ![a] = error] /\ lost' = lost + 1
    BY <1>1, <1>5, <2>1, <2>2, <2>3, <2>5, <2>6, <2>9
  <2>10. QED
    BY <1>1, <2>7, <2>8, <2>9
<1>11. /\ lost' >= lost /\ crashes' >= crashes /\ lost' \in Nat /\ crashes' \in Nat
  BY <1>1, <1>5
<1>12. MoneyIsTraced'
  BY <1>8, <1>9, <1>10, <1>11, TracedStep
<1>13. QED
  BY <1>8, <1>12

\* What an ended payout leaves of the terms of its account.
LEMMA Released0 ==
  ASSUME PayoutTypeOK, NEW a \in Account, Release(a)
  PROVE  /\ payout' \in [Account -> Holder]
         /\ \A k \in Account : Locked(k)' => MayHold(k, payout'[k])
         /\ \A c \in Channel : InFlight(a, c)' = 0 /\ InDoubt(a, c)' = 0
         /\ \A k \in Account, c \in Channel : k # a =>
              InFlight(k, c)' = InFlight(k, c) /\ InDoubt(k, c)' = InDoubt(k, c)
<1>1. payout' = [payout EXCEPT ![a] = NoPayout] /\ NoPayout \in Holder
  BY DEF Release, Holder
<1>2. /\ payout' \in [Account -> Holder]
      /\ \A k \in Account : Locked(k)' => MayHold(k, payout'[k])
      /\ payout'[a] = NoPayout
      /\ \A k \in Account : k # a => payout'[k] = payout[k]
  BY <1>1, PayoutMoves
<1>3. NoPayout.pc = "none"
  BY DEF NoPayout
<1>4. QED
  BY <1>2, <1>3 DEF InFlight, InDoubt

\* A payout that is rolled back is recorded as failed.
LEMMA RollBackPayoutTraced ==
  ASSUME MoneyIsTraced, TypeOK, PayoutTypeOK, SettlementTypeOK, TypeOK', days' = days,
         NEW a \in Account, RollBackPayout(a)
  PROVE  PayoutTypeOK' /\ MoneyIsTraced'
<1> DEFINE ch == payout[a].channel
           n == payout[a].amount
           failedMore == Add(failed, <<a, ch>>, n)
<1>1. /\ payout[a].pc = "error" /\ failed' = failedMore /\ Release(a)
      /\ requests' = requests /\ sent' = sent /\ lost' = lost /\ crashes' = crashes
      /\ paidOut' = paidOut
  BY DEF RollBackPayout, RecordFailure, counters, vars
<1>2. ch \in Channel /\ n \in Nat
  BY <1>1, HolderType
<1>3. /\ \A c \in Channel : InFlight(a, c) = 0 /\ InDoubt(a, c) = IF c = ch THEN n ELSE 0
      /\ failed \in [Purse -> Int] /\ lost \in Nat /\ crashes \in Nat
  BY <1>1 DEF InFlight, InDoubt, PayoutTypeOK
<1> HIDE DEF ch, n
<1>4. /\ failedMore \in [Purse -> Int]
      /\ \A k \in Account, c \in Channel :
           failedMore[<<k, c>>] = failed[<<k, c>>] + (IF k = a /\ c = ch THEN n ELSE 0)
  <2>1. failed \in [Purse -> Int] /\ ch \in Channel /\ n \in Nat
    BY <1>2, <1>3
  <2>2. QED
    BY <2>1, AddedTo
<1> HIDE DEF failedMore
<1>5. /\ payout' \in [Account -> Holder]
      /\ \A k \in Account : Locked(k)' => MayHold(k, payout'[k])
      /\ \A c \in Channel : InFlight(a, c)' = 0 /\ InDoubt(a, c)' = 0
      /\ \A k \in Account, c \in Channel : k # a =>
           InFlight(k, c)' = InFlight(k, c) /\ InDoubt(k, c)' = InDoubt(k, c)
  BY <1>1, Released0
<1>6. PayoutTypeOK'
  BY <1>1, <1>4, <1>5 DEF PayoutTypeOK
<1>7. SettlementTypeOK' /\ \A k \in Account, c \in Channel : Settled(k, c)' = Settled(k, c)
  BY PayoutKeepsBills
<1>8. ASSUME NEW k \in Account, NEW c \in Channel
      PROVE  /\ Excess(k, c)' >= Excess(k, c)
             /\ lost' = 0 /\ crashes' = 0 => Excess(k, c)' = Excess(k, c)
             /\ crashes' = 0 =>
                  Excess(k, c)' - failed'[<<k, c>>] - InDoubt(k, c)'
                    <= Excess(k, c) - failed[<<k, c>>] - InDoubt(k, c)
  <2> DEFINE d == IF k = a /\ c = ch THEN n ELSE 0
  <2>1. /\ Excess(k, c) \in Int /\ failed[<<k, c>>] \in Int /\ InDoubt(k, c) \in Nat
        /\ d \in Nat
    BY <1>2, TermTypes
  <2>2. InFlight(k, c)' = InFlight(k, c)
    BY <1>3, <1>5
  <2>3. Excess(k, c)' = Excess(k, c)
    BY <1>1, <1>7, <2>2 DEF Excess
  <2>4. failed'[<<k, c>>] = failed[<<k, c>>] + d
    BY <1>1, <1>4
  <2>5. InDoubt(k, c)' = InDoubt(k, c) - d
    BY <1>2, <1>3, <1>5, <2>1
  <2> HIDE DEF d
  <2>6. QED
    BY <2>1, <2>3, <2>4, <2>5
<1>9. MoneyIsTraced'
  BY <1>1, <1>3, <1>6, <1>7, <1>8, TracedStep
<1>10. QED
  BY <1>6, <1>9

\* A payout that dies is what the counter of crashes is for.
LEMMA PayoutDiesTraced ==
  ASSUME MoneyIsTraced, TypeOK, PayoutTypeOK, SettlementTypeOK, TypeOK', days' = days,
         NEW a \in Account, PayoutDies(a)
  PROVE  PayoutTypeOK' /\ MoneyIsTraced'
<1>1. /\ Release(a) /\ crashes' = crashes + 1 /\ lost' = lost
      /\ requests' = requests /\ sent' = sent /\ failed' = failed /\ paidOut' = paidOut
  BY DEF PayoutDies, vars
<1>2. crashes \in Nat /\ lost \in Nat
  BY DEF PayoutTypeOK
<1>3. /\ payout' \in [Account -> Holder]
      /\ \A k \in Account : Locked(k)' => MayHold(k, payout'[k])
      /\ \A c \in Channel : InFlight(a, c)' = 0
      /\ \A k \in Account, c \in Channel : k # a => InFlight(k, c)' = InFlight(k, c)
  BY <1>1, Released0
<1>4. PayoutTypeOK'
  BY <1>1, <1>2, <1>3 DEF PayoutTypeOK
<1>5. SettlementTypeOK' /\ \A k \in Account, c \in Channel : Settled(k, c)' = Settled(k, c)
  BY PayoutKeepsBills
<1>6. ASSUME NEW k \in Account, NEW c \in Channel
      PROVE  Excess(k, c)' >= Excess(k, c)
  <2>1. /\ sent[<<k, c>>] \in Int /\ Settled(k, c) \in Int
        /\ paidOut[<<k, c>>] \in Int /\ InFlight(k, c) \in Nat
    BY TermTypes
  <2>2. Excess(k, c)' = sent[<<k, c>>] + Settled(k, c) - paidOut[<<k, c>>]
                          - InFlight(k, c)'
    BY <1>1, <1>5 DEF Excess
  <2>3. Excess(k, c) = sent[<<k, c>>] + Settled(k, c) - paidOut[<<k, c>>]
                         - InFlight(k, c)
    BY DEF Excess
  <2>4. InFlight(k, c)' = InFlight(k, c) \/ InFlight(k, c)' = 0
    BY <1>3
  <2>5. QED
    BY <2>1, <2>2, <2>3, <2>4
<1>7. crashes' # 0 /\ crashes' \in Nat /\ crashes' >= crashes /\ lost' \in Nat /\ lost' >= lost
  BY <1>1, <1>2
<1>8. MoneyIsTraced'
  BY <1>4, <1>5, <1>6, <1>7, TracedStep
<1>9. QED
  BY <1>4, <1>8

\* A commit is one of the ways money leaves the ledger.
LEMMA CommitIsOut ==
  ASSUME PayoutTypeOK, HeldIsCovered, NEW a \in Account, CommitPayout(a)
  PROVE  MoneyOut
<1> DEFINE ch == payout[a].channel
           n == payout[a].amount
<1>1. /\ payout[a].pc = "paid"
      /\ TakeOut(<<a, ch>>, n) /\ rows' = <<PayOutRow(<<a, ch>>, n)>>
      /\ payments' = payments /\ refunds' = refunds /\ coupons' = coupons
  BY DEF CommitPayout
<1>2. ch \in Channel /\ n \in Amount /\ n > 0 /\ MayPay(a, ch) /\ Locked(a)
  BY <1>1, HolderType
<1>3. withdrawable[<<a, ch>>] >= n
  BY <1>2 DEF HeldIsCovered
<1> HIDE DEF ch, n
<1>4. PayOut(<<a, ch>>, n)
  BY <1>1, <1>3 DEF PayOut
<1>5. Withdraw(a, ch, n)
  BY <1>1, <1>2, <1>4 DEF Withdraw
<1>6. CASE a = Platform
  <2>1. ch = "ALIPAY"
    BY <1>2, <1>6 DEF MayPay
  <2>2. Transfer(n)
    BY <1>5, <1>6, <2>1 DEF Withdraw, Transfer
  <2>3. QED
    BY <1>2, <2>2 DEF MoneyOut
<1>7. CASE a # Platform
  <2>1. a \in Merchant \cup Marketer
    BY <1>7 DEF Account
  <2>2. QED
    BY <1>2, <1>5, <2>1 DEF MoneyOut
<1>8. QED
  BY <1>6, <1>7

\* A payout that is committed is booked: it was in flight.
LEMMA CommitPayoutTraced ==
  ASSUME MoneyIsTraced, TypeOK, PayoutTypeOK, SettlementTypeOK, TypeOK', days' = days,
         NEW a \in Account, CommitPayout(a)
  PROVE  PayoutTypeOK' /\ MoneyIsTraced'
<1> DEFINE ch == payout[a].channel
           n == payout[a].amount
           paidMore == Add(paidOut, <<a, ch>>, n)
<1>1. /\ payout[a].pc = "paid" /\ Release(a)
      /\ requests' = requests /\ sent' = sent /\ failed' = failed
      /\ lost' = lost /\ crashes' = crashes
      /\ TakeOut(<<a, ch>>, n)
  BY DEF CommitPayout, counters
<1>2. ch \in Channel /\ n \in Amount /\ n \in Nat /\ MayPay(a, ch)
  BY <1>1, HolderType
<1>3. /\ \A c \in Channel : InFlight(a, c) = (IF c = ch THEN n ELSE 0) /\ InDoubt(a, c) = 0
      /\ paidOut \in [Purse -> Int] /\ lost \in Nat /\ crashes \in Nat
  BY <1>1 DEF InFlight, InDoubt, PayoutTypeOK, TypeOK
<1> HIDE DEF ch, n
<1>5. paidOut' = paidMore
  BY <1>1 DEF TakeOut
<1>6. /\ paidMore \in [Purse -> Int]
      /\ \A k \in Account, c \in Channel :
           paidMore[<<k, c>>] = paidOut[<<k, c>>] + (IF k = a /\ c = ch THEN n ELSE 0)
  <2>1. paidOut \in [Purse -> Int] /\ ch \in Channel /\ n \in Nat
    BY <1>2, <1>3
  <2>2. QED
    BY <2>1, AddedTo
<1> HIDE DEF paidMore
<1>7. /\ payout' \in [Account -> Holder]
      /\ \A k \in Account : Locked(k)' => MayHold(k, payout'[k])
      /\ \A c \in Channel : InFlight(a, c)' = 0 /\ InDoubt(a, c)' = 0
      /\ \A k \in Account, c \in Channel : k # a =>
           InFlight(k, c)' = InFlight(k, c) /\ InDoubt(k, c)' = InDoubt(k, c)
  BY <1>1, Released0
<1>8. PayoutTypeOK'
  BY <1>1, <1>7 DEF PayoutTypeOK
<1>9. SettlementTypeOK' /\ \A k \in Account, c \in Channel : Settled(k, c)' = Settled(k, c)
  BY PayoutKeepsBills
<1>10. ASSUME NEW k \in Account, NEW c \in Channel
       PROVE  /\ Excess(k, c)' >= Excess(k, c)
              /\ lost' = 0 /\ crashes' = 0 => Excess(k, c)' = Excess(k, c)
              /\ crashes' = 0 =>
                   Excess(k, c)' - failed'[<<k, c>>] - InDoubt(k, c)'
                     <= Excess(k, c) - failed[<<k, c>>] - InDoubt(k, c)
  <2> DEFINE d == IF k = a /\ c = ch THEN n ELSE 0
  <2>1. /\ sent[<<k, c>>] \in Int /\ Settled(k, c) \in Int
        /\ paidOut[<<k, c>>] \in Int /\ failed[<<k, c>>] \in Int
        /\ InFlight(k, c) \in Nat /\ InDoubt(k, c) \in Nat /\ d \in Nat
    BY <1>2, TermTypes
  <2>2. Excess(k, c)' = sent[<<k, c>>] + Settled(k, c) - paidOut'[<<k, c>>]
                          - InFlight(k, c)'
    BY <1>1, <1>9 DEF Excess
  <2>3. Excess(k, c) = sent[<<k, c>>] + Settled(k, c) - paidOut[<<k, c>>]
                         - InFlight(k, c)
    BY DEF Excess
  <2>4. paidOut'[<<k, c>>] = paidOut[<<k, c>>] + d
    BY <1>5, <1>6
  <2>5. InFlight(k, c)' = InFlight(k, c) - d
    BY <1>2, <1>3, <1>7, <2>1
  <2>6. InDoubt(k, c)' = InDoubt(k, c)
    BY <1>3, <1>7
  <2> HIDE DEF d
  <2>7. QED
    BY <1>1, <2>1, <2>2, <2>3, <2>4, <2>5, <2>6
<1>11. MoneyIsTraced'
  BY <1>1, <1>3, <1>8, <1>9, <1>10, TracedStep
<1>12. QED
  BY <1>8, <1>11

-----------------------------------------------------------------------------
(* What is held *)

\* What leaves payouts and withdrawable balances alone keeps what is held.
LEMMA HeldSame ==
  ASSUME HeldIsCovered, payout' = payout,
         \A a \in Account : Locked(a) =>
           withdrawable'[<<a, payout[a].channel>>] = withdrawable[<<a, payout[a].channel>>]
  PROVE  HeldIsCovered'
BY DEF HeldIsCovered, Locked

\* A sale waits for the accounts that are locked.
LEMMA SaleCovers ==
  ASSUME PayoutTypeOK, HeldIsCovered, payout' = payout, LocksRespected
  PROVE  HeldIsCovered'
<1>1. ASSUME NEW a \in Account, Locked(a)
      PROVE  withdrawable'[<<a, payout[a].channel>>] = withdrawable[<<a, payout[a].channel>>]
  <2>1. payout[a] \in Holder /\ payout[a] # NoPayout
    BY <1>1 DEF PayoutTypeOK, Locked
  <2>2. payout[a].channel \in Channel
    BY <2>1 DEF Holder
  <2>3. QED
    BY <1>1, <2>2 DEF LocksRespected, Untouched
<1>2. QED
  BY <1>1, HeldSame

\* A bill waits for the account of its merchant.
LEMMA SettleCovers ==
  ASSUME TypeOK, PayoutTypeOK, HeldIsCovered, payout' = payout,
         NEW m \in Account, NEW w \in Nat, NEW v \in Nat, Settle(m, w, v), ~Locked(m)
  PROVE  HeldIsCovered'
<1>1. ASSUME NEW a \in Account, Locked(a)
      PROVE  withdrawable'[<<a, payout[a].channel>>] = withdrawable[<<a, payout[a].channel>>]
  <2>1. payout[a] \in Holder /\ payout[a] # NoPayout /\ a # m
    BY <1>1 DEF PayoutTypeOK, Locked
  <2>2. payout[a].channel \in Channel
    BY <2>1 DEF Holder
  <2>3. /\ withdrawable \in [Purse -> Int] /\ <<a, payout[a].channel>> \in Purse
        /\ withdrawable' = Add(Add(withdrawable, <<m, "WECHAT">>, -w), <<m, "ALIPAY">>, -v)
    BY <2>2 DEF TypeOK, Purse, Settle
  <2>4. QED
    BY <2>1, <2>3 DEF Add
<1>2. QED
  BY <1>1, HeldSame

\* A payout is held when the purse covers it, and nothing leaves the purse
\* until it is let go.
LEMMA PayoutCovers ==
  ASSUME TypeOK, PayoutTypeOK, HeldIsCovered, PayoutStep
  PROVE  HeldIsCovered'
<1> DEFINE Cover(k) == withdrawable[<<k, payout[k].channel>>] >= payout[k].amount
<1>1. payout \in [Account -> Holder] /\ withdrawable \in [Purse -> Int]
  BY DEF PayoutTypeOK, TypeOK
<1>2. ASSUME NEW r \in Request, NEW a \in Account, NEW ch \in Channel, NEW n \in Amount,
             Ask(r, a, ch, n)
      PROVE  HeldIsCovered'
  BY <1>2, HeldSame DEF Ask, vars
<1>3. ASSUME NEW r \in Request, RefusePayout(r)
      PROVE  HeldIsCovered'
  BY <1>3, HeldSame DEF RefusePayout, vars
<1>4. ASSUME NEW r \in Request, BeginPayout(r)
      PROVE  HeldIsCovered'
  <2> DEFINE a == requests[r].account
             ch == requests[r].channel
             n == requests[r].amount
  <2>1. /\ a \in Account /\ withdrawable' = withdrawable /\ withdrawable[<<a, ch>>] >= n
        /\ payout' = [payout EXCEPT ![a] = At("call", ch, n)]
    BY <1>4, RequestType DEF BeginPayout, Suffices, vars
  <2> HIDE DEF a, ch, n
  <2>2. payout'[a].channel = ch /\ payout'[a].amount = n
    BY <1>1, <2>1 DEF At
  <2>3. \A k \in Account : k # a => payout'[k] = payout[k]
    BY <1>1, <2>1
  <2>4. QED
    BY <2>1, <2>2, <2>3 DEF HeldIsCovered, Locked
<1>5. ASSUME NEW a \in Account, CallProvider(a)
      PROVE  HeldIsCovered'
  <2>1. /\ withdrawable' = withdrawable /\ payout[a].pc = "call"
        /\ \E pc \in {"paid", "error"} :
             payout' = [payout EXCEPT ![a] = At(pc, payout[a].channel, payout[a].amount)]
    BY <1>5 DEF CallProvider, vars
  <2>2. Locked(a)
    BY <2>1, HolderType
  <2>3. payout'[a].channel = payout[a].channel /\ payout'[a].amount = payout[a].amount
    BY <1>1, <2>1 DEF At
  <2>4. \A k \in Account : k # a => payout'[k] = payout[k]
    BY <1>1, <2>1
  <2>5. QED
    BY <2>1, <2>2, <2>3, <2>4 DEF HeldIsCovered, Locked
<1>6. ASSUME NEW a \in Account, Release(a),
             \A k \in Account, c \in Channel : k # a =>
               withdrawable'[<<k, c>>] = withdrawable[<<k, c>>]
      PROVE  HeldIsCovered'
  <2>1. /\ payout'[a] = NoPayout
        /\ \A k \in Account : k # a => payout'[k] = payout[k]
    BY <1>1, <1>6 DEF Release
  <2>2. \A k \in Account : Locked(k) => payout[k].channel \in Channel
    BY <1>1 DEF Locked, Holder
  <2>3. QED
    BY <1>6, <2>1, <2>2 DEF HeldIsCovered, Locked
<1>7. ASSUME NEW a \in Account, RollBackPayout(a) \/ PayoutDies(a)
      PROVE  HeldIsCovered'
  BY <1>6, <1>7 DEF RollBackPayout, PayoutDies, vars
<1>8. ASSUME NEW a \in Account, CommitPayout(a)
      PROVE  HeldIsCovered'
  <2>1. Release(a) /\ \E c, n : withdrawable' = Add(withdrawable, <<a, c>>, n)
    BY <1>8 DEF CommitPayout, TakeOut
  <2>2. \A k \in Account, c \in Channel : k # a =>
          withdrawable'[<<k, c>>] = withdrawable[<<k, c>>]
    BY <1>1, <2>1 DEF Add, Purse
  <2>3. QED
    BY <1>6, <2>1, <2>2
<1>9. QED
  BY <1>2, <1>3, <1>4, <1>5, <1>7, <1>8 DEF PayoutStep

-----------------------------------------------------------------------------
(* Bills *)

\* What keeps a finished payment and the terms of the coupons keeps what is
\* earned.
EarnedStays ==
  /\ CouponsKept
  /\ \A q \in Serial : payments[q].status = "FINISHED" =>
       payments'[q] = payments[q] /\ placed'[q] = placed[q]

\* Bills and agenda stay earned as long as no finished payment changes.
LEMMA BillsStay ==
  ASSUME TreasuryInvariant, LedgerInvariant', EarnedStays, day' \in Nat, day' >= day,
         bills' = bills, agenda' = agenda
  PROVE  DueIsEarned' /\ BillIsEarned' /\ OneInProcess'
<1> USE DEF TreasuryInvariant
<1>1. ASSUME NEW m, NEW ch, NEW d
      PROVE  /\ Earned(m, ch, d) \in Int /\ Earned(m, ch, d)' \in Int
             /\ Earned(m, ch, d) <= Earned(m, ch, d)'
  BY EarnedGrows DEF EarnedStays
<1>2. day \in Nat
  BY DEF SettlementTypeOK
<1>3. DueIsEarned'
  <2>1. ASSUME NEW b \in agenda
        PROVE  (/\ b.day <= day
                /\ b.wechat <= Earned(b.merchant, "WECHAT", b.day - 1)
                /\ b.alipay <= Earned(b.merchant, "ALIPAY", b.day - 1))'
    <3>1. b.day \in Nat /\ b.wechat \in Nat /\ b.alipay \in Nat
      BY DEF SettlementTypeOK, DueBill
    <3>2. /\ b.day <= day
          /\ b.wechat <= Earned(b.merchant, "WECHAT", b.day - 1)
          /\ b.alipay <= Earned(b.merchant, "ALIPAY", b.day - 1)
      BY DEF DueIsEarned
    <3>3. QED
      BY <1>1, <1>2, <3>1, <3>2
  <2>2. QED
    BY <2>1 DEF DueIsEarned
<1>4. BillIsEarned'
  <2>1. ASSUME NEW m \in Enterprise, NEW i \in DOMAIN bills[m]
        PROVE  /\ bills[m][i].day <= day'
               /\ \E s : /\ s = bills[m][i].sold
                         /\ bills[m][i].wechat <= Earned(m, "WECHAT", s)'
                         /\ bills[m][i].alipay <= Earned(m, "ALIPAY", s)'
    <3>1. bills[m][i] \in Bill
      BY DEF SettlementTypeOK
    <3>2. PICK s : s = bills[m][i].sold
      OBVIOUS
    <3>3. /\ bills[m][i].day <= day
          /\ bills[m][i].wechat <= Earned(m, "WECHAT", s)
          /\ bills[m][i].alipay <= Earned(m, "ALIPAY", s)
      BY <3>2 DEF BillIsEarned
    <3>4. /\ bills[m][i].day \in Nat /\ bills[m][i].wechat \in Nat
          /\ bills[m][i].alipay \in Nat
      BY <3>1 DEF Bill
    <3>5. QED
      BY <1>1, <1>2, <3>2, <3>3, <3>4
  <2>2. QED
    BY <2>1 DEF BillIsEarned
<1>5. OneInProcess'
  BY DEF OneInProcess
<1>6. QED
  BY <1>3, <1>4, <1>5

\* A step that does not touch payments and coupons keeps what is earned.
LEMMA SameSales ==
  ASSUME CouponTerms, payments' = payments, coupons' = coupons, placed' = placed
  PROVE  EarnedStays
BY SameCoupons DEF EarnedStays

\* A sale keeps the treasury.
LEMMA SaleKeeps ==
  ASSUME TreasuryInvariant, Sale
  PROVE  TreasuryInvariant'
<1> USE DEF TreasuryInvariant
<1>1. PICK p \in Serial : PaymentStep(p)
  BY DEF Sale
<1>2. /\ Dated /\ day' = day /\ bills' = bills /\ agenda' = agenda /\ runs' = runs
      /\ requests' = requests /\ payout' = payout /\ sent' = sent /\ failed' = failed
      /\ lost' = lost /\ crashes' = crashes
  BY DEF Sale, payoutVars, counters
<1>3. LedgerInvariant'
  BY <1>1, NextLedger DEF Next
<1>4. TypeOK /\ TypeOK'
  BY <1>3 DEF LedgerInvariant
<1>5. CouponsKept /\ OthersKept(p) /\ paidOut' = paidOut /\ payments[p].status # "FINISHED"
  BY <1>1, PaymentKeeps DEF LedgerInvariant
<1>6. /\ day \in Nat /\ placed \in [Serial -> Nat]
  BY DEF SettlementTypeOK
<1>7. /\ placed' \in [Serial -> Nat]
      /\ \A q \in Serial : payments[q].status = "FINISHED" => placed'[q] = placed[q]
  BY <1>2, <1>6 DEF Dated
<1>8. EarnedStays
  BY <1>5, <1>7 DEF EarnedStays, OthersKept
<1>9. SettlementTypeOK'
  BY <1>2, <1>7 DEF SettlementTypeOK
<1>10. PayoutTypeOK'
  BY <1>2 DEF PayoutTypeOK, Locked
<1>11. \A a \in Account, ch \in Channel : Settled(a, ch)' = Settled(a, ch)
  BY <1>2, SettledSame
<1>12. MoneyIsTraced'
  BY <1>2, <1>4, <1>5, <1>9, <1>10, <1>11, NothingSent
<1>13. DueIsEarned' /\ BillIsEarned' /\ OneInProcess'
  BY <1>2, <1>3, <1>6, <1>8, BillsStay
<1>14. HeldIsCovered'
  BY <1>2, SaleCovers DEF Sale
<1>15. QED
  BY <1>3, <1>9, <1>10, <1>12, <1>13, <1>14

\* So does every step of a payout.
LEMMA PayoutKeeps ==
  ASSUME TreasuryInvariant, PayoutStep, days' = days
  PROVE  TreasuryInvariant'
<1>0. /\ LedgerInvariant /\ TypeOK /\ CouponTerms /\ PayoutTypeOK /\ SettlementTypeOK
      /\ MoneyIsTraced /\ HeldIsCovered
  BY DEF TreasuryInvariant, LedgerInvariant
<1>1. MoneyOut \/ vars' = vars
  <2>1. ASSUME NEW r \in Request, NEW a \in Account, NEW ch \in Channel, NEW n \in Amount,
               Ask(r, a, ch, n)
        PROVE  vars' = vars
    BY <2>1 DEF Ask
  <2>2. ASSUME NEW r \in Request, BeginPayout(r) \/ RefusePayout(r)
        PROVE  vars' = vars
    BY <2>2 DEF BeginPayout, RefusePayout
  <2>3. ASSUME NEW a \in Account, CallProvider(a) \/ RollBackPayout(a) \/ PayoutDies(a)
        PROVE  vars' = vars
    BY <2>3 DEF CallProvider, RollBackPayout, PayoutDies
  <2>4. ASSUME NEW a \in Account, CommitPayout(a)
        PROVE  MoneyOut
    BY <1>0, <2>4, CommitIsOut
  <2>5. QED
    BY <2>1, <2>2, <2>3, <2>4 DEF PayoutStep
<1>2. LedgerInvariant'
  BY <1>0, <1>1, NextLedger DEF Next
<1>3. TypeOK'
  BY <1>2 DEF LedgerInvariant
<1>4. payments' = payments /\ coupons' = coupons
  BY <1>1 DEF MoneyOut, Withdraw, Transfer, Settle, vars
<1>5. PayoutTypeOK' /\ MoneyIsTraced'
  BY <1>0, <1>3, AskTraced, BeginPayoutTraced, RefusePayoutTraced, CallProviderTraced,
     RollBackPayoutTraced, PayoutDiesTraced, CommitPayoutTraced DEF PayoutStep
<1>6. SettlementTypeOK'
  BY <1>0, PayoutKeepsBills
<1>7. /\ day' = day /\ day \in Nat /\ placed' = placed /\ bills' = bills
      /\ agenda' = agenda
  BY <1>0 DEF days, SettlementTypeOK
<1>8. EarnedStays
  BY <1>0, <1>4, <1>7, SameSales
<1>9. DueIsEarned' /\ BillIsEarned' /\ OneInProcess'
  BY <1>2, <1>7, <1>8, BillsStay
<1>10. HeldIsCovered'
  BY <1>0, PayoutCovers
<1>11. QED
  BY <1>2, <1>5, <1>6, <1>9, <1>10 DEF TreasuryInvariant

\* The amount the timer computes is what the sales of yesterday earned.
LEMMA BilledIsEarned ==
  ASSUME TypeOK, PartsNotNegative, NEW m, NEW ch
  PROVE  Billed(m, ch) = Earned(m, ch, day - 1) /\ Billed(m, ch) \in Nat
<1> DEFINE f == EarnedOf(m, ch, day - 1)
<1>1. Billed(m, ch) = Earned(m, ch, day - 1)
  BY DEF Billed, BilledPayment, Earned
<1>2. /\ Earned(m, ch, day - 1) = SumTo(f, NPayments)
      /\ \A p \in 1..NPayments : f[p] \in Int /\ f[p] >= 0
  BY EarnedTerms
<1>3. NPayments \in Nat
  OBVIOUS
<1> HIDE DEF f
<1>4. SumTo(f, NPayments) \in Int /\ SumTo(f, NPayments) >= 0
  BY <1>2, <1>3, SumToNonNegative
<1>5. QED
  BY <1>1, <1>2, <1>4

\* A call of the timer computes bills that are earned.
LEMMA StartSettlementKeeps ==
  ASSUME TreasuryInvariant, StartSettlement, payoutVars' = payoutVars
  PROVE  TreasuryInvariant'
<1>0. /\ LedgerInvariant /\ TypeOK /\ CouponTerms /\ PartsNotNegative /\ PayoutTypeOK
      /\ SettlementTypeOK /\ MoneyIsTraced /\ DueIsEarned /\ BillIsEarned /\ OneInProcess
  BY DEF TreasuryInvariant, LedgerInvariant
<1> DEFINE DueOf(m) == [run |-> runs, merchant |-> m, day |-> day,
                        wechat |-> Billed(m, "WECHAT"), alipay |-> Billed(m, "ALIPAY")]
<1>1. /\ vars' = vars /\ day' = day /\ placed' = placed /\ bills' = bills
      /\ runs' = runs + 1
      /\ \A b \in agenda' : b \in agenda \/ \E m \in Enterprise : b = DueOf(m)
  BY DEF StartSettlement
<1>2. LedgerInvariant'
  BY <1>0, <1>1, NextLedger
<1>3. TypeOK' /\ payments' = payments /\ coupons' = coupons /\ paidOut' = paidOut
  BY <1>1, <1>2 DEF LedgerInvariant, vars
<1>4. /\ requests' = requests /\ payout' = payout /\ sent' = sent /\ failed' = failed
      /\ lost' = lost /\ crashes' = crashes
  BY DEF payoutVars, counters
<1>5. PayoutTypeOK'
  BY <1>0, <1>4 DEF PayoutTypeOK, Locked
<1>6. /\ day \in Nat /\ runs \in Nat /\ agenda \subseteq DueBill
  BY <1>0 DEF SettlementTypeOK
<1>7. ASSUME NEW m \in Enterprise
      PROVE  /\ DueOf(m) \in DueBill
             /\ DueOf(m).day = day /\ DueOf(m).merchant = m
             /\ DueOf(m).wechat = Earned(m, "WECHAT", day - 1)
             /\ DueOf(m).alipay = Earned(m, "ALIPAY", day - 1)
             /\ DueOf(m).wechat \in Nat /\ DueOf(m).alipay \in Nat
  <2>1. /\ Billed(m, "WECHAT") = Earned(m, "WECHAT", day - 1)
        /\ Billed(m, "ALIPAY") = Earned(m, "ALIPAY", day - 1)
        /\ Billed(m, "WECHAT") \in Nat /\ Billed(m, "ALIPAY") \in Nat
    BY <1>0, BilledIsEarned
  <2>2. QED
    BY <1>6, <2>1 DEF DueBill
<1> HIDE DEF DueOf
<1>8. SettlementTypeOK'
  <2>1. agenda' \subseteq DueBill
    BY <1>1, <1>6, <1>7
  <2>2. QED
    BY <1>0, <1>1, <1>6, <2>1 DEF SettlementTypeOK
<1>9. MoneyIsTraced'
  <2>1. \A a \in Account, ch \in Channel : Settled(a, ch)' = Settled(a, ch)
    BY <1>0, <1>1, SettledSame
  <2>2. QED
    BY <1>0, <1>3, <1>4, <1>5, <1>8, <2>1, NothingSent
<1>10. ASSUME NEW m, NEW ch, NEW d
       PROVE  Earned(m, ch, d)' = Earned(m, ch, d)
  BY <1>1, <1>3 DEF Earned, MerchantPart, PaidPrice, Discount, HasCoupon
<1>11. DueIsEarned'
  <2>1. ASSUME NEW b \in agenda'
        PROVE  /\ b.day <= day
               /\ b.wechat <= Earned(b.merchant, "WECHAT", b.day - 1)
               /\ b.alipay <= Earned(b.merchant, "ALIPAY", b.day - 1)
    <3>1. CASE b \in agenda
      BY <1>0, <3>1 DEF DueIsEarned
    <3>2. CASE b \notin agenda
      <4>1. PICK m \in Enterprise : b = DueOf(m)
        BY <1>1, <2>1, <3>2
      <4>2. QED
        BY <1>6, <1>7, <4>1
    <3>3. QED
      BY <3>1, <3>2
  <2>2. ASSUME NEW b \in agenda'
        PROVE  /\ b.day <= day'
               /\ b.wechat <= Earned(b.merchant, "WECHAT", b.day - 1)'
               /\ b.alipay <= Earned(b.merchant, "ALIPAY", b.day - 1)'
    BY <1>1, <1>10, <2>1
  <2>3. QED
    BY <2>2 DEF DueIsEarned
<1>12. BillIsEarned'
  <2>1. ASSUME NEW m \in Enterprise, NEW i \in DOMAIN bills[m]
        PROVE  /\ bills[m][i].day <= day'
               /\ \E s : /\ s = bills[m][i].sold
                         /\ bills[m][i].wechat <= Earned(m, "WECHAT", s)'
                         /\ bills[m][i].alipay <= Earned(m, "ALIPAY", s)'
    <3>1. PICK s : s = bills[m][i].sold
      OBVIOUS
    <3>2. QED
      BY <1>0, <1>1, <1>10, <3>1 DEF BillIsEarned
  <2>2. QED
    BY <1>1, <2>1 DEF BillIsEarned
<1>13. OneInProcess'
  BY <1>0, <1>1 DEF OneInProcess
<1>14. HeldIsCovered'
  BY <1>1, <1>4, HeldSame DEF TreasuryInvariant, vars
<1>15. QED
  BY <1>2, <1>5, <1>8, <1>9, <1>11, <1>12, <1>13, <1>14 DEF TreasuryInvariant

\* A bill that is settled was earned when it was computed and is the only one
\* of its day in process.
LEMMA SettleBillKeeps ==
  ASSUME TreasuryInvariant, NEW b \in agenda, ~Locked(b.merchant), SettleBill(b),
         payoutVars' = payoutVars
  PROVE  TreasuryInvariant'
<1> DEFINE m == b.merchant
           new == [day |-> day, sold |-> b.day - 1, status |-> "PROCESSING",
                   wechat |-> b.wechat, alipay |-> b.alipay]
<1>0. /\ LedgerInvariant /\ TypeOK /\ CouponTerms /\ PayoutTypeOK
      /\ SettlementTypeOK /\ MoneyIsTraced /\ DueIsEarned /\ BillIsEarned /\ OneInProcess
  BY DEF TreasuryInvariant, LedgerInvariant
<1>1. /\ agenda' = agenda \ {b} /\ day' = day /\ placed' = placed /\ runs' = runs
      /\ \/ /\ ~Duplicate(m) /\ Settle(m, b.wechat, b.alipay)
            /\ bills' = [bills EXCEPT ![m] = Append(@, new)]
         \/ vars' = vars /\ bills' = bills
  BY DEF SettleBill
<1>2. /\ m \in Enterprise /\ b.wechat \in Nat /\ b.alipay \in Nat /\ b.day \in Nat
      /\ day \in Nat /\ runs \in Nat /\ agenda \subseteq DueBill
      /\ bills \in [Enterprise -> Seq(Bill)]
  BY <1>0 DEF SettlementTypeOK, DueBill
<1>3. /\ new \in Bill /\ new.day = day /\ new.sold = b.day - 1
      /\ new.wechat = b.wechat /\ new.alipay = b.alipay /\ new.status = "PROCESSING"
  BY <1>2 DEF Bill
<1> HIDE DEF m, new
<1>4. /\ requests' = requests /\ payout' = payout /\ sent' = sent /\ failed' = failed
      /\ lost' = lost /\ crashes' = crashes
  BY DEF payoutVars, counters
<1>5. LedgerInvariant'
  <2>1. CASE Settle(m, b.wechat, b.alipay)
    BY <1>0, <1>2, <2>1, SettleType, SettleLedger
  <2>2. CASE vars' = vars
    BY <1>0, <2>2, NextLedger
  <2>3. QED
    BY <1>1, <2>1, <2>2
<1>6. TypeOK' /\ payments' = payments /\ coupons' = coupons
  BY <1>1, <1>5 DEF LedgerInvariant, vars, Settle
<1>7. PayoutTypeOK'
  BY <1>0, <1>4 DEF PayoutTypeOK, Locked
<1>8. SettlementTypeOK'
  <2>1. bills' \in [Enterprise -> Seq(Bill)]
    <3>1. CASE bills' = [bills EXCEPT ![m] = Append(@, new)]
      <4>1. Append(bills[m], new) \in Seq(Bill)
        BY <1>2, <1>3
      <4>2. QED
        BY <1>2, <3>1, <4>1
    <3>2. QED
      BY <1>1, <1>2, <3>1
  <2>2. QED
    BY <1>0, <1>1, <1>2, <2>1 DEF SettlementTypeOK
<1>9. MoneyIsTraced'
  <2>1. ASSUME NEW a \in Account, NEW ch \in Channel
        PROVE  Settled(a, ch)' - paidOut'[<<a, ch>>] = Settled(a, ch) - paidOut[<<a, ch>>]
    <3>1. Settled(a, ch) \in Int /\ paidOut[<<a, ch>>] \in Int
      BY <1>0, TermTypes
    <3>2. CASE Settle(m, b.wechat, b.alipay) /\ bills' = [bills EXCEPT ![m] = Append(@, new)]
      <4>1. Settled(a, ch)' = Settled(a, ch) + (IF a = m THEN On(new, ch) ELSE 0)
        BY <1>0, <1>2, <1>3, <3>2, SettledAppend
      <4>2. On(new, ch) = IF ch = "WECHAT" THEN b.wechat ELSE b.alipay
        BY <1>3 DEF On
      <4>3. paidOut'[<<a, ch>>] = paidOut[<<a, ch>>] + (IF a = m THEN On(new, ch) ELSE 0)
        <5>1. paidOut' = Add(Add(paidOut, <<m, "WECHAT">>, b.wechat),
                             <<m, "ALIPAY">>, b.alipay)
          BY <3>2 DEF Settle
        <5>2. /\ paidOut \in [Purse -> Int] /\ m \in Account
              /\ "WECHAT" \in Channel /\ "ALIPAY" \in Channel
              /\ b.wechat \in Nat /\ b.alipay \in Nat
          BY <1>0, <1>2 DEF TypeOK, Account, Channel
        <5>3. /\ Add(paidOut, <<m, "WECHAT">>, b.wechat) \in [Purse -> Int]
              /\ Add(paidOut, <<m, "WECHAT">>, b.wechat)[<<a, ch>>]
                   = paidOut[<<a, ch>>] + (IF a = m /\ ch = "WECHAT" THEN b.wechat ELSE 0)
          <6> DEFINE n == b.wechat
          <6>1. n \in Nat
            BY <5>2
          <6> HIDE DEF n
          <6>2. /\ Add(paidOut, <<m, "WECHAT">>, n) \in [Purse -> Int]
                /\ \A k \in Account, c \in Channel :
                     Add(paidOut, <<m, "WECHAT">>, n)[<<k, c>>]
                       = paidOut[<<k, c>>] + (IF k = m /\ c = "WECHAT" THEN n ELSE 0)
            BY <5>2, <6>1, AddedTo, SMTT(60)
          <6>3. QED
            BY <6>2 DEF n
        <5> DEFINE first == Add(paidOut, <<m, "WECHAT">>, b.wechat)
        <5> HIDE DEF first
        <5>4. first \in [Purse -> Int]
          BY <5>3 DEF first
        <5>5. Add(first, <<m, "ALIPAY">>, b.alipay)[<<a, ch>>]
                = first[<<a, ch>>] + (IF a = m /\ ch = "ALIPAY" THEN b.alipay ELSE 0)
          BY <5>2, <5>4, AddedTo
        <5>6. first[<<a, ch>>]
                = paidOut[<<a, ch>>] + (IF a = m /\ ch = "WECHAT" THEN b.wechat ELSE 0)
          BY <5>3 DEF first
        <5>7. paidOut' = Add(first, <<m, "ALIPAY">>, b.alipay)
          BY <5>1 DEF first
        <5>8. QED
          BY <1>2, <3>1, <4>2, <5>5, <5>6, <5>7 DEF Channel
      <4>4. On(new, ch) \in Nat
        BY <1>2, <4>2
      <4>5. QED
        BY <3>1, <4>1, <4>3, <4>4
    <3>3. CASE vars' = vars /\ bills' = bills
      <4>1. Settled(a, ch)' = Settled(a, ch)
        BY <1>0, <3>3, SettledSame
      <4>2. paidOut' = paidOut
        BY <3>3 DEF vars
      <4>3. QED
        BY <4>1, <4>2
    <3>4. QED
      BY <1>1, <3>2, <3>3
  <2>2. ASSUME NEW a \in Account, NEW ch \in Channel
        PROVE  /\ Excess(a, ch)' >= Excess(a, ch)
               /\ lost' = 0 /\ crashes' = 0 => Excess(a, ch)' = Excess(a, ch)
               /\ crashes' = 0 =>
                    Excess(a, ch)' - failed'[<<a, ch>>] - InDoubt(a, ch)'
                      <= Excess(a, ch) - failed[<<a, ch>>] - InDoubt(a, ch)
    <3>1. /\ sent[<<a, ch>>] \in Int /\ Settled(a, ch) \in Int
          /\ paidOut[<<a, ch>>] \in Int /\ failed[<<a, ch>>] \in Int
          /\ InFlight(a, ch) \in Nat /\ InDoubt(a, ch) \in Nat
      BY <1>0, TermTypes
    <3>2. paidOut'[<<a, ch>>] \in Int /\ Settled(a, ch)' \in Int
      BY <1>6, <1>7, <1>8, TermTypesNext
    <3>3. InFlight(a, ch)' = InFlight(a, ch) /\ InDoubt(a, ch)' = InDoubt(a, ch)
      BY <1>4 DEF InFlight, InDoubt
    <3>4. /\ Excess(a, ch)' = sent[<<a, ch>>] + Settled(a, ch)' - paidOut'[<<a, ch>>]
                                - InFlight(a, ch)
          /\ Excess(a, ch) = sent[<<a, ch>>] + Settled(a, ch) - paidOut[<<a, ch>>]
                               - InFlight(a, ch)
      BY <1>4, <3>3 DEF Excess
    <3>5. QED
      BY <1>4, <2>1, <3>1, <3>2, <3>3, <3>4
  <2>3. lost \in Nat /\ crashes \in Nat
    BY <1>0 DEF PayoutTypeOK
  <2>4. QED
    BY <1>0, <1>4, <1>6, <1>7, <1>8, <2>2, <2>3, TracedStep
<1>10. ASSUME NEW n, NEW ch, NEW d
       PROVE  Earned(n, ch, d)' = Earned(n, ch, d)
  BY <1>1, <1>6 DEF Earned, MerchantPart, PaidPrice, Discount, HasCoupon
<1>11. DueIsEarned'
  <2>1. ASSUME NEW c \in agenda'
        PROVE  /\ c.day <= day'
               /\ c.wechat <= Earned(c.merchant, "WECHAT", c.day - 1)'
               /\ c.alipay <= Earned(c.merchant, "ALIPAY", c.day - 1)'
    BY <1>0, <1>1, <1>10 DEF DueIsEarned
  <2>2. QED
    BY <2>1 DEF DueIsEarned
<1>12. ASSUME NEW n \in Enterprise, NEW i \in DOMAIN bills'[n]
       PROVE  \/ i \in DOMAIN bills[n] /\ bills'[n][i] = bills[n][i]
              \/ /\ n = m /\ i = Len(bills[m]) + 1 /\ bills'[n][i] = new
                 /\ ~Duplicate(m)
  <2>1. CASE /\ ~Duplicate(m)
             /\ bills' = [bills EXCEPT ![m] = Append(@, new)]
    <3>1. bills[n] \in Seq(Bill) /\ bills[m] \in Seq(Bill)
      BY <1>2
    <3>2. CASE n # m
      BY <1>2, <2>1, <3>2
    <3>3. CASE n = m
      <4>1. bills'[n] = Append(bills[m], new)
        BY <1>2, <2>1, <3>3
      <4>2. QED
        BY <1>12, <2>1, <3>1, <3>3, <4>1
    <3>4. QED
      BY <3>2, <3>3
  <2>2. QED
    BY <1>1, <1>12, <2>1
<1>13. BillIsEarned'
  <2>1. ASSUME NEW n \in Enterprise, NEW i \in DOMAIN bills'[n]
        PROVE  /\ bills'[n][i].day <= day'
               /\ \E s : /\ s = bills'[n][i].sold
                         /\ bills'[n][i].wechat <= Earned(n, "WECHAT", s)'
                         /\ bills'[n][i].alipay <= Earned(n, "ALIPAY", s)'
    <3>1. PICK s : s = bills'[n][i].sold
      OBVIOUS
    <3>2. CASE i \in DOMAIN bills[n] /\ bills'[n][i] = bills[n][i]
      <4>1. /\ bills[n][i].day <= day
            /\ bills[n][i].wechat <= Earned(n, "WECHAT", bills[n][i].sold)
            /\ bills[n][i].alipay <= Earned(n, "ALIPAY", bills[n][i].sold)
        BY <1>0, <3>2 DEF BillIsEarned
      <4>2. QED
        BY <1>1, <1>10, <3>1, <3>2, <4>1
    <3>3. CASE n = m /\ bills'[n][i] = new
      <4>1. /\ b.wechat <= Earned(m, "WECHAT", b.day - 1)
            /\ b.alipay <= Earned(m, "ALIPAY", b.day - 1)
        BY <1>0 DEF DueIsEarned, m
      <4>2. QED
        BY <1>1, <1>2, <1>3, <1>10, <3>1, <3>3, <4>1
    <3>4. QED
      BY <1>12, <3>2, <3>3
  <2>2. QED
    BY <2>1 DEF BillIsEarned
<1>14. OneInProcess'
  <2> SUFFICES ASSUME NEW n \in Enterprise, NEW i \in DOMAIN bills'[n],
                      NEW j \in DOMAIN bills'[n], i # j,
                      bills'[n][i].status = "PROCESSING",
                      bills'[n][j].status = "PROCESSING"
               PROVE  bills'[n][i].day # bills'[n][j].day
    BY DEF OneInProcess
  <2>1. ASSUME ~Duplicate(m), NEW k \in DOMAIN bills[m], bills[m][k].status = "PROCESSING"
        PROVE  bills[m][k].day # day
    <3>1. ~(bills[m][k].day >= day)
      BY <2>1 DEF Duplicate
    <3>2. QED
      BY <1>2, <3>1
  <2>2. CASE /\ i \in DOMAIN bills[n] /\ bills'[n][i] = bills[n][i]
             /\ j \in DOMAIN bills[n] /\ bills'[n][j] = bills[n][j]
    BY <1>0, <2>2 DEF OneInProcess
  <2>3. CASE /\ i \in DOMAIN bills[n] /\ bills'[n][i] = bills[n][i]
             /\ n = m /\ bills'[n][j] = new /\ ~Duplicate(m)
    BY <1>3, <2>1, <2>3
  <2>4. CASE /\ j \in DOMAIN bills[n] /\ bills'[n][j] = bills[n][j]
             /\ n = m /\ bills'[n][i] = new /\ ~Duplicate(m)
    BY <1>3, <2>1, <2>4
  <2>5. QED
    BY <1>12, <2>2, <2>3, <2>4
<1>15. HeldIsCovered'
  <2>1. CASE Settle(m, b.wechat, b.alipay)
    <3>1. ~Locked(m) /\ m \in Account
      BY <1>2, AccountAssumption DEF m, Account
    <3>2. QED
      BY <1>0, <1>2, <1>4, <2>1, <3>1, SettleCovers DEF TreasuryInvariant
  <2>2. CASE vars' = vars
    BY <1>4, <2>2, HeldSame DEF TreasuryInvariant, vars
  <2>3. QED
    BY <1>1, <2>1, <2>2
<1>16. QED
  BY <1>5, <1>7, <1>8, <1>9, <1>11, <1>13, <1>14, <1>15 DEF TreasuryInvariant

\* A bill that is marked finished keeps its amounts.
LEMMA MarkFinishedKeeps ==
  ASSUME TreasuryInvariant, NEW m \in Enterprise, NEW i \in DOMAIN bills[m],
         MarkFinished(m, i), payoutVars' = payoutVars
  PROVE  TreasuryInvariant'
<1>0. /\ LedgerInvariant /\ TypeOK /\ CouponTerms /\ PayoutTypeOK
      /\ SettlementTypeOK /\ MoneyIsTraced /\ BillIsEarned /\ OneInProcess /\ DueIsEarned
  BY DEF TreasuryInvariant, LedgerInvariant
<1>1. /\ vars' = vars /\ day' = day /\ placed' = placed /\ agenda' = agenda /\ runs' = runs
      /\ bills' = [bills EXCEPT ![m][i].status = "FINISHED"]
  BY DEF MarkFinished
<1>2. bills \in [Enterprise -> Seq(Bill)] /\ bills[m] \in Seq(Bill) /\ i \in 1..Len(bills[m])
      /\ bills[m][i] \in Bill
  BY <1>0 DEF SettlementTypeOK
<1> DEFINE marked == [bills[m][i] EXCEPT !.status = "FINISHED"]
<1>3. /\ marked \in Bill /\ marked.status = "FINISHED" /\ marked.day = bills[m][i].day
      /\ marked.sold = bills[m][i].sold /\ marked.wechat = bills[m][i].wechat
      /\ marked.alipay = bills[m][i].alipay
  BY <1>2 DEF Bill
<1>4. /\ bills'[m] = [bills[m] EXCEPT ![i] = marked]
      /\ \A n \in Enterprise : n # m => bills'[n] = bills[n]
  BY <1>1, <1>2
<1> HIDE DEF marked
<1>5. /\ bills'[m] \in Seq(Bill) /\ Len(bills'[m]) = Len(bills[m])
      /\ bills'[m][i] = marked
      /\ \A k \in 1..Len(bills[m]) : k # i => bills'[m][k] = bills[m][k]
  BY <1>2, <1>3, <1>4
<1>6. ASSUME NEW n \in Enterprise
      PROVE  /\ Len(bills'[n]) = Len(bills[n]) /\ DOMAIN bills'[n] = DOMAIN bills[n]
             /\ \A k \in DOMAIN bills[n] :
                  /\ bills'[n][k].status = "PROCESSING" => bills[n][k].status = "PROCESSING"
                  /\ bills'[n][k].day = bills[n][k].day
                  /\ bills'[n][k].sold = bills[n][k].sold
                  /\ bills'[n][k].wechat = bills[n][k].wechat
                  /\ bills'[n][k].alipay = bills[n][k].alipay
  <2>1. CASE n = m
    <3>1. DOMAIN bills[m] = 1..Len(bills[m]) /\ DOMAIN bills'[m] = 1..Len(bills[m])
      BY <1>2, <1>5
    <3>2. QED
      BY <1>3, <1>5, <2>1, <3>1
  <2>2. CASE n # m
    BY <1>4, <2>2
  <2>3. QED
    BY <2>1, <2>2
<1>7. LedgerInvariant'
  BY <1>0, <1>1, NextLedger
<1>8. TypeOK' /\ payments' = payments /\ coupons' = coupons /\ paidOut' = paidOut
  BY <1>1, <1>7 DEF LedgerInvariant, vars
<1>9. /\ requests' = requests /\ payout' = payout /\ sent' = sent /\ failed' = failed
      /\ lost' = lost /\ crashes' = crashes
  BY DEF payoutVars, counters
<1>10. PayoutTypeOK'
  BY <1>0, <1>9 DEF PayoutTypeOK, Locked
<1>11. SettlementTypeOK'
  <2>1. bills' \in [Enterprise -> Seq(Bill)]
    <3>1. \A n \in Enterprise : bills'[n] \in Seq(Bill)
      BY <1>2, <1>4, <1>5
    <3>2. bills' = [n \in Enterprise |-> bills'[n]]
      BY <1>1, <1>2
    <3>3. QED
      BY <3>1, <3>2
  <2>2. QED
    BY <1>0, <1>1, <2>1 DEF SettlementTypeOK
<1>12. MoneyIsTraced'
  <2>1. ASSUME NEW a \in Account, NEW ch \in Channel
        PROVE  Settled(a, ch)' = Settled(a, ch)
    <3>1. a \in Enterprise => /\ Len(bills'[a]) = Len(bills[a])
                              /\ \A k \in 1..Len(bills[a]) :
                                   On(bills'[a][k], ch) = On(bills[a][k], ch)
      BY <1>2, <1>6 DEF On
    <3>2. QED
      BY <1>0, <3>1, SettledSame
  <2>2. QED
    BY <1>0, <1>8, <1>9, <1>10, <1>11, <2>1, NothingSent
<1>13. ASSUME NEW n, NEW ch, NEW d
       PROVE  Earned(n, ch, d)' = Earned(n, ch, d)
  BY <1>1, <1>8 DEF Earned, MerchantPart, PaidPrice, Discount, HasCoupon
<1>14. DueIsEarned'
  <2>1. ASSUME NEW c \in agenda
        PROVE  /\ c.day <= day'
               /\ c.wechat <= Earned(c.merchant, "WECHAT", c.day - 1)'
               /\ c.alipay <= Earned(c.merchant, "ALIPAY", c.day - 1)'
    BY <1>0, <1>1, <1>13 DEF DueIsEarned
  <2>2. QED
    BY <1>1, <2>1 DEF DueIsEarned
<1>15. BillIsEarned'
  <2>1. ASSUME NEW n \in Enterprise, NEW k \in DOMAIN bills'[n]
        PROVE  /\ bills'[n][k].day <= day'
               /\ \E s : /\ s = bills'[n][k].sold
                         /\ bills'[n][k].wechat <= Earned(n, "WECHAT", s)'
                         /\ bills'[n][k].alipay <= Earned(n, "ALIPAY", s)'
    <3>1. PICK s : s = bills'[n][k].sold
      OBVIOUS
    <3>2. /\ k \in DOMAIN bills[n] /\ s = bills[n][k].sold
          /\ bills'[n][k].day = bills[n][k].day
          /\ bills'[n][k].wechat = bills[n][k].wechat
          /\ bills'[n][k].alipay = bills[n][k].alipay
      BY <1>6, <3>1
    <3>3. /\ bills[n][k].day <= day
          /\ bills[n][k].wechat <= Earned(n, "WECHAT", s)
          /\ bills[n][k].alipay <= Earned(n, "ALIPAY", s)
      BY <1>0, <3>2 DEF BillIsEarned
    <3>4. QED
      BY <1>1, <1>13, <3>1, <3>2, <3>3
  <2>2. QED
    BY <2>1 DEF BillIsEarned
<1>16. OneInProcess'
  <2>1. ASSUME NEW n \in Enterprise, NEW k \in DOMAIN bills'[n], NEW l \in DOMAIN bills'[n],
               k # l, bills'[n][k].status = "PROCESSING",
               bills'[n][l].status = "PROCESSING"
        PROVE  bills'[n][k].day # bills'[n][l].day
    <3>1. /\ k \in DOMAIN bills[n] /\ l \in DOMAIN bills[n]
          /\ bills[n][k].status = "PROCESSING" /\ bills[n][l].status = "PROCESSING"
          /\ bills'[n][k].day = bills[n][k].day /\ bills'[n][l].day = bills[n][l].day
      BY <1>6, <2>1
    <3>2. QED
      BY <1>0, <2>1, <3>1 DEF OneInProcess
  <2>2. QED
    BY <2>1 DEF OneInProcess
<1>17. HeldIsCovered'
  BY <1>1, <1>9, HeldSame DEF TreasuryInvariant, vars
<1>18. QED
  BY <1>7, <1>10, <1>11, <1>12, <1>14, <1>15, <1>16, <1>17 DEF TreasuryInvariant

\* A new day keeps what was earned.
LEMMA DayPassesKeeps ==
  ASSUME TreasuryInvariant, DayPasses, payoutVars' = payoutVars
  PROVE  TreasuryInvariant'
<1>0. /\ LedgerInvariant /\ TypeOK /\ CouponTerms /\ PayoutTypeOK
      /\ SettlementTypeOK /\ MoneyIsTraced
  BY DEF TreasuryInvariant, LedgerInvariant
<1>1. /\ vars' = vars /\ day' = day + 1 /\ placed' = placed /\ bills' = bills
      /\ agenda' = agenda /\ runs' = runs
  BY DEF DayPasses
<1>2. LedgerInvariant'
  BY <1>0, <1>1, NextLedger
<1>3. TypeOK' /\ payments' = payments /\ coupons' = coupons /\ paidOut' = paidOut
  BY <1>1, <1>2 DEF LedgerInvariant, vars
<1>4. /\ requests' = requests /\ payout' = payout /\ sent' = sent /\ failed' = failed
      /\ lost' = lost /\ crashes' = crashes
  BY DEF payoutVars, counters
<1>5. PayoutTypeOK'
  BY <1>0, <1>4 DEF PayoutTypeOK, Locked
<1>6. SettlementTypeOK' /\ day \in Nat
  BY <1>0, <1>1 DEF SettlementTypeOK
<1>7. \A a \in Account, ch \in Channel : Settled(a, ch)' = Settled(a, ch)
  BY <1>0, <1>1, SettledSame
<1>8. MoneyIsTraced'
  BY <1>0, <1>3, <1>4, <1>5, <1>6, <1>7, NothingSent
<1>9. EarnedStays
  BY <1>0, <1>1, <1>3, SameSales
<1>10. DueIsEarned' /\ BillIsEarned' /\ OneInProcess'
  BY <1>1, <1>2, <1>6, <1>9, BillsStay
<1>11. HeldIsCovered'
  BY <1>1, <1>4, HeldSame DEF TreasuryInvariant, vars
<1>12. QED
  BY <1>2, <1>5, <1>6, <1>8, <1>10, <1>11 DEF TreasuryInvariant

-----------------------------------------------------------------------------
(* The theorems *)

\* Before the first sale nothing is sent, settled or due.
LEMMA InitTreasury == TreasuryInit => TreasuryInvariant
<1> SUFFICES ASSUME TreasuryInit PROVE TreasuryInvariant
  OBVIOUS
<1> USE DEF TreasuryInit
<1>1. LedgerInvariant
  BY InitLedger
<1>2. PayoutTypeOK
  <2>1. NoRequest.pc # "asked"
    BY DEF NoRequest
  <2>2. QED
    BY <2>1 DEF PayoutInit, PayoutTypeOK, RequestRow, Holder, Locked
<1>3. /\ SettlementTypeOK /\ agenda = {} /\ \A m \in Enterprise : bills[m] = << >>
  BY DEF SettlementInit, SettlementTypeOK
<1>4. DueIsEarned /\ BillIsEarned /\ OneInProcess
  BY <1>3 DEF DueIsEarned, BillIsEarned, OneInProcess
<1>5. MoneyIsTraced
  <2> SUFFICES ASSUME NEW a \in Account, NEW ch \in Channel
               PROVE  /\ Excess(a, ch) >= 0
                      /\ lost = 0 /\ crashes = 0 => Excess(a, ch) = 0
                      /\ crashes = 0 => Excess(a, ch) <= failed[<<a, ch>>] + InDoubt(a, ch)
    BY DEF MoneyIsTraced
  <2>1. <<a, ch>> \in Purse
    BY DEF Purse
  <2>2. /\ sent[<<a, ch>>] = 0 /\ failed[<<a, ch>>] = 0 /\ paidOut[<<a, ch>>] = 0
        /\ payout[a] = NoPayout
    BY <2>1 DEF PayoutInit, Init
  <2>3. InFlight(a, ch) = 0 /\ InDoubt(a, ch) = 0
    BY <2>2 DEF InFlight, InDoubt, NoPayout
  <2>4. Settled(a, ch) = 0
    <3>1. CASE a \in Enterprise
      <4> DEFINE g == [i \in 1..Len(bills[a]) |->
                         IF ch = "WECHAT" THEN bills[a][i].wechat ELSE bills[a][i].alipay]
      <4>1. Settled(a, ch) = SumTo(g, Len(bills[a])) /\ Len(bills[a]) = 0
        BY <1>3, <3>1 DEF Settled
      <4> HIDE DEF g
      <4>2. SumTo(g, 0) = 0
        BY SumToDef
      <4>3. QED
        BY <4>1, <4>2
    <3>2. QED
      BY <3>1 DEF Settled
  <2>5. Excess(a, ch) = 0
    BY <2>2, <2>3, <2>4 DEF Excess
  <2>6. QED
    BY <2>2, <2>3, <2>5
<1>6. HeldIsCovered
  BY DEF PayoutInit, HeldIsCovered, Locked
<1>7. QED
  BY <1>1, <1>2, <1>3, <1>4, <1>5, <1>6 DEF TreasuryInvariant

\* Whatever happens keeps the treasury.
LEMMA NextTreasury == TreasuryInvariant /\ [TreasuryNext]_treasury => TreasuryInvariant'
<1> SUFFICES ASSUME TreasuryInvariant, [TreasuryNext]_treasury PROVE TreasuryInvariant'
  OBVIOUS
<1>1. CASE Sale
  BY <1>1, SaleKeeps
<1>2. CASE PayoutStep /\ UNCHANGED days
  BY <1>2, PayoutKeeps
<1>3. CASE StartSettlement /\ UNCHANGED payoutVars
  BY <1>3, StartSettlementKeeps
<1>4. CASE SettleNext
  BY <1>4, SettleBillKeeps DEF SettleNext
<1>5. ASSUME NEW m \in Enterprise, NEW i \in DOMAIN bills[m], MarkFinished(m, i),
             UNCHANGED payoutVars
      PROVE  TreasuryInvariant'
  BY <1>5, MarkFinishedKeeps
<1>6. CASE DayPasses /\ UNCHANGED payoutVars
  BY <1>6, DayPassesKeeps
<1>7. CASE UNCHANGED treasury
  <2>1. vars' = vars /\ payoutVars' = payoutVars /\ days' = days
    BY <1>7 DEF treasury
  <2>2. /\ LedgerInvariant /\ TypeOK /\ CouponTerms /\ PayoutTypeOK /\ SettlementTypeOK
        /\ MoneyIsTraced
    BY DEF TreasuryInvariant, LedgerInvariant
  <2>3. LedgerInvariant'
    BY <2>1, <2>2, NextLedger
  <2>4. TypeOK' /\ payments' = payments /\ coupons' = coupons /\ paidOut' = paidOut
    BY <2>1, <2>3 DEF LedgerInvariant, vars
  <2>5. /\ requests' = requests /\ payout' = payout /\ sent' = sent /\ failed' = failed
        /\ lost' = lost /\ crashes' = crashes
    BY <2>1 DEF payoutVars, counters
  <2>6. PayoutTypeOK'
    BY <2>2, <2>5 DEF PayoutTypeOK, Locked
  <2>7. SettlementTypeOK' /\ \A a \in Account, ch \in Channel : Settled(a, ch)' = Settled(a, ch)
    BY <2>1, <2>2, PayoutKeepsBills
  <2>8. MoneyIsTraced'
    BY <2>2, <2>4, <2>5, <2>6, <2>7, NothingSent
  <2>9. day' = day /\ day \in Nat /\ placed' = placed /\ bills' = bills /\ agenda' = agenda
    BY <2>1, <2>2 DEF days, SettlementTypeOK
  <2>10. EarnedStays
    BY <2>2, <2>4, <2>9, SameSales
  <2>11. DueIsEarned' /\ BillIsEarned' /\ OneInProcess'
    BY <2>3, <2>9, <2>10, BillsStay
  <2>12. HeldIsCovered'
    BY <2>1, <2>5, HeldSame DEF TreasuryInvariant, vars
  <2>13. QED
    BY <2>3, <2>6, <2>7, <2>8, <2>11, <2>12 DEF TreasuryInvariant
<1>8. QED
  BY <1>1, <1>2, <1>3, <1>4, <1>5, <1>6, <1>7 DEF TreasuryNext

\* The inductive invariant holds of every reachable treasury, and with it the
\* ledger equations: payouts that hold a lock while a provider is asked, and
\* settlements computed from what was read before, break none of them.
THEOREM TreasuryCorrect == TreasurySpec => []TreasuryInvariant
BY InitTreasury, NextTreasury, PTL DEF TreasurySpec

\* What the providers sent, the bills settled and the ledger booked explain
\* each other, whatever answers are lost and whatever payouts die.
THEOREM PayoutsAccountedCorrect == TreasurySpec => []PayoutsAreAccounted
<1>1. TreasuryInvariant => PayoutsAreAccounted
  <2> SUFFICES ASSUME TreasuryInvariant, NEW a \in Account, NEW ch \in Channel
               PROVE  /\ lost = 0 /\ crashes = 0 =>
                           sent[<<a, ch>>] + Settled(a, ch)
                             = paidOut[<<a, ch>>] + InFlight(a, ch)
                      /\ crashes = 0 =>
                           sent[<<a, ch>>] + Settled(a, ch)
                             <= paidOut[<<a, ch>>] + InFlight(a, ch)
                                  + failed[<<a, ch>>] + InDoubt(a, ch)
                      /\ paidOut[<<a, ch>>] <= sent[<<a, ch>>] + Settled(a, ch)
                      /\ HeldIsCovered
    BY DEF PayoutsAreAccounted, SentIsBooked, LossHasFailedRow, BookedIsSent, InDoubt,
           TreasuryInvariant
  <2>1. TypeOK /\ PayoutTypeOK /\ SettlementTypeOK
    BY DEF TreasuryInvariant, LedgerInvariant
  <2>2. /\ sent[<<a, ch>>] \in Int /\ Settled(a, ch) \in Int
        /\ paidOut[<<a, ch>>] \in Int /\ failed[<<a, ch>>] \in Int
        /\ InFlight(a, ch) \in Nat /\ InDoubt(a, ch) \in Nat
    BY <2>1, TermTypes
  <2>3. /\ Excess(a, ch) >= 0
        /\ lost = 0 /\ crashes = 0 => Excess(a, ch) = 0
        /\ crashes = 0 => Excess(a, ch) <= failed[<<a, ch>>] + InDoubt(a, ch)
    BY DEF TreasuryInvariant, MoneyIsTraced
  <2>4. HeldIsCovered
    BY DEF TreasuryInvariant
  <2>5. QED
    BY <2>2, <2>3, <2>4 DEF Excess
<1>2. QED
  BY <1>1, TreasuryCorrect, PTL

\* No bill pays more than the finished sales of its day brought, and two bills
\* in process pay the same sales only if a view ran past midnight.
THEOREM BillsEarnedCorrect == TreasurySpec => []BillsAreEarned
<1>1. TreasuryInvariant => BillsAreEarned
  <2> SUFFICES ASSUME TreasuryInvariant, NEW m \in Enterprise,
                      NEW i \in DOMAIN bills[m], NEW j \in DOMAIN bills[m]
               PROVE  /\ bills[m][i].wechat <= Earned(m, "WECHAT", bills[m][i].sold)
                      /\ bills[m][i].alipay <= Earned(m, "ALIPAY", bills[m][i].sold)
                      /\ /\ i # j /\ bills[m][i].sold = bills[m][j].sold
                         /\ bills[m][i].status = "PROCESSING"
                         /\ bills[m][j].status = "PROCESSING"
                         => Late(bills[m][i]) \/ Late(bills[m][j])
    BY DEF BillsAreEarned
  <2>1. BillIsEarned /\ OneInProcess
    BY DEF TreasuryInvariant
  <2>2. QED
    BY <2>1 DEF BillIsEarned, OneInProcess, Late
<1>2. QED
  BY <1>1, TreasuryCorrect, PTL

=============================================================================
