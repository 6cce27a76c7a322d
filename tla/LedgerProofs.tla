---------------------------- MODULE LedgerProofs ----------------------------
(***************************************************************************)
(* The money of the ledger: for any number of payments, accounts, coupons  *)
(* and prices, every balance is the money of the payments behind it.       *)
(*                                                                         *)
(* A step of one payment changes one term of the sums of Held and Released *)
(* (LedgerSums); the terms of the other payments stay because the coupon a *)
(* payment refers to keeps its terms (CouponsKept).  The strengthening     *)
(* LedgerInvariant adds to the ledger equations what that argument needs.  *)
(***************************************************************************)
EXTENDS PaymentsProofs, PaymentsEscrow, Rounding

USE AccountAssumption, BoundAssumption

\* The terms of every coupon are those its rule was validated for.
CouponTerms ==
  \A c \in CouponId : coupons[c].status # "NONE" =>
    /\ coupons[c].discount < coupons[c].min_charge
    /\ coupons[c].rule # coupons[c].originator

\* A payment refers to a coupon that exists.
CouponExists ==
  \A p \in Serial : HasCoupon(payments[p]) =>
    coupons[payments[p].coupon].status # "NONE"

\* Without a coupon nobody has a share of a payment.
SharesNeedCoupon ==
  \A p \in Serial : ~HasCoupon(payments[p]) =>
    /\ payments[p].platform_share = 0
    /\ payments[p].inviter_share = 0
    /\ payments[p].originator_share = 0

\* Nobody can withdraw less than nothing.
WithdrawableNotNegative == \A purse \in Purse : withdrawable[purse] >= 0

\* The inductive invariant.
LedgerInvariant ==
  /\ TypeOK
  /\ CouponTerms
  /\ CouponExists
  /\ SharesNeedCoupon
  /\ PartsNotNegative
  /\ FrozenMoneyMatchesPayments
  /\ WithdrawableMatchesPayments
  /\ WithdrawableNotNegative

\* What a step leaves alone: the terms of the coupons that exist, ...
CouponsKept ==
  \A c \in CouponId : coupons[c].status # "NONE" =>
    /\ coupons'[c].status # "NONE"
    /\ coupons'[c].discount = coupons[c].discount
    /\ coupons'[c].min_charge = coupons[c].min_charge
    /\ coupons'[c].rule = coupons[c].rule
    /\ coupons'[c].originator = coupons[c].originator

\* ... and every payment but one.
OthersKept(p) == \A q \in Serial : q # p => payments'[q] = payments[q]

\* Payment p keeps all but its status, which becomes s.
StatusBecomes(p, s) ==
  /\ payments'[p].status = s
  /\ payments'[p].pay_channel = payments[p].pay_channel
  /\ payments'[p].merchant = payments[p].merchant
  /\ payments'[p].coupon = payments[p].coupon
  /\ payments'[p].order_price = payments[p].order_price
  /\ payments'[p].platform_share = payments[p].platform_share
  /\ payments'[p].inviter_share = payments[p].inviter_share
  /\ payments'[p].originator_share = payments[p].originator_share

\* The frozen and the withdrawable part of every purse move by the change of
\* the terms of payment p.
MoneyFollows(p) ==
  \A a \in Account, ch \in Channel :
    /\ balance'[<<a, ch>>] - withdrawable'[<<a, ch>>] =
         (balance[<<a, ch>>] - withdrawable[<<a, ch>>])
           + ((HeldOf(a, ch)[p])' - HeldOf(a, ch)[p])
    /\ withdrawable'[<<a, ch>>] =
         withdrawable[<<a, ch>>] + ((ReleasedOf(a, ch)[p])' - ReleasedOf(a, ch)[p])

-----------------------------------------------------------------------------
(* Coupons *)

\* Replacing a coupon keeps the terms of all, and the new one has the terms
\* of the one it replaces.
LEMMA ReplaceCouponTerms ==
  ASSUME TypeOK, CouponTerms, CouponExists, NEW p \in Serial,
         ReplaceCoupon(payments[p])
  PROVE  CouponsKept /\ CouponTerms'
<1>1. CASE HasCoupon(payments[p])
  <2> DEFINE u == payments[p].coupon
  <2>1. u \in CouponId /\ coupons[u].status # "NONE"
    BY <1>1, CouponType DEF CouponExists
  <2>2. PICK c \in CouponId :
          /\ coupons[c].status = "NONE"
          /\ coupons' = [coupons EXCEPT ![u].status = "DESTROYED",
                                        ![c] = [coupons[u] EXCEPT !.status = "NOT_USED"]]
    BY <1>1 DEF ReplaceCoupon, Fresh
  <2>3. coupons \in [CouponId -> Coupon]
    BY DEF TypeOK
  <2> HIDE DEF u
  <2>4. coupons'[c] = [coupons[u] EXCEPT !.status = "NOT_USED"]
    BY <2>1, <2>2, <2>3
  <2>5. coupons'[u] = [coupons[u] EXCEPT !.status = "DESTROYED"]
    BY <2>1, <2>2, <2>3
  <2>6. \A k \in CouponId : k # u /\ k # c => coupons'[k] = coupons[k]
    BY <2>2, <2>3
  <2>7. coupons[u] \in Coupon
    BY <2>1, <2>3
  <2>8. \A k \in {u, c} : /\ coupons'[k].status # "NONE"
                          /\ coupons'[k].discount = coupons[u].discount
                          /\ coupons'[k].min_charge = coupons[u].min_charge
                          /\ coupons'[k].rule = coupons[u].rule
                          /\ coupons'[k].originator = coupons[u].originator
    <3>1. coupons'[u].status = "DESTROYED" /\ coupons'[c].status = "NOT_USED"
      BY <2>4, <2>5, <2>7 DEF Coupon
    <3>2. \A k \in {u, c} : /\ coupons'[k].discount = coupons[u].discount
                            /\ coupons'[k].min_charge = coupons[u].min_charge
                            /\ coupons'[k].rule = coupons[u].rule
                            /\ coupons'[k].originator = coupons[u].originator
      BY <2>4, <2>5, <2>7 DEF Coupon
    <3>3. QED
      BY <3>1, <3>2
  <2>9. CouponsKept
    BY <2>1, <2>2, <2>6, <2>8 DEF CouponsKept
  <2>c. CouponTerms'
    <3>1. SUFFICES ASSUME NEW k \in CouponId, coupons'[k].status # "NONE"
                   PROVE  /\ coupons'[k].discount < coupons'[k].min_charge
                          /\ coupons'[k].rule # coupons'[k].originator
      BY DEF CouponTerms
    <3>2. CASE k \in {u, c}
      BY <2>1, <2>8, <3>2 DEF CouponTerms
    <3>3. CASE k \notin {u, c}
      BY <2>6, <3>1, <3>3 DEF CouponTerms
    <3>4. QED
      BY <3>2, <3>3
  <2>10. QED
    BY <2>9, <2>c
<1>2. CASE ~HasCoupon(payments[p])
  BY <1>2 DEF ReplaceCoupon, CouponsKept, CouponTerms
<1>3. QED
  BY <1>1, <1>2

\* A step that leaves the Coupon table alone keeps its terms.
LEMMA SameCoupons ==
  ASSUME CouponTerms, coupons' = coupons
  PROVE  CouponsKept /\ CouponTerms'
BY DEF CouponsKept, CouponTerms

\* Taking a coupon keeps the terms of all.
LEMMA PlaceOrderCoupons ==
  ASSUME TypeOK, CouponTerms, NEW p \in Serial, NEW ch \in Channel, NEW m \in Merchant,
         NEW c \in CouponId \cup {NoCoupon}, NEW price \in OrderPrice,
         PlaceOrder(p, ch, m, c, price)
  PROVE  CouponsKept /\ CouponTerms'
<1>1. CASE c # NoCoupon
  <2>1. coupons' = [coupons EXCEPT ![c].status = "USED"]
    BY <1>1 DEF PlaceOrder
  <2>2. coupons \in [CouponId -> Coupon] /\ c \in CouponId /\ coupons[c].status = "NOT_USED"
    BY <1>1 DEF TypeOK, NoCoupon, PlaceOrder
  <2>3. coupons'[c] = [coupons[c] EXCEPT !.status = "USED"]
    BY <2>1, <2>2
  <2>4. \A k \in CouponId : coupons[k] \in Coupon /\ (k # c => coupons'[k] = coupons[k])
    BY <2>1, <2>2
  <2>5. QED
    BY <2>2, <2>3, <2>4 DEF CouponsKept, CouponTerms, Coupon
<1>2. CASE c = NoCoupon
  BY <1>2, SameCoupons DEF PlaceOrder
<1>3. QED
  BY <1>1, <1>2

-----------------------------------------------------------------------------
(* Payments *)

\* A step that changes the status of one payment, and keeps the terms of the
\* coupons, keeps all that is known of the payments but that status.
LEMMA StatusStep ==
  ASSUME TypeOK, CouponExists, SharesNeedCoupon, PartsNotNegative,
         NEW p \in Serial, NEW s,
         payments' = [payments EXCEPT ![p].status = s],
         payments[p].status # "NONE",
         CouponsKept
  PROVE  /\ OthersKept(p)
         /\ CouponExists'
         /\ SharesNeedCoupon'
         /\ PartsNotNegative'
         /\ StatusBecomes(p, s)
<1>1. /\ payments \in [Serial -> Payment]
      /\ \A q \in Serial : payments[q] \in Payment
  BY DEF TypeOK
<1>2. payments'[p] = [payments[p] EXCEPT !.status = s]
  BY <1>1
<1>3. \A q \in Serial : q # p => payments'[q] = payments[q]
  BY <1>1
<1>4. StatusBecomes(p, s)
  BY <1>1, <1>2 DEF Payment, StatusBecomes
<1>5. \A q \in Serial : /\ payments'[q].coupon = payments[q].coupon
                        /\ payments'[q].order_price = payments[q].order_price
                        /\ TotalShare(payments'[q]) = TotalShare(payments[q])
  BY <1>3, <1>4 DEF TotalShare, StatusBecomes
<1>6. \A q \in Serial : HasCoupon(payments[q]) =>
        /\ payments[q].coupon \in CouponId
        /\ coupons'[payments[q].coupon].status # "NONE"
        /\ coupons'[payments[q].coupon].discount = coupons[payments[q].coupon].discount
  BY CouponType DEF CouponExists, CouponsKept
<1>7. CouponExists'
  BY <1>5, <1>6 DEF CouponExists, HasCoupon
<1>8. \A q \in Serial : MerchantPart(payments[q])' = MerchantPart(payments[q])
  BY <1>5, <1>6 DEF MerchantPart, PaidPrice, Discount, HasCoupon
<1>9. PartsNotNegative'
  <2>1. \A q \in Serial : payments'[q].status # "NONE" => payments[q].status # "NONE"
    BY <1>3
  <2>2. QED
    BY <1>8, <2>1 DEF PartsNotNegative
<1>s. SharesNeedCoupon'
  BY <1>3, <1>4 DEF SharesNeedCoupon, StatusBecomes, HasCoupon
<1>10. QED
  BY <1>3, <1>4, <1>7, <1>9, <1>s DEF OthersKept

\* A new payment refers to a coupon that exists and the part of its merchant
\* is not negative: the discount is below the price by the check of the order
\* form, and the shares are within the rest.
LEMMA PlaceOrderStep ==
  ASSUME TypeOK, CouponTerms, CouponExists, SharesNeedCoupon, PartsNotNegative,
         CouponsKept,
         NEW p \in Serial, NEW ch \in Channel, NEW m \in Merchant,
         NEW c \in CouponId \cup {NoCoupon}, NEW price \in OrderPrice,
         PlaceOrder(p, ch, m, c, price)
  PROVE  /\ OthersKept(p)
         /\ CouponExists'
         /\ SharesNeedCoupon'
         /\ PartsNotNegative'
         /\ payments[p].status = "NONE"
         /\ payments'[p].status = "UNPAID"
<1> DEFINE with_coupon == c # NoCoupon
           discount == IF with_coupon THEN coupons[c].discount ELSE 0
           shares == SharesOf(price - discount, with_coupon)
           new == [status |-> "UNPAID", pay_channel |-> ch, merchant |-> m,
                   coupon |-> c, order_price |-> price,
                   platform_share |-> shares.platform_share,
                   inviter_share |-> shares.inviter_share,
                   originator_share |-> shares.originator_share]
<1>1. payments \in [Serial -> Payment] /\ payments' = [payments EXCEPT ![p] = new]
  BY DEF TypeOK, PlaceOrder
<1>2. /\ payments'[p] = new
      /\ \A q \in Serial : q # p => payments'[q] = payments[q]
  <2> HIDE DEF new
  <2>1. QED
    BY <1>1
<1>3. with_coupon => /\ c \in CouponId
                     /\ coupons[c].status = "NOT_USED"
                     /\ coupons[c].min_charge <= price
                     /\ coupons[c] \in Coupon
  BY DEF PlaceOrder, NoCoupon, TypeOK
<1>4. price - discount \in Nat
  <2>1. price \in Nat
    BY BoundAssumption
  <2>2. with_coupon => /\ coupons[c].discount \in Nat
                       /\ coupons[c].min_charge \in Nat
                       /\ coupons[c].discount < coupons[c].min_charge
    BY <1>3 DEF CouponTerms, Coupon
  <2>3. QED
    BY <1>3, <2>1, <2>2
<1>5. TotalShare(shares) \in Nat /\ TotalShare(shares) <= price - discount
  <2>1. with_coupon \in BOOLEAN
    OBVIOUS
  <2> HIDE DEF discount, with_coupon
  <2>2. QED
    BY <1>4, <2>1, SharesWithinPrice
<1>6. (with_coupon => coupons'[c].status # "NONE" /\ coupons'[c].discount = coupons[c].discount)
  BY <1>3 DEF CouponsKept
<1>7. MerchantPart(payments[p])' = (price - discount) - TotalShare(shares)
  <2>1. /\ payments'[p].coupon = c /\ payments'[p].order_price = price
        /\ TotalShare(payments'[p]) = TotalShare(shares)
    BY <1>2 DEF TotalShare
  <2>2. QED
    BY <1>6, <2>1 DEF MerchantPart, PaidPrice, Discount, HasCoupon
<1>8. \A q \in Serial : HasCoupon(payments[q]) =>
        /\ payments[q].coupon \in CouponId
        /\ coupons'[payments[q].coupon].status # "NONE"
        /\ coupons'[payments[q].coupon].discount = coupons[payments[q].coupon].discount
  BY CouponType DEF CouponExists, CouponsKept
<1>9. CouponExists'
  <2>1. payments'[p].coupon = c
    BY <1>2
  <2>2. QED
    BY <1>2, <1>6, <1>8, <2>1 DEF CouponExists, HasCoupon
<1>10. \A q \in Serial : q # p => MerchantPart(payments[q])' = MerchantPart(payments[q])
  BY <1>2, <1>8 DEF MerchantPart, PaidPrice, Discount, HasCoupon
<1>11. PartsNotNegative'
  <2>1. (price - discount) - TotalShare(shares) >= 0
    <3> HIDE DEF shares, discount
    <3>1. QED
      BY <1>4, <1>5
  <2>2. (MerchantPart(payments[p]) >= 0)'
    BY <1>7, <2>1
  <2>3. \A q \in Serial : q # p /\ payments'[q].status # "NONE" => (MerchantPart(payments[q]) >= 0)'
    BY <1>2, <1>10 DEF PartsNotNegative
  <2>4. QED
    BY <2>2, <2>3 DEF PartsNotNegative
<1>12. payments'[p].status = "UNPAID"
  BY <1>2
<1>s. SharesNeedCoupon'
  <2>1. ~with_coupon => /\ shares.platform_share = 0
                        /\ shares.inviter_share = 0
                        /\ shares.originator_share = 0
    BY DEF SharesOf
  <2>2. /\ payments'[p].coupon = c
        /\ payments'[p].platform_share = shares.platform_share
        /\ payments'[p].inviter_share = shares.inviter_share
        /\ payments'[p].originator_share = shares.originator_share
    BY <1>2
  <2> HIDE DEF shares, new
  <2>3. QED
    BY <1>2, <2>1, <2>2 DEF SharesNeedCoupon, HasCoupon
<1>13. QED
  BY <1>2, <1>9, <1>11, <1>12, <1>s DEF OthersKept, PlaceOrder

-----------------------------------------------------------------------------
(* The sums *)

\* The money of a payment is an integer for every account, and what is held
\* is not negative.
LEMMA TermsType ==
  TypeOK => \A p \in Serial, a \in Account :
              /\ Held(payments[p], a) \in Int
              /\ Released(payments[p], a) \in Int
              /\ PartsNotNegative => Held(payments[p], a) >= 0
<1> SUFFICES ASSUME TypeOK, NEW p \in Serial, NEW a \in Account
             PROVE  /\ Held(payments[p], a) \in Int
                    /\ Released(payments[p], a) \in Int
                    /\ PartsNotNegative => Held(payments[p], a) >= 0
  OBVIOUS
<1> DEFINE x == payments[p]
<1>1. /\ MerchantPart(x) \in Int /\ TotalShare(x) \in Nat
      /\ x.platform_share \in Nat
      /\ x.inviter_share \in Nat
      /\ x.originator_share \in Nat
  BY PartsType
<1>2. PartsNotNegative => x.status = "NONE" \/ MerchantPart(x) >= 0
  BY DEF PartsNotNegative
<1> HIDE DEF x
<1>3. Held(x, a) \in Int /\ (PartsNotNegative => Held(x, a) >= 0)
  BY <1>1, <1>2 DEF Held, FrozenPart, KeptPart
<1>4. Released(x, a) \in Int
  BY <1>1 DEF Released, ReleasedPart
<1>5. QED
  BY <1>3, <1>4 DEF x

\* The same after a step.
LEMMA TermsTypeNext ==
  (TypeOK => \A p \in Serial, a \in Account :
               /\ Held(payments[p], a) \in Int
               /\ Released(payments[p], a) \in Int
               /\ PartsNotNegative => Held(payments[p], a) >= 0)'
BY TermsType, PTL

\* The sums of the ledger equations change by the term of the payment that
\* took the step.
LEMMA LedgerSums ==
  ASSUME TypeOK, TypeOK', CouponExists, CouponsKept,
         NEW p \in Serial, OthersKept(p), NEW a \in Account, NEW ch \in Channel
  PROVE  /\ SumTo(HeldOf(a, ch), NPayments) \in Int
         /\ SumTo(ReleasedOf(a, ch), NPayments) \in Int
         /\ HeldOf(a, ch)[p] \in Int /\ (HeldOf(a, ch)[p])' \in Int
         /\ ReleasedOf(a, ch)[p] \in Int /\ (ReleasedOf(a, ch)[p])' \in Int
         /\ SumTo(HeldOf(a, ch), NPayments)' =
              SumTo(HeldOf(a, ch), NPayments) + ((HeldOf(a, ch)[p])' - HeldOf(a, ch)[p])
         /\ SumTo(ReleasedOf(a, ch), NPayments)' =
              SumTo(ReleasedOf(a, ch), NPayments)
                + ((ReleasedOf(a, ch)[p])' - ReleasedOf(a, ch)[p])
<1> DEFINE h == HeldOf(a, ch)
           r == ReleasedOf(a, ch)
<1>1. \A q \in Serial : h[q] \in Int /\ r[q] \in Int
  BY TermsType DEF HeldOf, ReleasedOf
<1>2. \A q \in Serial : h'[q] \in Int /\ r'[q] \in Int
  BY TermsTypeNext DEF HeldOf, ReleasedOf
<1>3. \A q \in Serial : q # p => h'[q] = h[q] /\ r'[q] = r[q]
  <2> SUFFICES ASSUME NEW q \in Serial, q # p
               PROVE  h'[q] = h[q] /\ r'[q] = r[q]
    OBVIOUS
  <2>1. payments'[q] = payments[q]
    BY DEF OthersKept
  <2>2. HasCoupon(payments[q]) =>
          /\ coupons'[payments[q].coupon].discount = coupons[payments[q].coupon].discount
          /\ coupons'[payments[q].coupon].originator = coupons[payments[q].coupon].originator
    BY CouponType DEF CouponExists, CouponsKept
  <2>3. MerchantPart(payments[q])' = MerchantPart(payments[q])
    BY <2>1, <2>2 DEF MerchantPart, PaidPrice, Discount, HasCoupon
  <2>4. Held(payments[q], a)' = Held(payments[q], a)
    BY <2>1, <2>3 DEF Held, FrozenPart, KeptPart
  <2>5. Released(payments[q], a)' = Released(payments[q], a)
    BY <2>1, <2>2, <2>3 DEF Released, ReleasedPart, HasCoupon
  <2>6. QED
    BY <2>1, <2>4, <2>5 DEF HeldOf, ReleasedOf
<1> HIDE DEF h, r
<1>4. NPayments \in Nat /\ p \in 1..NPayments
  BY DEF Serial
<1>5. SumTo(h', NPayments) = SumTo(h, NPayments) + (h'[p] - h[p])
  <2>1. \A i \in 1..NPayments : h[i] \in Int /\ h'[i] \in Int
    BY <1>1, <1>2 DEF Serial
  <2>2. \A i \in 1..NPayments : i # p => h'[i] = h[i]
    BY <1>3 DEF Serial
  <2>3. QED
    BY <1>4, <2>1, <2>2, SumToUpdate, SMTT(60)
<1>6. SumTo(r', NPayments) = SumTo(r, NPayments) + (r'[p] - r[p])
  <2>1. \A i \in 1..NPayments : r[i] \in Int /\ r'[i] \in Int
    BY <1>1, <1>2 DEF Serial
  <2>2. \A i \in 1..NPayments : i # p => r'[i] = r[i]
    BY <1>3 DEF Serial
  <2>3. QED
    BY <1>4, <2>1, <2>2, SumToUpdate, SMTT(60)
<1>7. NPayments \in 0..NPayments
  BY <1>4
<1>8. SumTo(h, NPayments) \in Int /\ SumTo(r, NPayments) \in Int
  BY <1>1, <1>4, <1>7, SumToType DEF Serial
<1>9. QED
  BY <1>1, <1>2, <1>5, <1>6, <1>8 DEF h, r

\* A step of a payment keeps the ledger equations when it moves the money of
\* every purse by the change of that payment's term.
LEMMA LedgerStep ==
  ASSUME TypeOK, TypeOK', CouponExists, CouponsKept,
         FrozenMoneyMatchesPayments, WithdrawableMatchesPayments,
         NEW p \in Serial, OthersKept(p),
         MoneyFollows(p),
         paidOut' = paidOut
  PROVE  FrozenMoneyMatchesPayments' /\ WithdrawableMatchesPayments'
<1> SUFFICES ASSUME NEW a \in Account, NEW ch \in Channel
             PROVE  /\ (balance[<<a, ch>>] - withdrawable[<<a, ch>>]
                          = SumTo(HeldOf(a, ch), NPayments))'
                    /\ (withdrawable[<<a, ch>>] = InitialMoney(<<a, ch>>)
                          + SumTo(ReleasedOf(a, ch), NPayments) - paidOut[<<a, ch>>])'
  BY DEF FrozenMoneyMatchesPayments, WithdrawableMatchesPayments
<1>1. balance[<<a, ch>>] - withdrawable[<<a, ch>>] = SumTo(HeldOf(a, ch), NPayments)
  BY DEF FrozenMoneyMatchesPayments
<1>2. withdrawable[<<a, ch>>] = InitialMoney(<<a, ch>>)
        + SumTo(ReleasedOf(a, ch), NPayments) - paidOut[<<a, ch>>]
  BY DEF WithdrawableMatchesPayments
<1>3. /\ SumTo(HeldOf(a, ch), NPayments) \in Int
      /\ SumTo(ReleasedOf(a, ch), NPayments) \in Int
      /\ HeldOf(a, ch)[p] \in Int /\ (HeldOf(a, ch)[p])' \in Int
      /\ ReleasedOf(a, ch)[p] \in Int /\ (ReleasedOf(a, ch)[p])' \in Int
      /\ SumTo(HeldOf(a, ch), NPayments)' =
           SumTo(HeldOf(a, ch), NPayments) + ((HeldOf(a, ch)[p])' - HeldOf(a, ch)[p])
      /\ SumTo(ReleasedOf(a, ch), NPayments)' =
           SumTo(ReleasedOf(a, ch), NPayments)
             + ((ReleasedOf(a, ch)[p])' - ReleasedOf(a, ch)[p])
  BY LedgerSums
<1>4. InitialMoney(<<a, ch>>) \in Int /\ paidOut[<<a, ch>>] \in Int
  BY DEF InitialMoney, TypeOK, Purse
<1>m. /\ balance'[<<a, ch>>] - withdrawable'[<<a, ch>>] =
           (balance[<<a, ch>>] - withdrawable[<<a, ch>>])
             + ((HeldOf(a, ch)[p])' - HeldOf(a, ch)[p])
      /\ withdrawable'[<<a, ch>>] =
           withdrawable[<<a, ch>>] + ((ReleasedOf(a, ch)[p])' - ReleasedOf(a, ch)[p])
  BY DEF MoneyFollows
<1>5. QED
  BY <1>1, <1>2, <1>3, <1>4, <1>m

\* The terms of a payment before and after its status changes.
LEMMA StatusTerms ==
  ASSUME TypeOK, CouponExists, CouponsKept, NEW p \in Serial, NEW s,
         StatusBecomes(p, s),
         NEW a \in Account, NEW ch \in Channel
  PROVE  LET x == payments[p]
             Terms(v, f, k) ==
               IF x.pay_channel # ch THEN 0
               ELSE CASE v \in {"FROZEN", "REFUND_REQUESTED", "REFUND_FAILED"} -> f
                      [] v = "FINISHED" -> k
                      [] OTHER -> 0
         IN  /\ HeldOf(a, ch)[p] = Terms(x.status, FrozenPart(x, a), KeptPart(x, a))
             /\ (HeldOf(a, ch)[p])' = Terms(s, FrozenPart(x, a), KeptPart(x, a))
             /\ ReleasedOf(a, ch)[p] = Terms(x.status, 0, ReleasedPart(x, a))
             /\ (ReleasedOf(a, ch)[p])' = Terms(s, 0, ReleasedPart(x, a))
<1> DEFINE x == payments[p]
           y == payments'[p]
<1>2. /\ y.status = s
      /\ y.pay_channel = x.pay_channel
      /\ y.merchant = x.merchant
      /\ y.coupon = x.coupon
      /\ y.order_price = x.order_price
      /\ y.platform_share = x.platform_share
      /\ y.inviter_share = x.inviter_share
      /\ y.originator_share = x.originator_share
  BY DEF StatusBecomes
<1>3. HasCoupon(x) =>
        /\ coupons'[x.coupon].discount = coupons[x.coupon].discount
        /\ coupons'[x.coupon].originator = coupons[x.coupon].originator
  BY CouponType DEF CouponExists, CouponsKept
<1>m. MerchantPart(payments[p])' = MerchantPart(x)
  BY <1>2, <1>3 DEF MerchantPart, PaidPrice, Discount, HasCoupon, TotalShare
<1>4. FrozenPart(payments[p], a)' = FrozenPart(x, a)
  BY <1>2, <1>m DEF FrozenPart, TotalShare
<1>5. KeptPart(payments[p], a)' = KeptPart(x, a)
  BY <1>2 DEF KeptPart
<1>6. ReleasedPart(payments[p], a)' = ReleasedPart(x, a)
  BY <1>2, <1>3, <1>m DEF ReleasedPart, HasCoupon
<1>7. Held(payments[p], a)' =
        CASE s \in {"FROZEN", "REFUND_REQUESTED", "REFUND_FAILED"} -> FrozenPart(x, a)
          [] s = "FINISHED" -> KeptPart(x, a)
          [] OTHER -> 0
  BY <1>2, <1>4, <1>5 DEF Held
<1>8. Released(payments[p], a)' = IF s = "FINISHED" THEN ReleasedPart(x, a) ELSE 0
  BY <1>2, <1>6 DEF Released
<1>9. /\ HeldOf(a, ch)[p] = IF x.pay_channel = ch THEN Held(x, a) ELSE 0
      /\ ReleasedOf(a, ch)[p] = IF x.pay_channel = ch THEN Released(x, a) ELSE 0
      /\ (HeldOf(a, ch)[p])' = IF x.pay_channel = ch THEN Held(payments[p], a)' ELSE 0
      /\ (ReleasedOf(a, ch)[p])' = IF x.pay_channel = ch THEN Released(payments[p], a)' ELSE 0
  BY <1>2 DEF HeldOf, ReleasedOf
<1>10. Held(x, a) =
         CASE x.status \in {"FROZEN", "REFUND_REQUESTED", "REFUND_FAILED"} -> FrozenPart(x, a)
           [] x.status = "FINISHED" -> KeptPart(x, a)
           [] OTHER -> 0
  BY DEF Held
<1>11. Released(x, a) = IF x.status = "FINISHED" THEN ReleasedPart(x, a) ELSE 0
  BY DEF Released
<1> HIDE DEF x, y
<1>12. QED
  BY <1>7, <1>8, <1>9, <1>10, <1>11 DEF x

\* Money that stays follows a payment whose terms stay.
LEMMA NothingMoves ==
  ASSUME TypeOK, NEW p \in Serial, balance' = balance, withdrawable' = withdrawable,
         \A a \in Account, ch \in Channel :
           /\ (HeldOf(a, ch)[p])' = HeldOf(a, ch)[p] /\ HeldOf(a, ch)[p] \in Int
           /\ (ReleasedOf(a, ch)[p])' = ReleasedOf(a, ch)[p]
           /\ ReleasedOf(a, ch)[p] \in Int
  PROVE  MoneyFollows(p)
<1> SUFFICES ASSUME NEW a \in Account, NEW ch \in Channel
             PROVE  /\ balance[<<a, ch>>] - withdrawable[<<a, ch>>] =
                         (balance[<<a, ch>>] - withdrawable[<<a, ch>>])
                           + ((HeldOf(a, ch)[p])' - HeldOf(a, ch)[p])
                    /\ withdrawable[<<a, ch>>] =
                         withdrawable[<<a, ch>>]
                           + ((ReleasedOf(a, ch)[p])' - ReleasedOf(a, ch)[p])
  BY DEF MoneyFollows
<1>1. balance[<<a, ch>>] \in Int /\ withdrawable[<<a, ch>>] \in Int
  BY DEF TypeOK, Purse
<1>2. QED
  BY <1>1

-----------------------------------------------------------------------------
(* The transactions *)

\* Placing an order moves no money.
LEMMA PlaceOrderLedger ==
  ASSUME LedgerInvariant, TypeOK', NEW p \in Serial, NEW pc \in Channel,
         NEW m \in Merchant, NEW c \in CouponId \cup {NoCoupon},
         NEW price \in OrderPrice, PlaceOrder(p, pc, m, c, price)
  PROVE  LedgerInvariant'
<1> USE DEF LedgerInvariant
<1>1. CouponsKept /\ CouponTerms'
  BY PlaceOrderCoupons
<1>2. /\ OthersKept(p) /\ CouponExists' /\ SharesNeedCoupon' /\ PartsNotNegative'
      /\ payments[p].status = "NONE" /\ payments'[p].status = "UNPAID"
  BY <1>1, PlaceOrderStep
<1>3. balance' = balance /\ withdrawable' = withdrawable /\ paidOut' = paidOut
  BY DEF PlaceOrder
<1>4. \A a \in Account, ch \in Channel :
        /\ HeldOf(a, ch)[p] = 0 /\ (HeldOf(a, ch)[p])' = 0
        /\ ReleasedOf(a, ch)[p] = 0 /\ (ReleasedOf(a, ch)[p])' = 0
  BY <1>2 DEF HeldOf, ReleasedOf, Held, Released
<1>5. MoneyFollows(p)
  BY <1>3, <1>4, NothingMoves
<1>6. FrozenMoneyMatchesPayments' /\ WithdrawableMatchesPayments'
  BY <1>1, <1>2, <1>3, <1>5, LedgerStep
<1>7. WithdrawableNotNegative'
  BY <1>3 DEF WithdrawableNotNegative
<1>8. QED
  BY <1>1, <1>2, <1>6, <1>7

\* A status change that moves no money keeps the ledger when the new status
\* freezes the same money as the old one.
LEMMA QuietStep ==
  ASSUME LedgerInvariant, TypeOK', NEW p \in Serial, NEW s,
         payments' = [payments EXCEPT ![p].status = s],
         \/ payments[p].status = "UNPAID" /\ s = "CANCELLED"
         \/ /\ payments[p].status \in {"FROZEN", "REFUND_REQUESTED", "REFUND_FAILED"}
            /\ s \in {"FROZEN", "REFUND_REQUESTED", "REFUND_FAILED"},
         CouponsKept, CouponTerms',
         balance' = balance, withdrawable' = withdrawable, paidOut' = paidOut
  PROVE  LedgerInvariant'
<1> USE DEF LedgerInvariant
<1>1. payments[p].status # "NONE"
  OBVIOUS
<1>2. /\ OthersKept(p) /\ CouponExists' /\ SharesNeedCoupon' /\ PartsNotNegative'
      /\ StatusBecomes(p, s)
  BY <1>1, StatusStep
<1>3. ASSUME NEW a \in Account, NEW ch \in Channel
      PROVE  /\ (HeldOf(a, ch)[p])' = HeldOf(a, ch)[p]
             /\ HeldOf(a, ch)[p] \in Int
             /\ (ReleasedOf(a, ch)[p])' = ReleasedOf(a, ch)[p]
             /\ ReleasedOf(a, ch)[p] \in Int
  <2>1. HeldOf(a, ch)[p] \in Int /\ ReleasedOf(a, ch)[p] \in Int
    BY <1>2, LedgerSums
  <2>2. QED
    BY <1>2, <2>1, StatusTerms
<1>4. MoneyFollows(p)
  BY <1>3, NothingMoves
<1>5. FrozenMoneyMatchesPayments' /\ WithdrawableMatchesPayments'
  BY <1>2, <1>4, LedgerStep
<1>6. WithdrawableNotNegative'
  BY DEF WithdrawableNotNegative
<1>7. QED
  BY <1>2, <1>5, <1>6

\* Booking a payment freezes exactly its money.
LEMMA OnPaymentSuccessLedger ==
  ASSUME LedgerInvariant, TypeOK', NEW p \in Serial, OnPaymentSuccess(p)
  PROVE  LedgerInvariant'
<1> USE DEF LedgerInvariant
<1> DEFINE x == payments[p]
           platform == <<Platform, x.pay_channel>>
           merchant == <<x.merchant, x.pay_channel>>
<1>1. /\ payments' = [payments EXCEPT ![p].status = "FROZEN"]
      /\ x.status = "UNPAID"
      /\ balance' = Add(Add(balance, platform, TotalShare(x)), merchant, MerchantPart(x))
      /\ withdrawable' = withdrawable /\ paidOut' = paidOut
      /\ coupons' = coupons
  BY DEF OnPaymentSuccess
<1>2. CouponsKept /\ CouponTerms'
  BY <1>1, SameCoupons
<1>3. /\ OthersKept(p) /\ CouponExists' /\ SharesNeedCoupon' /\ PartsNotNegative'
      /\ StatusBecomes(p, "FROZEN")
  BY <1>1, <1>2, StatusStep
<1>4. /\ platform \in Purse /\ merchant \in Purse
      /\ TotalShare(x) \in Int /\ MerchantPart(x) \in Int
  BY PartsType, PurseType
<1>5. MoneyFollows(p)
  <2> SUFFICES ASSUME NEW a \in Account, NEW ch \in Channel
               PROVE  /\ balance'[<<a, ch>>] - withdrawable'[<<a, ch>>] =
                           (balance[<<a, ch>>] - withdrawable[<<a, ch>>])
                             + ((HeldOf(a, ch)[p])' - HeldOf(a, ch)[p])
                      /\ withdrawable'[<<a, ch>>] =
                           withdrawable[<<a, ch>>]
                             + ((ReleasedOf(a, ch)[p])' - ReleasedOf(a, ch)[p])
    BY DEF MoneyFollows
  <2>1. /\ HeldOf(a, ch)[p] = 0
        /\ (HeldOf(a, ch)[p])' = IF x.pay_channel # ch THEN 0 ELSE FrozenPart(x, a)
        /\ ReleasedOf(a, ch)[p] = 0 /\ (ReleasedOf(a, ch)[p])' = 0
    BY <1>1, <1>2, <1>3, StatusTerms
  <2>2. <<a, ch>> \in Purse
    BY DEF Purse
  <2>3. /\ balance \in [Purse -> Int]
        /\ balance[<<a, ch>>] \in Int /\ withdrawable[<<a, ch>>] \in Int
    BY <2>2 DEF TypeOK
  <2> HIDE DEF x, platform, merchant
  <2>4. balance'[<<a, ch>>] =
          balance[<<a, ch>>]
            + (IF <<a, ch>> = platform THEN TotalShare(x) ELSE 0)
            + (IF <<a, ch>> = merchant THEN MerchantPart(x) ELSE 0)
    BY <1>1, <1>4, <2>2, <2>3 DEF Add
  <2>5. QED
    BY <1>1, <1>4, <2>1, <2>3, <2>4 DEF FrozenPart, platform, merchant
<1>6. FrozenMoneyMatchesPayments' /\ WithdrawableMatchesPayments'
  BY <1>1, <1>2, <1>3, <1>5, LedgerStep
<1>7. WithdrawableNotNegative'
  BY <1>1 DEF WithdrawableNotNegative
<1>8. QED
  BY <1>2, <1>3, <1>6, <1>7

\* A refund takes back what was frozen.
LEMMA OnRefundSuccessLedger ==
  ASSUME LedgerInvariant, TypeOK', NEW p \in Serial, OnRefundSuccess(p)
  PROVE  LedgerInvariant'
<1> USE DEF LedgerInvariant
<1> DEFINE x == payments[p]
           platform == <<Platform, x.pay_channel>>
           merchant == <<x.merchant, x.pay_channel>>
<1>1. /\ payments' = [payments EXCEPT ![p].status = "REFUND"]
      /\ x.status = "REFUND_REQUESTED"
      /\ balance' = Add(Add(balance, merchant, -MerchantPart(x)), platform, -TotalShare(x))
      /\ withdrawable' = withdrawable /\ paidOut' = paidOut
      /\ ReplaceCoupon(x)
  BY DEF OnRefundSuccess, RefundPending
<1>2. CouponsKept /\ CouponTerms'
  BY <1>1, ReplaceCouponTerms
<1>3. /\ OthersKept(p) /\ CouponExists' /\ SharesNeedCoupon' /\ PartsNotNegative'
      /\ StatusBecomes(p, "REFUND")
  BY <1>1, <1>2, StatusStep
<1>4. /\ platform \in Purse /\ merchant \in Purse
      /\ TotalShare(x) \in Int /\ MerchantPart(x) \in Int
  BY PartsType, PurseType
<1>5. MoneyFollows(p)
  <2> SUFFICES ASSUME NEW a \in Account, NEW ch \in Channel
               PROVE  /\ balance'[<<a, ch>>] - withdrawable'[<<a, ch>>] =
                           (balance[<<a, ch>>] - withdrawable[<<a, ch>>])
                             + ((HeldOf(a, ch)[p])' - HeldOf(a, ch)[p])
                      /\ withdrawable'[<<a, ch>>] =
                           withdrawable[<<a, ch>>]
                             + ((ReleasedOf(a, ch)[p])' - ReleasedOf(a, ch)[p])
    BY DEF MoneyFollows
  <2>1. /\ HeldOf(a, ch)[p] = IF x.pay_channel # ch THEN 0 ELSE FrozenPart(x, a)
        /\ (HeldOf(a, ch)[p])' = 0
        /\ ReleasedOf(a, ch)[p] = 0 /\ (ReleasedOf(a, ch)[p])' = 0
    BY <1>1, <1>2, <1>3, StatusTerms
  <2>2. <<a, ch>> \in Purse
    BY DEF Purse
  <2>3. /\ balance \in [Purse -> Int]
        /\ balance[<<a, ch>>] \in Int /\ withdrawable[<<a, ch>>] \in Int
    BY <2>2 DEF TypeOK
  <2> HIDE DEF x, platform, merchant
  <2>4. balance'[<<a, ch>>] =
          balance[<<a, ch>>]
            + (IF <<a, ch>> = merchant THEN -MerchantPart(x) ELSE 0)
            + (IF <<a, ch>> = platform THEN -TotalShare(x) ELSE 0)
    BY <1>1, <1>4, <2>2, <2>3 DEF Add
  <2>5. QED
    BY <1>1, <1>4, <2>1, <2>3, <2>4 DEF FrozenPart, platform, merchant
<1>6. FrozenMoneyMatchesPayments' /\ WithdrawableMatchesPayments'
  BY <1>1, <1>2, <1>3, <1>5, LedgerStep
<1>7. WithdrawableNotNegative'
  BY <1>1 DEF WithdrawableNotNegative
<1>8. QED
  BY <1>2, <1>3, <1>6, <1>7

\* Unfreezing a payment with a coupon releases what was frozen, and leaves the
\* platform its share.
LEMMA UnfreezeSharedLedger ==
  ASSUME LedgerInvariant, TypeOK', NEW p \in Serial, UnfreezeShared(p)
  PROVE  LedgerInvariant'
<1> USE DEF LedgerInvariant
<1> DEFINE x == payments[p]
           originator == coupons[x.coupon].originator
           inviter == Inviter[x.merchant]
           kept == x.originator_share + x.inviter_share
           platformP == <<Platform, x.pay_channel>>
           merchantP == <<x.merchant, x.pay_channel>>
           originatorP == <<originator, x.pay_channel>>
           inviterP == <<inviter, x.pay_channel>>
<1>1. /\ payments' = [payments EXCEPT ![p].status = "FINISHED"]
      /\ x.status = "FROZEN"
      /\ HasCoupon(x)
      /\ inviter # NoMarketer
      /\ originator # x.merchant
      /\ balance' = Add(Add(Add(balance, platformP, -kept),
                      originatorP, x.originator_share), inviterP, x.inviter_share)
      /\ withdrawable' = Add(Add(Add(withdrawable, originatorP, x.originator_share),
                           inviterP, x.inviter_share), merchantP, MerchantPart(x))
      /\ paidOut' = paidOut /\ coupons' = coupons
  BY DEF UnfreezeShared
<1>2. CouponsKept /\ CouponTerms'
  BY <1>1, SameCoupons
<1>3. /\ OthersKept(p) /\ CouponExists' /\ SharesNeedCoupon' /\ PartsNotNegative'
      /\ StatusBecomes(p, "FINISHED")
  BY <1>1, <1>2, StatusStep
<1>4. /\ originator \in Merchant
      /\ inviter \in Marketer
      /\ x.merchant \in Merchant
      /\ x.pay_channel \in Channel
      /\ x.platform_share \in Int /\ x.originator_share \in Nat /\ x.inviter_share \in Nat
      /\ MerchantPart(x) \in Int /\ MerchantPart(x) >= 0
      /\ TotalShare(x) = x.platform_share + x.inviter_share + x.originator_share
  <2>1. x.merchant \in Merchant
    BY PartsType
  <2>2. inviter \in Marketer
    BY <1>1, <2>1
  <2>3. MerchantPart(x) >= 0
    BY <1>1 DEF PartsNotNegative
  <2>4. QED
    BY <1>1, <2>1, <2>2, <2>3, PartsType, CouponType DEF TotalShare
<1>5. platformP \in Purse /\ merchantP \in Purse /\ originatorP \in Purse /\ inviterP \in Purse
  BY <1>4, PurseType
<1>6. ASSUME NEW q \in Purse
      PROVE  /\ balance[q] \in Int /\ withdrawable[q] \in Int
             /\ balance'[q] = balance[q] + (IF q = platformP THEN -kept ELSE 0)
                                + (IF q = originatorP THEN x.originator_share ELSE 0)
                                + (IF q = inviterP THEN x.inviter_share ELSE 0)
             /\ withdrawable'[q] =
                  withdrawable[q] + (IF q = originatorP THEN x.originator_share ELSE 0)
                    + (IF q = inviterP THEN x.inviter_share ELSE 0)
                    + (IF q = merchantP THEN MerchantPart(x) ELSE 0)
  <2>1. balance \in [Purse -> Int] /\ withdrawable \in [Purse -> Int]
    BY DEF TypeOK
  <2>2. kept \in Int
    BY <1>4
  <2> HIDE DEF x, kept, platformP, merchantP, originatorP, inviterP, originator, inviter
  <2>3. QED
    BY <1>1, <1>4, <1>5, <2>1, <2>2 DEF Add
<1>7. MoneyFollows(p)
  <2> SUFFICES ASSUME NEW a \in Account, NEW ch \in Channel
               PROVE  /\ balance'[<<a, ch>>] - withdrawable'[<<a, ch>>] =
                           (balance[<<a, ch>>] - withdrawable[<<a, ch>>])
                             + ((HeldOf(a, ch)[p])' - HeldOf(a, ch)[p])
                      /\ withdrawable'[<<a, ch>>] =
                           withdrawable[<<a, ch>>]
                             + ((ReleasedOf(a, ch)[p])' - ReleasedOf(a, ch)[p])
    BY DEF MoneyFollows
  <2>1. /\ HeldOf(a, ch)[p] = IF x.pay_channel # ch THEN 0 ELSE FrozenPart(x, a)
        /\ (HeldOf(a, ch)[p])' = IF x.pay_channel # ch THEN 0 ELSE KeptPart(x, a)
        /\ ReleasedOf(a, ch)[p] = 0
        /\ (ReleasedOf(a, ch)[p])' = IF x.pay_channel # ch THEN 0 ELSE ReleasedPart(x, a)
    BY <1>1, <1>2, <1>3, StatusTerms
  <2>2. ReleasedPart(x, a) = (IF a = x.merchant THEN MerchantPart(x) ELSE 0)
                               + (IF a = originator THEN x.originator_share ELSE 0)
                               + (IF a = inviter THEN x.inviter_share ELSE 0)
    BY <1>1 DEF ReleasedPart
  <2>3. <<a, ch>> \in Purse
    BY DEF Purse
  <2> HIDE DEF x, originator, inviter
  <2>4. QED
    BY <1>4, <1>6, <2>1, <2>2, <2>3 DEF FrozenPart, KeptPart
<1>8. FrozenMoneyMatchesPayments' /\ WithdrawableMatchesPayments'
  BY <1>1, <1>2, <1>3, <1>7, LedgerStep
<1>9. WithdrawableNotNegative'
  <2> HIDE DEF x, platformP, merchantP, originatorP, inviterP, originator, inviter
  <2>1. ASSUME NEW q \in Purse PROVE withdrawable'[q] >= 0
    <3>1. withdrawable[q] >= 0
      BY DEF WithdrawableNotNegative
    <3>2. QED
      BY <1>4, <1>6, <3>1
  <2>2. QED
    BY <2>1 DEF WithdrawableNotNegative
<1>10. QED
  BY <1>2, <1>3, <1>8, <1>9

\* Unfreezing a payment without a coupon releases its whole price.
LEMMA UnfreezePlainLedger ==
  ASSUME LedgerInvariant, TypeOK', NEW p \in Serial, UnfreezePlain(p)
  PROVE  LedgerInvariant'
<1> USE DEF LedgerInvariant
<1> DEFINE x == payments[p]
           merchantP == <<x.merchant, x.pay_channel>>
<1>1. /\ payments' = [payments EXCEPT ![p].status = "FINISHED"]
      /\ x.status = "FROZEN"
      /\ ~HasCoupon(x)
      /\ withdrawable' = Add(withdrawable, merchantP, x.order_price)
      /\ balance' = balance /\ paidOut' = paidOut /\ coupons' = coupons
  BY DEF UnfreezePlain
<1>2. CouponsKept /\ CouponTerms'
  BY <1>1, SameCoupons
<1>3. /\ OthersKept(p) /\ CouponExists' /\ SharesNeedCoupon' /\ PartsNotNegative'
      /\ StatusBecomes(p, "FINISHED")
  BY <1>1, <1>2, StatusStep
<1>4. /\ merchantP \in Purse
      /\ x.order_price \in Nat
      /\ TotalShare(x) = 0 /\ x.platform_share = 0
      /\ MerchantPart(x) = x.order_price
  <2>1. /\ x.platform_share = 0 /\ x.inviter_share = 0 /\ x.originator_share = 0
    BY <1>1 DEF SharesNeedCoupon
  <2>2. TotalShare(x) = 0
    BY <2>1 DEF TotalShare
  <2>3. Discount(x) = 0
    BY <1>1 DEF Discount
  <2>4. merchantP \in Purse /\ x.order_price \in Nat
    BY PartsType, PurseType
  <2> HIDE DEF x
  <2>5. QED
    BY <2>1, <2>2, <2>3, <2>4 DEF MerchantPart, PaidPrice
<1>5. ASSUME NEW q \in Purse
      PROVE  /\ balance[q] \in Int /\ withdrawable[q] \in Int
             /\ withdrawable'[q] =
                  withdrawable[q] + (IF q = merchantP THEN x.order_price ELSE 0)
  <2>1. balance \in [Purse -> Int] /\ withdrawable \in [Purse -> Int]
    BY DEF TypeOK
  <2> HIDE DEF x, merchantP
  <2>2. QED
    BY <1>1, <1>4, <2>1 DEF Add
<1>6. MoneyFollows(p)
  <2> SUFFICES ASSUME NEW a \in Account, NEW ch \in Channel
               PROVE  /\ balance'[<<a, ch>>] - withdrawable'[<<a, ch>>] =
                           (balance[<<a, ch>>] - withdrawable[<<a, ch>>])
                             + ((HeldOf(a, ch)[p])' - HeldOf(a, ch)[p])
                      /\ withdrawable'[<<a, ch>>] =
                           withdrawable[<<a, ch>>]
                             + ((ReleasedOf(a, ch)[p])' - ReleasedOf(a, ch)[p])
    BY DEF MoneyFollows
  <2>1. /\ HeldOf(a, ch)[p] = IF x.pay_channel # ch THEN 0 ELSE FrozenPart(x, a)
        /\ (HeldOf(a, ch)[p])' = IF x.pay_channel # ch THEN 0 ELSE KeptPart(x, a)
        /\ ReleasedOf(a, ch)[p] = 0
        /\ (ReleasedOf(a, ch)[p])' = IF x.pay_channel # ch THEN 0 ELSE ReleasedPart(x, a)
    BY <1>1, <1>2, <1>3, StatusTerms
  <2>2. ReleasedPart(x, a) = IF a = x.merchant THEN x.order_price ELSE 0
    BY <1>1, <1>4 DEF ReleasedPart
  <2>3. <<a, ch>> \in Purse
    BY DEF Purse
  <2> HIDE DEF x
  <2>4. QED
    BY <1>1, <1>4, <1>5, <2>1, <2>2, <2>3 DEF FrozenPart, KeptPart
<1>7. FrozenMoneyMatchesPayments' /\ WithdrawableMatchesPayments'
  BY <1>1, <1>2, <1>3, <1>6, LedgerStep
<1>8. WithdrawableNotNegative'
  <2> HIDE DEF x, merchantP
  <2>1. ASSUME NEW q \in Purse PROVE withdrawable'[q] >= 0
    <3>1. withdrawable[q] >= 0
      BY DEF WithdrawableNotNegative
    <3>2. QED
      BY <1>4, <1>5, <3>1
  <2>2. QED
    BY <2>1 DEF WithdrawableNotNegative
<1>9. QED
  BY <1>2, <1>3, <1>7, <1>8

\* Money that leaves the platform leaves the withdrawable part of a purse.
LEMMA OutStep ==
  ASSUME LedgerInvariant, TypeOK', payments' = payments, coupons' = coupons,
         \A q \in Purse :
           /\ balance'[q] - withdrawable'[q] = balance[q] - withdrawable[q]
           /\ withdrawable'[q] + paidOut'[q] = withdrawable[q] + paidOut[q]
           /\ withdrawable'[q] >= 0
  PROVE  LedgerInvariant'
<1> USE DEF LedgerInvariant
<1>1. CouponTerms' /\ CouponExists' /\ SharesNeedCoupon' /\ PartsNotNegative'
  BY DEF CouponTerms, CouponExists, SharesNeedCoupon, HasCoupon, PartsNotNegative,
         MerchantPart, PaidPrice, Discount
<1>2. ASSUME NEW a \in Account, NEW ch \in Channel
      PROVE  /\ SumTo(HeldOf(a, ch), NPayments)' = SumTo(HeldOf(a, ch), NPayments)
             /\ SumTo(ReleasedOf(a, ch), NPayments)' = SumTo(ReleasedOf(a, ch), NPayments)
             /\ SumTo(ReleasedOf(a, ch), NPayments) \in Int
  <2>1. HeldOf(a, ch)' = HeldOf(a, ch) /\ ReleasedOf(a, ch)' = ReleasedOf(a, ch)
    BY DEF HeldOf, ReleasedOf, Held, Released, FrozenPart, KeptPart, ReleasedPart,
           HasCoupon, MerchantPart, PaidPrice, Discount
  <2>2. \A i \in 1..NPayments : ReleasedOf(a, ch)[i] \in Int
    BY TermsType DEF ReleasedOf, Serial
  <2>3. SumTo(ReleasedOf(a, ch), NPayments) \in Int
    <3> DEFINE r == ReleasedOf(a, ch)
    <3>1. \A i \in 1..NPayments : r[i] \in Int
      BY <2>2
    <3> HIDE DEF r
    <3>2. \A n \in 0..NPayments : SumTo(r, n) \in Int
      BY <3>1, SumToType
    <3>3. SumTo(r, NPayments) \in Int
      BY <3>2
    <3>4. QED
      BY <3>3 DEF r
  <2>4. QED
    BY <2>1, <2>3
<1>3. FrozenMoneyMatchesPayments'
  <2>1. ASSUME NEW a \in Account, NEW ch \in Channel
        PROVE  (balance[<<a, ch>>] - withdrawable[<<a, ch>>] =
                  SumTo(HeldOf(a, ch), NPayments))'
    <3>1. <<a, ch>> \in Purse
      BY DEF Purse
    <3>2. QED
      BY <1>2, <3>1 DEF FrozenMoneyMatchesPayments
  <2>2. QED
    BY <2>1 DEF FrozenMoneyMatchesPayments
<1>4. WithdrawableMatchesPayments'
  <2>1. ASSUME NEW a \in Account, NEW ch \in Channel
        PROVE  (withdrawable[<<a, ch>>] = InitialMoney(<<a, ch>>)
                  + SumTo(ReleasedOf(a, ch), NPayments) - paidOut[<<a, ch>>])'
    <3>1. <<a, ch>> \in Purse
      BY DEF Purse
    <3>2. /\ withdrawable[<<a, ch>>] \in Int /\ withdrawable'[<<a, ch>>] \in Int
          /\ paidOut[<<a, ch>>] \in Int /\ paidOut'[<<a, ch>>] \in Int
          /\ InitialMoney(<<a, ch>>) \in Int
      BY <3>1 DEF TypeOK, InitialMoney
    <3>3. withdrawable[<<a, ch>>] = InitialMoney(<<a, ch>>)
            + SumTo(ReleasedOf(a, ch), NPayments) - paidOut[<<a, ch>>]
      BY DEF WithdrawableMatchesPayments
    <3>4. withdrawable'[<<a, ch>>] + paidOut'[<<a, ch>>]
            = withdrawable[<<a, ch>>] + paidOut[<<a, ch>>]
      BY <3>1
    <3>5. QED
      BY <1>2, <3>2, <3>3, <3>4
  <2>2. QED
    BY <2>1 DEF WithdrawableMatchesPayments
<1>5. WithdrawableNotNegative'
  BY DEF WithdrawableNotNegative
<1>6. QED
  BY <1>1, <1>3, <1>4, <1>5

\* A settlement keeps the ledger, whatever it settles.
LEMMA SettleLedger ==
  ASSUME LedgerInvariant, TypeOK', NEW m \in Enterprise, NEW wa \in Nat, NEW aa \in Nat,
         Settle(m, wa, aa)
  PROVE  LedgerInvariant'
<1> DEFINE w == <<m, "WECHAT">>
           a == <<m, "ALIPAY">>
<1>0. /\ balance \in [Purse -> Int]
      /\ withdrawable \in [Purse -> Int]
      /\ paidOut \in [Purse -> Int]
      /\ \A q \in Purse : withdrawable[q] >= 0
  BY DEF LedgerInvariant, TypeOK, WithdrawableNotNegative
<1>1. w \in Purse /\ a \in Purse /\ w # a
  BY PurseType DEF Channel
<1>2. /\ withdrawable[w] >= wa /\ withdrawable[a] >= aa
      /\ balance' = Add(Add(balance, w, -wa), a, -aa)
      /\ withdrawable' = Add(Add(withdrawable, w, -wa), a, -aa)
      /\ paidOut' = Add(Add(paidOut, w, wa), a, aa)
      /\ payments' = payments /\ coupons' = coupons
  BY DEF Settle
<1> HIDE DEF w, a
<1>4. ASSUME NEW q \in Purse
      PROVE  /\ balance'[q] - withdrawable'[q] = balance[q] - withdrawable[q]
             /\ withdrawable'[q] + paidOut'[q] = withdrawable[q] + paidOut[q]
             /\ withdrawable'[q] >= 0
  BY <1>0, <1>1, <1>2 DEF Add
<1>5. QED
  BY <1>2, <1>4, OutStep

\* Every way out keeps the ledger.
LEMMA MoneyOutLedger ==
  ASSUME LedgerInvariant, TypeOK', MoneyOut
  PROVE  LedgerInvariant'
<1>1. /\ balance \in [Purse -> Int]
      /\ withdrawable \in [Purse -> Int]
      /\ paidOut \in [Purse -> Int]
      /\ \A q \in Purse : withdrawable[q] >= 0
  BY DEF LedgerInvariant, TypeOK, WithdrawableNotNegative
<1>2. ASSUME NEW purse \in Purse, NEW n \in Amount, PayOut(purse, n),
             payments' = payments, coupons' = coupons
      PROVE  LedgerInvariant'
  <2>1. n \in Nat
    OBVIOUS
  <2>2. ASSUME NEW q \in Purse
        PROVE  /\ balance'[q] - withdrawable'[q] = balance[q] - withdrawable[q]
               /\ withdrawable'[q] + paidOut'[q] = withdrawable[q] + paidOut[q]
               /\ withdrawable'[q] >= 0
    BY <1>1, <1>2, <2>1 DEF PayOut, TakeOut, Add
  <2>3. QED
    BY <1>2, <2>2, OutStep
<1>3. ASSUME NEW a \in Merchant \cup Marketer, NEW ch \in Channel, NEW n \in Amount,
             Withdraw(a, ch, n)
      PROVE  LedgerInvariant'
  BY <1>2, <1>3, PurseType DEF Withdraw
<1>4. ASSUME NEW n \in Amount, Transfer(n)
      PROVE  LedgerInvariant'
  BY <1>2, <1>4, PurseType DEF Transfer, Channel
<1>5. ASSUME NEW m \in Enterprise, NEW wa \in Amount, NEW aa \in Amount, Settle(m, wa, aa)
      PROVE  LedgerInvariant'
  BY <1>5, SettleLedger
<1>6. QED
  BY <1>3, <1>4, <1>5 DEF MoneyOut

-----------------------------------------------------------------------------
(* The theorems *)

\* An empty ledger is balanced.
LEMMA InitLedger == Init => LedgerInvariant
<1> SUFFICES ASSUME Init PROVE LedgerInvariant
  OBVIOUS
<1>1. TypeOK
  BY InitTypeOK
<1>2. CouponTerms
  BY CouponAssumption DEF Init, CouponTerms, NoCouponRow
<1>3. /\ CouponExists /\ SharesNeedCoupon /\ PartsNotNegative
      /\ \A p \in Serial : payments[p].status = "NONE"
  BY DEF Init, CouponExists, SharesNeedCoupon, PartsNotNegative, NoPayment, HasCoupon
<1>4. ASSUME NEW a \in Account, NEW ch \in Channel
      PROVE  SumTo(HeldOf(a, ch), NPayments) = 0 /\ SumTo(ReleasedOf(a, ch), NPayments) = 0
  <2>1. \A i \in 1..NPayments : HeldOf(a, ch)[i] = 0 /\ ReleasedOf(a, ch)[i] = 0
    BY <1>3 DEF HeldOf, ReleasedOf, Held, Released, Serial
  <2> DEFINE h == HeldOf(a, ch)
             r == ReleasedOf(a, ch)
  <2>2. (\A i \in 1..NPayments : h[i] = 0) /\ (\A i \in 1..NPayments : r[i] = 0)
    BY <2>1
  <2> HIDE DEF h, r
  <2>3. SumTo(h, NPayments) = 0 /\ SumTo(r, NPayments) = 0
    BY <2>2, SumToZero
  <2>4. QED
    BY <2>3 DEF h, r
<1>5. ASSUME NEW q \in Purse
      PROVE  /\ balance[q] = InitialMoney(q) /\ withdrawable[q] = InitialMoney(q)
             /\ paidOut[q] = 0 /\ InitialMoney(q) \in Nat
  BY DEF Init, InitialMoney
<1>6. FrozenMoneyMatchesPayments /\ WithdrawableMatchesPayments
  <2> SUFFICES ASSUME NEW a \in Account, NEW ch \in Channel
               PROVE  /\ balance[<<a, ch>>] - withdrawable[<<a, ch>>]
                           = SumTo(HeldOf(a, ch), NPayments)
                      /\ withdrawable[<<a, ch>>] = InitialMoney(<<a, ch>>)
                           + SumTo(ReleasedOf(a, ch), NPayments) - paidOut[<<a, ch>>]
    BY DEF FrozenMoneyMatchesPayments, WithdrawableMatchesPayments
  <2>1. <<a, ch>> \in Purse
    BY DEF Purse
  <2>2. QED
    BY <1>4, <1>5, <2>1
<1>7. WithdrawableNotNegative
  BY <1>5 DEF WithdrawableNotNegative
<1>8. QED
  BY <1>1, <1>2, <1>3, <1>6, <1>7 DEF LedgerInvariant

\* Every transaction keeps the ledger balanced.
LEMMA NextLedger == LedgerInvariant /\ [Next]_vars => LedgerInvariant'
<1> SUFFICES ASSUME LedgerInvariant, [Next]_vars PROVE LedgerInvariant'
  OBVIOUS
<1>1. TypeOK /\ TypeOK'
  BY NextTypeOK DEF LedgerInvariant
<1>2. ASSUME NEW p \in Serial, PaymentStep(p) PROVE LedgerInvariant'
  <2>1. ASSUME NEW ch \in Channel, NEW m \in Merchant, NEW c \in CouponId \cup {NoCoupon},
               NEW price \in OrderPrice, PlaceOrder(p, ch, m, c, price)
        PROVE  LedgerInvariant'
    BY <1>1, <2>1, PlaceOrderLedger
  <2>2. CASE CancelOrder(p)
    <3>1. /\ payments' = [payments EXCEPT ![p].status = "CANCELLED"]
          /\ payments[p].status = "UNPAID"
          /\ ReplaceCoupon(payments[p])
          /\ balance' = balance /\ withdrawable' = withdrawable /\ paidOut' = paidOut
      BY <2>2 DEF CancelOrder
    <3>2. CouponsKept /\ CouponTerms'
      BY <3>1, ReplaceCouponTerms DEF LedgerInvariant
    <3>3. QED
      BY <1>1, <3>1, <3>2, QuietStep
  <2>3. CASE OnPaymentSuccess(p)
    BY <1>1, <2>3, OnPaymentSuccessLedger
  <2>4. CASE RequestRefund(p)
    <3>1. /\ payments' = [payments EXCEPT ![p].status = "REFUND_REQUESTED"]
          /\ payments[p].status \in {"FROZEN", "REFUND_FAILED"}
          /\ coupons' = coupons
          /\ balance' = balance /\ withdrawable' = withdrawable /\ paidOut' = paidOut
      BY <2>4 DEF RequestRefund
    <3>2. CouponsKept /\ CouponTerms'
      BY <3>1, SameCoupons DEF LedgerInvariant
    <3>3. QED
      BY <1>1, <3>1, <3>2, QuietStep
  <2>5. CASE OnRefundFail(p)
    <3>1. /\ payments' = [payments EXCEPT ![p].status = "REFUND_FAILED"]
          /\ payments[p].status = "REFUND_REQUESTED"
          /\ coupons' = coupons
          /\ balance' = balance /\ withdrawable' = withdrawable /\ paidOut' = paidOut
      BY <2>5 DEF OnRefundFail, RefundPending
    <3>2. CouponsKept /\ CouponTerms'
      BY <3>1, SameCoupons DEF LedgerInvariant
    <3>3. QED
      BY <1>1, <3>1, <3>2, QuietStep
  <2>6. CASE OnRefundSuccess(p)
    BY <1>1, <2>6, OnRefundSuccessLedger
  <2>7. CASE OnPaymentUnfreeze(p)
    BY <1>1, <2>7, UnfreezeSharedLedger, UnfreezePlainLedger DEF OnPaymentUnfreeze
  <2>8. QED
    BY <1>2, <2>1, <2>2, <2>3, <2>4, <2>5, <2>6, <2>7 DEF PaymentStep
<1>3. CASE MoneyOut
  BY <1>1, <1>3, MoneyOutLedger
<1>4. CASE UNCHANGED vars
  <2>1. /\ payments' = payments /\ coupons' = coupons /\ balance' = balance
        /\ withdrawable' = withdrawable /\ paidOut' = paidOut
    BY <1>4 DEF vars
  <2>2. \A q \in Purse : withdrawable[q] >= 0
    BY DEF LedgerInvariant, WithdrawableNotNegative
  <2>3. QED
    BY <1>1, <2>1, <2>2, OutStep
<1>5. QED
  BY <1>2, <1>3, <1>4 DEF Next

\* The inductive invariant holds of every reachable ledger.
THEOREM LedgerCorrect == Spec => []LedgerInvariant
BY InitLedger, NextLedger, PTL DEF Spec

\* The frozen part of every balance is the money of the frozen payments.
THEOREM FrozenMoneyCorrect == Spec => []FrozenMoneyMatchesPayments
<1>1. LedgerInvariant => FrozenMoneyMatchesPayments
  BY DEF LedgerInvariant
<1>2. QED
  BY <1>1, LedgerCorrect, PTL

\* The withdrawable part of every balance is what was released to it and not
\* yet paid out.
THEOREM WithdrawableCorrect == Spec => []WithdrawableMatchesPayments
<1>1. LedgerInvariant => WithdrawableMatchesPayments
  BY DEF LedgerInvariant
<1>2. QED
  BY <1>1, LedgerCorrect, PTL

\* No sale costs its merchant anything: PartsNotNegative for every price.
THEOREM PartsCorrect == Spec => []PartsNotNegative
<1>1. LedgerInvariant => PartsNotNegative
  BY DEF LedgerInvariant
<1>2. QED
  BY <1>1, LedgerCorrect, PTL

\* No purse is overdrawn: what is frozen is not negative, so what can be
\* withdrawn is covered by the balance.
THEOREM NoOverdraftCorrect == Spec => []NoOverdraft
<1>1. LedgerInvariant => NoOverdraft
  <2> SUFFICES ASSUME LedgerInvariant, NEW purse \in Purse
               PROVE  0 <= withdrawable[purse] /\ withdrawable[purse] <= balance[purse]
    BY DEF NoOverdraft
  <2>1. PICK a \in Account, ch \in Channel : purse = <<a, ch>>
    BY DEF Purse
  <2>2. TypeOK /\ PartsNotNegative /\ withdrawable[purse] >= 0
    BY DEF LedgerInvariant, WithdrawableNotNegative
  <2>3. balance[purse] \in Int /\ withdrawable[purse] \in Int
    BY <2>2 DEF TypeOK
  <2>4. SumTo(HeldOf(a, ch), NPayments) \in Int /\ SumTo(HeldOf(a, ch), NPayments) >= 0
    <3> DEFINE h == HeldOf(a, ch)
    <3>1. \A i \in 1..NPayments : h[i] \in Int /\ h[i] >= 0
      BY <2>2, TermsType DEF HeldOf, Serial
    <3> HIDE DEF h
    <3>2. SumTo(h, NPayments) \in Int /\ SumTo(h, NPayments) >= 0
      BY <3>1, SumToNonNegative
    <3>3. QED
      BY <3>2 DEF h
  <2>5. balance[purse] - withdrawable[purse] = SumTo(HeldOf(a, ch), NPayments)
    BY <2>1 DEF LedgerInvariant, FrozenMoneyMatchesPayments
  <2>6. QED
    BY <2>2, <2>3, <2>4, <2>5
<1>2. QED
  BY <1>1, LedgerCorrect, PTL

-----------------------------------------------------------------------------
(* The escrow: each transaction of the ledger is a step of the abstract one,  *)
(* or none.  A step moves the total of all accounts by the sum of what it adds*)
(* to single purses (TotalAdd), whatever accounts these are.                  *)

\* Every account has one place in the order of accounts.
LEMMA AccountsOrdered ==
  /\ NAccounts \in Nat
  /\ AccountOrder \in [1..NAccounts -> Account]
  /\ \A i, j \in 1..NAccounts : AccountOrder[i] = AccountOrder[j] => i = j
  /\ \A a \in Account : \E i \in 1..NAccounts : AccountOrder[i] = a
<1>1. IsFiniteSet(Account)
  <2>1. IsFiniteSet({Platform}) /\ IsFiniteSet(Merchant) /\ IsFiniteSet(Marketer)
    BY FS_Singleton, FiniteAssumption
  <2>2. IsFiniteSet({Platform} \cup Merchant)
    BY <2>1, FS_Union
  <2>3. QED
    BY <2>1, <2>2, FS_Union DEF Account
<1>2. NAccounts \in Nat /\ ExistsBijection(1..NAccounts, Account)
  BY <1>1, FS_CardinalityType DEF NAccounts
<1> DEFINE Once(o) == \A i, j \in 1..NAccounts : o[i] = o[j] => i = j
<1>3. \E o \in [1..NAccounts -> Account] : Once(o)
  BY <1>2 DEF ExistsBijection, Bijection, Injection, IsInjective
<1>4. AccountOrder \in [1..NAccounts -> Account] /\ Once(AccountOrder)
  BY <1>3 DEF AccountOrder
<1>5. IsFiniteSet(1..NAccounts) /\ Cardinality(1..NAccounts) = NAccounts
  BY <1>2, FS_Interval
<1>6. AccountOrder \in Injection(1..NAccounts, Account)
  BY <1>4 DEF Injection, IsInjective
<1>7. AccountOrder \in Surjection(1..NAccounts, Account)
  BY <1>1, <1>5, <1>6, FS_Injection DEF NAccounts
<1>8. QED
  BY <1>2, <1>4, <1>7 DEF Surjection

\* The total is a sum of integers, one for each account.
LEMMA TotalTerms ==
  ASSUME NEW f \in [Purse -> Int]
  PROVE  \A i \in 1..NAccounts :
           /\ f[<<AccountOrder[i], "WECHAT">>] \in Int
           /\ f[<<AccountOrder[i], "ALIPAY">>] \in Int
           /\ [k \in 1..NAccounts |-> BothOf(f, AccountOrder[k])][i] \in Int
BY AccountsOrdered DEF Purse, Channel, BothOf

\* What is added to one purse is added to the total.
LEMMA TotalAdd ==
  ASSUME NEW f \in [Purse -> Int], NEW a \in Account, NEW ch \in Channel, NEW d \in Int
  PROVE  /\ Add(f, <<a, ch>>, d) \in [Purse -> Int]
         /\ Total(f) \in Int
         /\ Total(Add(f, <<a, ch>>, d)) = Total(f) + d
<1> DEFINE g == Add(f, <<a, ch>>, d)
           F == [i \in 1..NAccounts |-> BothOf(f, AccountOrder[i])]
           G == [i \in 1..NAccounts |-> BothOf(g, AccountOrder[i])]
<1>1. <<a, ch>> \in Purse
  BY DEF Purse
<1>2. /\ g \in [Purse -> Int]
      /\ g[<<a, ch>>] = f[<<a, ch>>] + d
      /\ \A q \in Purse : q # <<a, ch>> => g[q] = f[q]
  BY <1>1 DEF Add
<1> HIDE DEF g
<1>3. PICK k \in 1..NAccounts : AccountOrder[k] = a
  BY AccountsOrdered
<1>4. \A i \in 1..NAccounts : F[i] \in Int /\ G[i] \in Int
  BY <1>2, TotalTerms
<1>5. ASSUME NEW i \in 1..NAccounts, i # k
      PROVE  G[i] = F[i]
  <2>1. AccountOrder[i] \in Account /\ AccountOrder[i] # a
    BY <1>3, <1>5, AccountsOrdered
  <2>2. \A c \in Channel : g[<<AccountOrder[i], c>>] = f[<<AccountOrder[i], c>>]
    BY <1>2, <2>1 DEF Purse
  <2>3. QED
    BY <2>2 DEF BothOf, Channel
<1>6. G[k] - F[k] = d
  <2>1. F[k] = f[<<a, "WECHAT">>] + f[<<a, "ALIPAY">>]
    BY <1>3 DEF BothOf
  <2>2. G[k] = g[<<a, "WECHAT">>] + g[<<a, "ALIPAY">>]
    BY <1>3 DEF BothOf
  <2>3. f[<<a, "WECHAT">>] \in Int /\ f[<<a, "ALIPAY">>] \in Int
    BY DEF Purse, Channel
  <2>4. \/ /\ g[<<a, "WECHAT">>] = f[<<a, "WECHAT">>] + d
           /\ g[<<a, "ALIPAY">>] = f[<<a, "ALIPAY">>]
        \/ /\ g[<<a, "ALIPAY">>] = f[<<a, "ALIPAY">>] + d
           /\ g[<<a, "WECHAT">>] = f[<<a, "WECHAT">>]
    BY <1>2 DEF Purse, Channel
  <2>5. QED
    BY <2>1, <2>2, <2>3, <2>4
<1>7. Total(f) = SumTo(F, NAccounts) /\ Total(g) = SumTo(G, NAccounts)
  BY DEF Total
<1>8. NAccounts \in Nat
  BY AccountsOrdered
<1> HIDE DEF F, G
<1>9. SumTo(G, NAccounts) = SumTo(F, NAccounts) + (G[k] - F[k])
  <2>1. \A i \in 1..NAccounts : i # k => G[i] = F[i]
    BY <1>5
  <2>2. QED
    BY <1>4, <1>8, <2>1, SumToUpdate, SMTT(60)
<1>10. SumTo(F, NAccounts) \in Int
  <2>1. NAccounts \in 0..NAccounts
    BY <1>8
  <2>2. QED
    BY <1>4, <1>8, <2>1, SumToType
<1>11. Total(g) = Total(f) + d /\ Total(f) \in Int
  BY <1>6, <1>7, <1>9, <1>10
<1>12. QED
  BY <1>2, <1>11 DEF g

\* What nobody owes is not owed together.
LEMMA TotalNotNegative ==
  ASSUME NEW f \in [Purse -> Int], \A q \in Purse : f[q] >= 0
  PROVE  Total(f) \in Int /\ Total(f) >= 0
<1> DEFINE F == [i \in 1..NAccounts |-> BothOf(f, AccountOrder[i])]
<1>1. \A i \in 1..NAccounts : F[i] \in Int /\ F[i] >= 0
  <2> SUFFICES ASSUME NEW i \in 1..NAccounts PROVE F[i] \in Int /\ F[i] >= 0
    OBVIOUS
  <2>1. /\ <<AccountOrder[i], "WECHAT">> \in Purse
        /\ <<AccountOrder[i], "ALIPAY">> \in Purse
    BY AccountsOrdered DEF Purse, Channel
  <2>2. QED
    BY <2>1 DEF BothOf
<1>2. NAccounts \in Nat
  BY AccountsOrdered
<1>3. Total(f) = SumTo(F, NAccounts)
  BY DEF Total
<1> HIDE DEF F
<1>4. QED
  BY <1>1, <1>2, <1>3, SumToNonNegative

\* The stage and the price of every other sale stay, and so do all prices
\* when payment p only changes its status.
LEMMA SalesStay ==
  ASSUME TypeOK, CouponExists, CouponsKept, NEW p \in Serial, OthersKept(p)
  PROVE  /\ Stage' = [Stage EXCEPT ![p] = StageOf(payments'[p].status)]
         /\ \A q \in Serial \ {p} : Price'[q] = Price[q]
         /\ \A s : StatusBecomes(p, s) => Price' = Price
<1>1. \A q \in Serial : q # p => payments'[q] = payments[q]
  BY DEF OthersKept
<1>2. Stage' = [Stage EXCEPT ![p] = StageOf(payments'[p].status)]
  BY <1>1 DEF Stage
<1>3. \A q \in Serial : HasCoupon(payments[q]) =>
        coupons'[payments[q].coupon].discount = coupons[payments[q].coupon].discount
  BY CouponType DEF CouponExists, CouponsKept
<1>4. ASSUME NEW q \in Serial,
             payments'[q].coupon = payments[q].coupon,
             payments'[q].order_price = payments[q].order_price
      PROVE  Price'[q] = Price[q]
  <2>1. PaidPrice(payments[q])' = PaidPrice(payments[q])
    BY <1>3, <1>4 DEF PaidPrice, Discount, HasCoupon
  <2>2. QED
    BY <2>1 DEF Price
<1>5. \A q \in Serial \ {p} : Price'[q] = Price[q]
  BY <1>1, <1>4
<1>6. ASSUME NEW s, StatusBecomes(p, s)
      PROVE  Price' = Price
  <2>1. Price'[p] = Price[p]
    BY <1>4, <1>6 DEF StatusBecomes
  <2>2. \A q \in Serial : Price'[q] = Price[q]
    BY <1>5, <2>1
  <2>3. QED
    BY <2>2 DEF Price
<1>7. QED
  BY <1>2, <1>5, <1>6

\* A payment that only changes its status, with money that may move: its sale
\* moves on between the stages of the two statuses.
LEMMA SaleMoves ==
  ASSUME LedgerInvariant, NEW p \in Serial, NEW s, CouponsKept,
         payments' = [payments EXCEPT ![p].status = s],
         payments[p].status # "NONE"
  PROVE  /\ Price' = Price
         /\ Stage[p] = StageOf(payments[p].status)
         /\ Stage' = [Stage EXCEPT ![p] = StageOf(s)]
         /\ Price[p] = PaidPrice(payments[p])
<1>1. /\ TypeOK /\ CouponExists /\ SharesNeedCoupon /\ PartsNotNegative
  BY DEF LedgerInvariant
<1>2. OthersKept(p) /\ StatusBecomes(p, s)
  BY <1>1, StatusStep
<1>3. payments'[p].status = s
  BY <1>2 DEF StatusBecomes
<1>4. QED
  BY <1>1, <1>2, <1>3, SalesStay DEF Stage, Price

\* An order opens a sale at the price the client is to pay.
LEMMA PlaceOrderEscrow ==
  ASSUME LedgerInvariant, NEW p \in Serial,
         NEW ch \in Channel, NEW m \in Merchant,
         NEW c \in CouponId \cup {NoCoupon}, NEW price \in OrderPrice,
         PlaceOrder(p, ch, m, c, price)
  PROVE  E!Open(p)
<1>1. TypeOK /\ CouponTerms /\ CouponExists /\ SharesNeedCoupon /\ PartsNotNegative
  BY DEF LedgerInvariant
<1>2. CouponsKept
  BY <1>1, PlaceOrderCoupons
<1>3. /\ OthersKept(p) /\ payments[p].status = "NONE" /\ payments'[p].status = "UNPAID"
  BY <1>1, <1>2, PlaceOrderStep
<1>4. Stage[p] = "none" /\ Stage' = [Stage EXCEPT ![p] = "open"]
  <2>1. Stage[p] = StageOf("NONE") /\ Stage' = [Stage EXCEPT ![p] = StageOf("UNPAID")]
    BY <1>1, <1>2, <1>3, SalesStay DEF Stage
  <2>2. StageOf("NONE") = "none" /\ StageOf("UNPAID") = "open"
    BY DEF StageOf
  <2>3. QED
    BY <2>1, <2>2
<1>5. \A q \in Serial \ {p} : Price'[q] = Price[q]
  BY <1>1, <1>2, <1>3, SalesStay
<1>6. Price'[p] \in Nat
  <2>1. payments'[p].coupon = c /\ payments'[p].order_price = price
    BY <1>1 DEF PlaceOrder, TypeOK
  <2>2. price \in Nat
    BY BoundAssumption
  <2>3. c # NoCoupon => /\ c \in CouponId
                        /\ coupons[c].status = "NOT_USED"
                        /\ coupons[c].min_charge <= price
                        /\ coupons[c] \in Coupon
    BY <1>1 DEF PlaceOrder, NoCoupon, TypeOK
  <2>4. c # NoCoupon => /\ coupons'[c].discount \in Nat
                        /\ coupons'[c].discount < price
    BY <1>1, <1>2, <2>2, <2>3 DEF CouponTerms, Coupon, CouponsKept
  <2>5. PaidPrice(payments[p])' \in Nat
    BY <2>1, <2>2, <2>4 DEF PaidPrice, Discount, HasCoupon
  <2>6. QED
    BY <2>5 DEF Price
<1>7. Total(balance)' = Total(balance) /\ Total(withdrawable)' = Total(withdrawable)
  BY DEF PlaceOrder
<1>8. QED
  BY <1>4, <1>5, <1>6, <1>7 DEF E!Open, E!Moves

\* An order that is cancelled voids its sale, coupon and all.
LEMMA CancelOrderEscrow ==
  ASSUME LedgerInvariant, NEW p \in Serial, CancelOrder(p)
  PROVE  E!Void(p)
<1>1. TypeOK /\ CouponTerms /\ CouponExists
  BY DEF LedgerInvariant
<1>2. CouponsKept
  BY <1>1, ReplaceCouponTerms DEF CancelOrder
<1>3. /\ Price' = Price
      /\ Stage[p] = StageOf("UNPAID") /\ Stage' = [Stage EXCEPT ![p] = StageOf("CANCELLED")]
  BY <1>2, SaleMoves DEF CancelOrder
<1>4. StageOf("UNPAID") = "open" /\ StageOf("CANCELLED") = "void"
  BY DEF StageOf
<1>5. Total(balance)' = Total(balance) /\ Total(withdrawable)' = Total(withdrawable)
  BY DEF CancelOrder
<1>6. QED
  BY <1>3, <1>4, <1>5 DEF E!Void, E!Moves

\* What a client pays goes into the pot in full: the share of the platform and
\* the part of the merchant make up the price.
LEMMA OnPaymentSuccessEscrow ==
  ASSUME LedgerInvariant, NEW p \in Serial, OnPaymentSuccess(p)
  PROVE  E!Pay(p)
<1> DEFINE x == payments[p]
           t == TotalShare(payments[p])
           n == MerchantPart(payments[p])
           f == Add(balance, <<Platform, x.pay_channel>>, t)
<1>1. TypeOK /\ CouponTerms
  BY DEF LedgerInvariant
<1>2. CouponsKept
  BY <1>1, SameCoupons DEF OnPaymentSuccess
<1>3. /\ Price' = Price /\ Price[p] = PaidPrice(payments[p])
      /\ Stage[p] = StageOf("UNPAID") /\ Stage' = [Stage EXCEPT ![p] = StageOf("FROZEN")]
  BY <1>2, SaleMoves DEF OnPaymentSuccess
<1>4. StageOf("UNPAID") = "open" /\ StageOf("FROZEN") = "held"
  BY DEF StageOf
<1>5. /\ t \in Int /\ n \in Int /\ PaidPrice(x) \in Int
      /\ x.pay_channel \in Channel
      /\ Platform \in Account /\ x.merchant \in Account
  BY <1>1, PartsType DEF Account
<1>6. t + n = PaidPrice(x)
  BY <1>5 DEF MerchantPart
<1>7. balance' = Add(f, <<x.merchant, x.pay_channel>>, n) /\ withdrawable' = withdrawable
  BY DEF OnPaymentSuccess
<1>8. balance \in [Purse -> Int]
  BY <1>1 DEF TypeOK
<1> HIDE DEF t, n, x
<1>9. f \in [Purse -> Int] /\ Total(balance) \in Int /\ Total(f) = Total(balance) + t
  BY <1>5, <1>8, TotalAdd
<1> HIDE DEF f
<1>10. Total(balance') = Total(f) + n
  BY <1>5, <1>7, <1>9, TotalAdd
<1>11. Total(balance') = Total(balance) + Price[p] /\ Total(withdrawable') = Total(withdrawable)
  BY <1>3, <1>5, <1>6, <1>7, <1>9, <1>10 DEF x
<1>12. QED
  BY <1>3, <1>4, <1>11 DEF E!Pay, E!Moves

\* A refund takes the price out of the pot, all of it.
LEMMA OnRefundSuccessEscrow ==
  ASSUME LedgerInvariant, NEW p \in Serial, OnRefundSuccess(p)
  PROVE  E!Refund(p)
<1> DEFINE x == payments[p]
           t == TotalShare(payments[p])
           n == MerchantPart(payments[p])
           f == Add(balance, <<x.merchant, x.pay_channel>>, -n)
<1>1. TypeOK /\ CouponTerms /\ CouponExists
  BY DEF LedgerInvariant
<1>2. CouponsKept
  BY <1>1, ReplaceCouponTerms DEF OnRefundSuccess
<1>3. /\ Price' = Price /\ Price[p] = PaidPrice(payments[p])
      /\ Stage[p] = StageOf("REFUND_REQUESTED")
      /\ Stage' = [Stage EXCEPT ![p] = StageOf("REFUND")]
  BY <1>2, SaleMoves DEF OnRefundSuccess, RefundPending
<1>4. StageOf("REFUND_REQUESTED") = "held" /\ StageOf("REFUND") = "refunded"
  BY DEF StageOf
<1>5. /\ t \in Int /\ n \in Int /\ PaidPrice(x) \in Int /\ -t \in Int /\ -n \in Int
      /\ x.pay_channel \in Channel
      /\ Platform \in Account /\ x.merchant \in Account
  BY <1>1, PartsType DEF Account
<1>6. t + n = PaidPrice(x)
  BY <1>5 DEF MerchantPart
<1>7. balance' = Add(f, <<Platform, x.pay_channel>>, -t) /\ withdrawable' = withdrawable
  BY DEF OnRefundSuccess
<1>8. balance \in [Purse -> Int]
  BY <1>1 DEF TypeOK
<1> HIDE DEF t, n, x
<1>9. f \in [Purse -> Int] /\ Total(balance) \in Int /\ Total(f) = Total(balance) + (-n)
  BY <1>5, <1>8, TotalAdd
<1> HIDE DEF f
<1>10. Total(balance') = Total(f) + (-t)
  BY <1>5, <1>7, <1>9, TotalAdd
<1>11. Total(balance') = Total(balance) - Price[p] /\ Total(withdrawable') = Total(withdrawable)
  BY <1>3, <1>5, <1>6, <1>7, <1>9, <1>10 DEF x
<1>12. QED
  BY <1>3, <1>4, <1>11 DEF E!Refund, E!Moves

\* A refund that is asked for, or fails, leaves its sale in escrow.
LEMMA RefundWaitsEscrow ==
  ASSUME LedgerInvariant, NEW p \in Serial, RequestRefund(p) \/ OnRefundFail(p)
  PROVE  UNCHANGED E!escrow
<1>1. PICK s \in {"REFUND_REQUESTED", "REFUND_FAILED"} :
        payments' = [payments EXCEPT ![p].status = s]
  BY DEF RequestRefund, OnRefundFail
<1>2. /\ payments[p].status \in {"FROZEN", "REFUND_REQUESTED", "REFUND_FAILED"}
      /\ coupons' = coupons /\ balance' = balance /\ withdrawable' = withdrawable
  BY DEF RequestRefund, OnRefundFail, RefundPending
<1>3. CouponsKept
  BY <1>2, SameCoupons DEF LedgerInvariant
<1>4. /\ Price' = Price
      /\ Stage[p] = StageOf(payments[p].status)
      /\ Stage' = [Stage EXCEPT ![p] = StageOf(s)]
  BY <1>1, <1>2, <1>3, SaleMoves
<1>5. StageOf(payments[p].status) = "held" /\ StageOf(s) = "held"
  BY <1>2 DEF StageOf
<1>6. Stage' = Stage
  BY <1>4, <1>5 DEF Stage
<1>7. Total(balance)' = Total(balance) /\ Total(withdrawable)' = Total(withdrawable)
  BY <1>2
<1>8. QED
  BY <1>4, <1>6, <1>7 DEF E!escrow

\* The end of a freeze without a coupon releases the price to the merchant.
LEMMA UnfreezePlainEscrow ==
  ASSUME LedgerInvariant, NEW p \in Serial, UnfreezePlain(p)
  PROVE  E!Release(p)
<1> DEFINE x == payments[p]
           n == payments[p].order_price
<1>1. TypeOK
  BY DEF LedgerInvariant
<1>2. CouponsKept
  BY SameCoupons DEF UnfreezePlain, LedgerInvariant
<1>3. /\ Price' = Price /\ Price[p] = PaidPrice(payments[p])
      /\ Stage[p] = StageOf("FROZEN") /\ Stage' = [Stage EXCEPT ![p] = StageOf("FINISHED")]
  BY <1>2, SaleMoves DEF UnfreezePlain
<1>4. StageOf("FROZEN") = "held" /\ StageOf("FINISHED") = "released"
  BY DEF StageOf
<1>5. /\ n \in Nat /\ x.pay_channel \in Channel /\ x.merchant \in Account
  BY <1>1, PartsType DEF Account
<1>6. PaidPrice(x) = n
  BY <1>5 DEF PaidPrice, Discount, UnfreezePlain
<1>7. /\ withdrawable' = Add(withdrawable, <<x.merchant, x.pay_channel>>, n)
      /\ balance' = balance
  BY DEF UnfreezePlain
<1>8. withdrawable \in [Purse -> Int]
  BY <1>1 DEF TypeOK
<1> HIDE DEF n, x
<1>9. /\ Total(withdrawable) \in Int
      /\ Total(withdrawable') = Total(withdrawable) + n
  BY <1>5, <1>7, <1>8, TotalAdd
<1>10. /\ Total(withdrawable') \in Total(withdrawable)..(Total(withdrawable) + Price[p])
       /\ Total(balance') = Total(balance)
  <2>1. Price[p] = n
    BY <1>3, <1>6 DEF x
  <2>2. QED
    BY <1>5, <1>7, <1>9, <2>1
<1>11. QED
  BY <1>3, <1>4, <1>10 DEF E!Release, E!Moves

\* The end of a freeze with a coupon moves the shares of the inviter and the
\* originator between purses, and releases all but the share of the platform.
LEMMA UnfreezeSharedEscrow ==
  ASSUME LedgerInvariant, NEW p \in Serial, UnfreezeShared(p)
  PROVE  E!Release(p)
<1> DEFINE x == payments[p]
           ch == payments[p].pay_channel
           a == coupons[payments[p].coupon].originator
           b == Inviter[payments[p].merchant]
           o == payments[p].originator_share
           i == payments[p].inviter_share
           s == payments[p].platform_share
           n == MerchantPart(payments[p])
<1>1. TypeOK /\ PartsNotNegative
  BY DEF LedgerInvariant
<1>2. CouponsKept
  BY SameCoupons DEF UnfreezeShared, LedgerInvariant
<1>3. /\ Price' = Price /\ Price[p] = PaidPrice(payments[p])
      /\ Stage[p] = StageOf("FROZEN") /\ Stage' = [Stage EXCEPT ![p] = StageOf("FINISHED")]
  BY <1>2, SaleMoves DEF UnfreezeShared
<1>4. StageOf("FROZEN") = "held" /\ StageOf("FINISHED") = "released"
  BY DEF StageOf
<1>5. /\ o \in Nat /\ i \in Nat /\ s \in Nat /\ n \in Int /\ PaidPrice(x) \in Int
      /\ ch \in Channel /\ x.merchant \in Account /\ x.merchant \in Merchant
      /\ Platform \in Account
  BY <1>1, PartsType DEF Account
<1>6. a \in Account /\ b \in Account
  <2>1. a \in Merchant
    BY <1>1, CouponType DEF UnfreezeShared
  <2>2. b \in Marketer
    BY <1>5, AccountAssumption DEF UnfreezeShared
  <2>3. QED
    BY <2>1, <2>2 DEF Account
<1>7. n >= 0
  BY <1>1 DEF PartsNotNegative, UnfreezeShared
<1>8. PaidPrice(x) = n + s + i + o
  <2>1. TotalShare(x) = s + i + o
    BY DEF TotalShare
  <2>2. n = PaidPrice(x) - TotalShare(x)
    BY DEF MerchantPart
  <2> HIDE DEF n, s, i, o, x
  <2>3. QED
    BY <1>5, <2>1, <2>2
<1> DEFINE f1 == Add(balance, <<Platform, ch>>, -(o + i))
           f2 == Add(f1, <<a, ch>>, o)
           g1 == Add(withdrawable, <<a, ch>>, o)
           g2 == Add(g1, <<b, ch>>, i)
<1>9. /\ balance' = Add(f2, <<b, ch>>, i)
      /\ withdrawable' = Add(g2, <<x.merchant, ch>>, n)
  BY DEF UnfreezeShared
<1>10. balance \in [Purse -> Int] /\ withdrawable \in [Purse -> Int]
  BY <1>1 DEF TypeOK
<1>11. -(o + i) \in Int /\ o \in Int /\ i \in Int
  BY <1>5
<1> HIDE DEF n, s, i, o, x, a, b, ch
<1>12. /\ f1 \in [Purse -> Int] /\ Total(balance) \in Int
       /\ Total(f1) = Total(balance) + (-(o + i))
  BY <1>5, <1>10, <1>11, TotalAdd
<1>13. /\ g1 \in [Purse -> Int] /\ Total(withdrawable) \in Int
       /\ Total(g1) = Total(withdrawable) + o
  <2>1. withdrawable \in [Purse -> Int] /\ a \in Account /\ ch \in Channel /\ o \in Int
    BY <1>5, <1>6, <1>10, <1>11
  <2>2. QED
    BY <2>1, TotalAdd
<1> HIDE DEF f1, g1
<1>14. f2 \in [Purse -> Int] /\ Total(f2) = Total(f1) + o
  BY <1>5, <1>6, <1>11, <1>12, TotalAdd
<1>15. g2 \in [Purse -> Int] /\ Total(g2) = Total(g1) + i
  BY <1>5, <1>6, <1>11, <1>13, TotalAdd
<1> HIDE DEF f2, g2
<1>16. Total(balance') = Total(f2) + i
  BY <1>5, <1>6, <1>9, <1>11, <1>14, TotalAdd
<1>17. Total(withdrawable') = Total(g2) + n
  BY <1>5, <1>9, <1>15, TotalAdd
<1>18. Total(balance') = Total(balance)
  BY <1>5, <1>12, <1>14, <1>16
<1>19. Total(withdrawable') \in Total(withdrawable)..(Total(withdrawable) + Price[p])
  <2>1. Price[p] = n + s + i + o
    BY <1>3, <1>8 DEF x
  <2>2. QED
    BY <1>5, <1>7, <1>13, <1>15, <1>17, <2>1
<1>20. QED
  BY <1>3, <1>4, <1>18, <1>19 DEF E!Release, E!Moves

\* Money that leaves a purse leaves the pot, and what can be paid out is never
\* less than nothing.
LEMMA MoneyOutEscrow ==
  ASSUME LedgerInvariant, LedgerInvariant', MoneyOut
  PROVE  E!PayOut
<1>1. /\ balance \in [Purse -> Int] /\ withdrawable \in [Purse -> Int]
      /\ withdrawable' \in [Purse -> Int]
      /\ \A q \in Purse : withdrawable'[q] >= 0
  BY DEF LedgerInvariant, TypeOK, WithdrawableNotNegative
<1>2. Total(withdrawable') \in Int /\ Total(withdrawable') >= 0
  BY <1>1, TotalNotNegative
<1>3. SUFFICES ASSUME NEW n \in Nat,
                      Total(balance) \in Int, Total(withdrawable) \in Int,
                      Total(balance') = Total(balance) - n,
                      Total(withdrawable') = Total(withdrawable) - n
               PROVE  E!PayOut
  <2>1. ASSUME NEW a \in Account, NEW ch \in Channel, NEW n \in Amount,
               PayOut(<<a, ch>>, n)
        PROVE  \E k \in Nat : /\ Total(balance) \in Int /\ Total(withdrawable) \in Int
                              /\ Total(balance') = Total(balance) - k
                              /\ Total(withdrawable') = Total(withdrawable) - k
    <3>1. n \in Nat /\ -n \in Int
      BY BoundAssumption
    <3>2. /\ balance' = Add(balance, <<a, ch>>, -n)
          /\ withdrawable' = Add(withdrawable, <<a, ch>>, -n)
      BY <2>1 DEF PayOut, TakeOut
    <3>3. Total(balance) \in Int /\ Total(balance') = Total(balance) + (-n)
      <4>1. /\ Total(balance) \in Int
            /\ Total(Add(balance, <<a, ch>>, -n)) = Total(balance) + (-n)
        <5>1. balance \in [Purse -> Int]
          BY <1>1
        <5>2. QED
          BY <3>1, <5>1, TotalAdd
      <4>2. QED
        BY <3>2, <4>1
    <3>4. Total(withdrawable) \in Int /\ Total(withdrawable') = Total(withdrawable) + (-n)
      <4>1. /\ Total(withdrawable) \in Int
            /\ Total(Add(withdrawable, <<a, ch>>, -n)) = Total(withdrawable) + (-n)
        <5>1. withdrawable \in [Purse -> Int]
          BY <1>1
        <5>2. QED
          BY <3>1, <5>1, TotalAdd
      <4>2. QED
        BY <3>2, <4>1
    <3>5. QED
      BY <3>1, <3>3, <3>4
  <2>2. ASSUME NEW m \in Enterprise, NEW w \in Amount, NEW v \in Amount, Settle(m, w, v)
        PROVE  \E k \in Nat : /\ Total(balance) \in Int /\ Total(withdrawable) \in Int
                              /\ Total(balance') = Total(balance) - k
                              /\ Total(withdrawable') = Total(withdrawable) - k
    <3> DEFINE f == Add(balance, <<m, "WECHAT">>, -w)
               g == Add(withdrawable, <<m, "WECHAT">>, -w)
    <3>1. w \in Nat /\ -w \in Int /\ v \in Nat /\ -v \in Int /\ w + v \in Nat
      BY BoundAssumption
    <3>2. m \in Account /\ "WECHAT" \in Channel /\ "ALIPAY" \in Channel
      BY AccountAssumption DEF Account, Channel
    <3>3. /\ balance' = Add(f, <<m, "ALIPAY">>, -v)
          /\ withdrawable' = Add(g, <<m, "ALIPAY">>, -v)
      BY <2>2 DEF Settle
    <3>4. f \in [Purse -> Int] /\ Total(balance) \in Int /\ Total(f) = Total(balance) + (-w)
      BY <1>1, <3>1, <3>2, TotalAdd
    <3>5. /\ g \in [Purse -> Int] /\ Total(withdrawable) \in Int
          /\ Total(g) = Total(withdrawable) + (-w)
      <4>1. withdrawable \in [Purse -> Int]
        BY <1>1
      <4>2. QED
        BY <3>1, <3>2, <4>1, TotalAdd
    <3> HIDE DEF f, g
    <3>6. Total(balance') = Total(f) + (-v) /\ Total(withdrawable') = Total(g) + (-v)
      <4>1. Total(Add(f, <<m, "ALIPAY">>, -v)) = Total(f) + (-v)
        BY <3>1, <3>2, <3>4, TotalAdd
      <4>2. Total(Add(g, <<m, "ALIPAY">>, -v)) = Total(g) + (-v)
        BY <3>1, <3>2, <3>5, TotalAdd
      <4>3. QED
        BY <3>3, <4>1, <4>2
    <3>7. /\ Total(balance') = Total(balance) - (w + v)
          /\ Total(withdrawable') = Total(withdrawable) - (w + v)
      BY <3>1, <3>4, <3>5, <3>6
    <3>8. QED
      BY <3>1, <3>4, <3>5, <3>7
  <2>3. \A a \in Merchant \cup Marketer : a \in Account
    BY DEF Account
  <2>4. Platform \in Account /\ "ALIPAY" \in Channel
    BY DEF Account, Channel
  <2>5. QED
    BY <1>3, <2>1, <2>2, <2>3, <2>4 DEF MoneyOut, Withdraw, Transfer
<1>4. payments' = payments /\ coupons' = coupons
  BY DEF MoneyOut, Withdraw, Transfer, Settle
<1>5. Stage' = Stage /\ Price' = Price
  BY <1>4 DEF Stage, Price, PaidPrice, Discount, HasCoupon
<1>6. /\ Total(withdrawable') \in 0..Total(withdrawable)
      /\ Total(balance') = Total(balance) - (Total(withdrawable) - Total(withdrawable'))
  BY <1>2, <1>3
<1>7. QED
  BY <1>5, <1>6 DEF E!PayOut

\* An empty ledger is an empty escrow: all that is in it is the money the
\* platform account was opened with.
LEMMA InitEscrow == Init => E!Init
<1> SUFFICES ASSUME Init PROVE E!Init
  OBVIOUS
<1> DEFINE none == [q \in Purse |-> 0]
           open == Add(none, <<Platform, "ALIPAY">>, PlatformFloat)
<1>1. Stage = [p \in Serial |-> "none"] /\ Price = [p \in Serial |-> 0]
  BY DEF Init, Stage, StageOf, Price, PaidPrice, Discount, HasCoupon, NoPayment
<1>2. PlatformFloat \in Int /\ Platform \in Account /\ "ALIPAY" \in Channel
  BY BoundAssumption DEF Account, Channel
<1>3. open = [q \in Purse |-> InitialMoney(q)]
  BY <1>2 DEF Add, InitialMoney
<1>4. Total(none) = 0
  <2> DEFINE F == [i \in 1..NAccounts |-> BothOf(none, AccountOrder[i])]
  <2>1. \A i \in 1..NAccounts : F[i] = 0
    <3> SUFFICES ASSUME NEW i \in 1..NAccounts PROVE F[i] = 0
      OBVIOUS
    <3>1. /\ <<AccountOrder[i], "WECHAT">> \in Purse
          /\ <<AccountOrder[i], "ALIPAY">> \in Purse
      BY AccountsOrdered DEF Purse, Channel
    <3>2. QED
      BY <3>1 DEF BothOf
  <2>2. NAccounts \in Nat
    BY AccountsOrdered
  <2>3. Total(none) = SumTo(F, NAccounts)
    BY DEF Total
  <2> HIDE DEF F
  <2>4. QED
    BY <2>1, <2>2, <2>3, SumToZero
<1>5. none \in [Purse -> Int]
  OBVIOUS
<1> HIDE DEF none
<1>6. Total(open) = Total(none) + PlatformFloat
  BY <1>2, <1>5, TotalAdd
<1>7. balance = open /\ withdrawable = open
  BY <1>3 DEF Init
<1> HIDE DEF open
<1>8. Total(balance) = PlatformFloat /\ Total(withdrawable) = PlatformFloat
  BY <1>2, <1>4, <1>6, <1>7
<1>9. QED
  BY <1>1, <1>8 DEF E!Init

\* Every transaction of the ledger is a step of the escrow or leaves it alone.
LEMMA NextEscrow ==
  LedgerInvariant /\ LedgerInvariant' /\ [Next]_vars => [E!Next]_E!escrow
<1> SUFFICES ASSUME LedgerInvariant, LedgerInvariant', [Next]_vars
             PROVE  [E!Next]_E!escrow
  OBVIOUS
<1>1. ASSUME NEW p \in Serial, PaymentStep(p)
      PROVE  \/ E!Open(p) \/ E!Void(p) \/ E!Pay(p) \/ E!Refund(p) \/ E!Release(p)
             \/ UNCHANGED E!escrow
  BY <1>1, PlaceOrderEscrow, CancelOrderEscrow, OnPaymentSuccessEscrow, RefundWaitsEscrow,
     OnRefundSuccessEscrow, UnfreezeSharedEscrow, UnfreezePlainEscrow
     DEF PaymentStep, OnPaymentUnfreeze
<1>2. CASE MoneyOut
  BY <1>2, MoneyOutEscrow DEF E!Next
<1>3. CASE UNCHANGED vars
  <2>1. /\ payments' = payments /\ coupons' = coupons /\ balance' = balance
        /\ withdrawable' = withdrawable
    BY <1>3 DEF vars
  <2>2. Stage' = Stage /\ Price' = Price
    BY <2>1 DEF Stage, Price, PaidPrice, Discount, HasCoupon
  <2>3. Total(balance)' = Total(balance) /\ Total(withdrawable)' = Total(withdrawable)
    BY <2>1
  <2>4. QED
    BY <2>2, <2>3 DEF E!escrow
<1>4. QED
  BY <1>1, <1>2, <1>3 DEF Next, E!Next

\* The ledger implements the escrow: for any finite sets of accounts, and any
\* prices, coupons and shares, whatever is refunded is refunded in full, what
\* is released is never more than the price, and nothing else is paid out.
THEOREM EscrowCorrect == Spec => ImplementsEscrow
<1>1. Spec => E!Spec
  BY InitEscrow, NextEscrow, LedgerCorrect, PTL DEF Spec, E!Spec
<1>2. QED
  BY <1>1 DEF ImplementsEscrow

-----------------------------------------------------------------------------
(* The statement of account                                                  *)

\* The rows of one purse are those of its account on its channel.
IsOf(r, a, ch) == r.account = a /\ r.channel = ch

\* What n rows leave of purse <<a, ch>>, one balance after the other, each
\* stated by the row that leads to it.
Explains(rs, n, a, ch, sums) ==
  \A i \in 1..n :
    IF IsOf(rs[i], a, ch)
    THEN sums[i] = sums[i - 1] + rs[i].amount /\ rs[i].after = sums[i]
    ELSE sums[i] = sums[i - 1]

\* Rows that can be explained lead to the last of the balances they leave.
LEMMA RowsLeadTo ==
  ASSUME NEW rs, NEW a, NEW ch, NEW start, NEW sums,
         Len(rs) \in Nat, sums[0] = start, Explains(rs, Len(rs), a, ch, sums)
  PROVE  /\ RowsLead(rs, a, ch, start).ok
         /\ RowsLead(rs, a, ch, start).sum = sums[Len(rs)]
<1> DEFINE n == Len(rs)
           Next1(h, i) ==
             IF i = 0 THEN [sum |-> start, ok |-> TRUE]
             ELSE IF rs[i].account = a /\ rs[i].channel = ch
                  THEN [sum |-> h[i - 1].sum + rs[i].amount,
                        ok  |-> h[i - 1].ok
                                  /\ rs[i].after = h[i - 1].sum + rs[i].amount]
                  ELSE h[i - 1]
           w == [i \in 0..n |-> [sum |-> sums[i], ok |-> TRUE]]
           run == CHOOSE h : h = [i \in 0..n |-> Next1(h, i)]
<1>1. w = [i \in 0..n |-> Next1(w, i)]
  <2>1. ASSUME NEW i \in 0..n
        PROVE  w[i] = Next1(w, i)
    <3>1. CASE i = 0
      BY <3>1
    <3>2. CASE i # 0
      <4>1. i \in 1..n /\ i - 1 \in 0..n
        BY <3>2
      <4>2. w[i] = [sum |-> sums[i], ok |-> TRUE] /\ w[i - 1] = [sum |-> sums[i - 1], ok |-> TRUE]
        BY <4>1
      <4> HIDE DEF w
      <4>3. CASE IsOf(rs[i], a, ch)
        <5>1. /\ sums[i] = w[i - 1].sum + rs[i].amount
              /\ rs[i].after = w[i - 1].sum + rs[i].amount
              /\ w[i - 1].ok = TRUE
          BY <4>1, <4>2, <4>3 DEF Explains
        <5>2. (w[i - 1].ok /\ rs[i].after = w[i - 1].sum + rs[i].amount) = TRUE
          BY <5>1
        <5>3. rs[i].account = a /\ rs[i].channel = ch
          BY <4>3 DEF IsOf
        <5>4. Next1(w, i) = [sum |-> w[i - 1].sum + rs[i].amount,
                             ok  |-> w[i - 1].ok
                                       /\ rs[i].after = w[i - 1].sum + rs[i].amount]
          BY <3>2, <5>3
        <5> HIDE DEF Next1
        <5>5. QED
          BY <4>2, <5>1, <5>2, <5>4
      <4>4. CASE ~IsOf(rs[i], a, ch)
        BY <3>2, <4>1, <4>2, <4>4 DEF Explains, IsOf
      <4>5. QED
        BY <4>3, <4>4
    <3>3. QED
      BY <3>1, <3>2
  <2> HIDE DEF Next1
  <2>2. QED
    BY <2>1
<1>2. run = [i \in 0..n |-> Next1(run, i)]
  <2> HIDE DEF Next1, w
  <2>1. QED
    BY <1>1
<1>3. RowsLead(rs, a, ch, start) = run[n]
  BY DEF RowsLead
<1> HIDE DEF run
<1> DEFINE A == {k \in Nat : k <= n => run[k] = w[k]}
<1>4. 0 \in A
  <2>1. 0 \in 0..n
    OBVIOUS
  <2>2. run[0] = Next1(run, 0) /\ w[0] = Next1(w, 0)
    <3> HIDE DEF Next1, w
    <3>1. QED
      BY <1>1, <1>2, <2>1
  <2>3. Next1(run, 0) = Next1(w, 0)
    OBVIOUS
  <2>4. QED
    BY <2>2, <2>3
<1>5. \A k \in Nat : k \in A => k + 1 \in A
  <2>1. SUFFICES ASSUME NEW k \in Nat, run[k] = w[k], k + 1 <= n
                 PROVE  run[k + 1] = w[k + 1]
    OBVIOUS
  <2>2. k + 1 \in 0..n /\ k + 1 # 0 /\ (k + 1) - 1 = k
    BY <2>1
  <2>3. run[k + 1] = Next1(run, k + 1) /\ w[k + 1] = Next1(w, k + 1)
    <3> HIDE DEF Next1, w
    <3>1. QED
      BY <1>1, <1>2, <2>2
  <2>4. Next1(run, k + 1) = Next1(w, k + 1)
    <3> HIDE DEF w
    <3>1. QED
      BY <2>1, <2>2
  <2>5. QED
    BY <2>3, <2>4
<1>6. n \in A
  <2> HIDE DEF A
  <2>1. QED
    BY <1>4, <1>5, SetInduction
<1>7. run[n] = [sum |-> sums[n], ok |-> TRUE]
  BY <1>6
<1>8. QED
  BY <1>3, <1>7

\* Row r of purse <<a, ch>> leads from balance s to balance t; a row of
\* another purse leaves s.
Leads(r, a, ch, s, t) ==
  IF IsOf(r, a, ch) THEN t = s + r.amount /\ r.after = t ELSE t = s

\* The rows of the last transaction are a statement of purse <<a, ch>>.
StatementOK(a, ch) ==
  LET lead == RowsLead(rows', a, ch, balance[<<a, ch>>])
  IN  lead.ok /\ lead.sum = balance'[<<a, ch>>]

\* No rows, no change.
LEMMA NoRows ==
  ASSUME NEW a, NEW ch, rows' = << >>, balance'[<<a, ch>>] = balance[<<a, ch>>]
  PROVE  StatementOK(a, ch)
<1> DEFINE sums == [i \in 0..0 |-> balance[<<a, ch>>]]
<1>1. sums[0] = balance[<<a, ch>>] /\ Len(rows') = 0
  OBVIOUS
<1>2. Explains(rows', 0, a, ch, sums)
  BY DEF Explains
<1> HIDE DEF sums
<1>3. /\ RowsLead(rows', a, ch, balance[<<a, ch>>]).ok
      /\ RowsLead(rows', a, ch, balance[<<a, ch>>]).sum = sums[0]
  BY <1>1, <1>2, RowsLeadTo
<1>4. QED
  BY <1>1, <1>3 DEF StatementOK

\* The rows of a payout: one, or one for each channel of a settlement.
LEMMA TwoRows ==
  ASSUME NEW a, NEW ch, NEW r1, NEW r2, NEW s1, NEW s2,
         \/ rows' = <<r1>> /\ s2 = s1
         \/ rows' = <<r1, r2>> /\ Leads(r2, a, ch, s1, s2),
         Leads(r1, a, ch, balance[<<a, ch>>], s1),
         balance'[<<a, ch>>] = s2
  PROVE  StatementOK(a, ch)
<1> DEFINE sums == [i \in 0..2 |-> IF i = 0 THEN balance[<<a, ch>>]
                                   ELSE IF i = 1 THEN s1 ELSE s2]
           n == Len(rows')
<1>1. /\ n \in {1, 2} /\ rows'[1] = r1
      /\ n = 2 => rows'[2] = r2 /\ Leads(r2, a, ch, s1, s2)
      /\ n = 1 => s2 = s1
  OBVIOUS
<1>2. sums[0] = balance[<<a, ch>>] /\ sums[1] = s1 /\ sums[2] = s2
  OBVIOUS
<1> HIDE DEF sums
<1>3. Explains(rows', n, a, ch, sums)
  <2>1. ASSUME NEW i \in 1..n
        PROVE  Leads(rows'[i], a, ch, sums[i - 1], sums[i])
    <3>1. CASE i = 1
      BY <1>2, <1>1, <3>1
    <3>2. CASE i = 2
      BY <1>2, <1>1, <2>1, <3>2
    <3>3. QED
      BY <1>1, <2>1, <3>1, <3>2
  <2>2. QED
    BY <2>1 DEF Explains, Leads
<1>4. /\ RowsLead(rows', a, ch, balance[<<a, ch>>]).ok
      /\ RowsLead(rows', a, ch, balance[<<a, ch>>]).sum = sums[n]
  BY <1>1, <1>2, <1>3, RowsLeadTo
<1>5. QED
  BY <1>1, <1>2, <1>4 DEF StatementOK

\* The three rows of a payment or a refund
LEMMA ThreeRows ==
  ASSUME NEW a, NEW ch, NEW r1, NEW r2, NEW r3, NEW s1, NEW s2,
         rows' = <<r1, r2, r3>>,
         Leads(r1, a, ch, balance[<<a, ch>>], s1),
         Leads(r2, a, ch, s1, s2),
         Leads(r3, a, ch, s2, balance'[<<a, ch>>])
  PROVE  StatementOK(a, ch)
<1> DEFINE sums == [i \in 0..3 |-> IF i = 0 THEN balance[<<a, ch>>]
                                   ELSE IF i = 1 THEN s1
                                   ELSE IF i = 2 THEN s2 ELSE balance'[<<a, ch>>]]
<1>1. Len(rows') = 3 /\ rows'[1] = r1 /\ rows'[2] = r2 /\ rows'[3] = r3
  OBVIOUS
<1>2. /\ sums[0] = balance[<<a, ch>>] /\ sums[1] = s1 /\ sums[2] = s2
      /\ sums[3] = balance'[<<a, ch>>]
  OBVIOUS
<1> HIDE DEF sums
<1>3. Explains(rows', 3, a, ch, sums)
  <2>1. ASSUME NEW i \in 1..3
        PROVE  Leads(rows'[i], a, ch, sums[i - 1], sums[i])
    <3>1. CASE i = 1
      BY <1>2, <1>1, <3>1
    <3>2. CASE i = 2
      BY <1>2, <1>1, <3>2
    <3>3. CASE i = 3
      BY <1>2, <1>1, <3>3
    <3>4. QED
      BY <2>1, <3>1, <3>2, <3>3
  <2>2. QED
    BY <2>1 DEF Explains, Leads
<1>4. /\ RowsLead(rows', a, ch, balance[<<a, ch>>]).ok
      /\ RowsLead(rows', a, ch, balance[<<a, ch>>]).sum = sums[3]
  <2>1. /\ Len(rows') \in Nat /\ Explains(rows', Len(rows'), a, ch, sums)
        /\ sums[Len(rows')] = sums[3]
    BY <1>1, <1>3
  <2> DEFINE rs == rows'
  <2>2. /\ Len(rs) \in Nat /\ Explains(rs, Len(rs), a, ch, sums)
        /\ sums[Len(rs)] = sums[3]
    BY <2>1
  <2> HIDE DEF rs
  <2>3. /\ RowsLead(rs, a, ch, balance[<<a, ch>>]).ok
        /\ RowsLead(rs, a, ch, balance[<<a, ch>>]).sum = sums[Len(rs)]
    BY <1>2, <2>2, RowsLeadTo
  <2>4. QED
    BY <2>2, <2>3 DEF rs
<1>5. QED
  BY <1>2, <1>4 DEF StatementOK

\* The six rows of the end of a freeze with a coupon
LEMMA SixRows ==
  ASSUME NEW a, NEW ch, NEW r1, NEW r2, NEW r3, NEW r4, NEW r5, NEW r6,
         NEW s1, NEW s2, NEW s3, NEW s4, NEW s5,
         rows' = <<r1, r2, r3, r4, r5, r6>>,
         Leads(r1, a, ch, balance[<<a, ch>>], s1),
         Leads(r2, a, ch, s1, s2),
         Leads(r3, a, ch, s2, s3),
         Leads(r4, a, ch, s3, s4),
         Leads(r5, a, ch, s4, s5),
         Leads(r6, a, ch, s5, balance'[<<a, ch>>])
  PROVE  StatementOK(a, ch)
<1> DEFINE sums == [i \in 0..6 |-> IF i = 0 THEN balance[<<a, ch>>]
                                   ELSE IF i = 1 THEN s1 ELSE IF i = 2 THEN s2
                                   ELSE IF i = 3 THEN s3 ELSE IF i = 4 THEN s4
                                   ELSE IF i = 5 THEN s5 ELSE balance'[<<a, ch>>]]
<1>1. /\ Len(rows') = 6 /\ rows'[1] = r1 /\ rows'[2] = r2 /\ rows'[3] = r3
      /\ rows'[4] = r4 /\ rows'[5] = r5 /\ rows'[6] = r6
  OBVIOUS
<1>2. /\ sums[0] = balance[<<a, ch>>] /\ sums[1] = s1 /\ sums[2] = s2 /\ sums[3] = s3
      /\ sums[4] = s4 /\ sums[5] = s5 /\ sums[6] = balance'[<<a, ch>>]
  OBVIOUS
<1> HIDE DEF sums
<1>3. Explains(rows', 6, a, ch, sums)
  <2>1. ASSUME NEW i \in 1..6
        PROVE  Leads(rows'[i], a, ch, sums[i - 1], sums[i])
    <3>1. CASE i = 1
      BY <1>2, <1>1, <3>1
    <3>2. CASE i = 2
      BY <1>2, <1>1, <3>2
    <3>3. CASE i = 3
      BY <1>2, <1>1, <3>3
    <3>4. CASE i = 4
      BY <1>2, <1>1, <3>4
    <3>5. CASE i = 5
      BY <1>2, <1>1, <3>5
    <3>6. CASE i = 6
      BY <1>2, <1>1, <3>6
    <3>7. QED
      BY <2>1, <3>1, <3>2, <3>3, <3>4, <3>5, <3>6
  <2>2. QED
    BY <2>1 DEF Explains, Leads
<1>4. /\ RowsLead(rows', a, ch, balance[<<a, ch>>]).ok
      /\ RowsLead(rows', a, ch, balance[<<a, ch>>]).sum = sums[6]
  <2>1. /\ Len(rows') \in Nat /\ Explains(rows', Len(rows'), a, ch, sums)
        /\ sums[Len(rows')] = sums[6]
    BY <1>1, <1>3
  <2> DEFINE rs == rows'
  <2>2. /\ Len(rs) \in Nat /\ Explains(rs, Len(rs), a, ch, sums)
        /\ sums[Len(rs)] = sums[6]
    BY <2>1
  <2> HIDE DEF rs
  <2>3. /\ RowsLead(rs, a, ch, balance[<<a, ch>>]).ok
        /\ RowsLead(rs, a, ch, balance[<<a, ch>>]).sum = sums[Len(rs)]
    BY <1>2, <2>2, RowsLeadTo
  <2>4. QED
    BY <2>2, <2>3 DEF rs
<1>5. QED
  BY <1>2, <1>4 DEF StatementOK

\* Adding to a purse changes that purse.
LEMMA AddValue ==
  ASSUME NEW f \in [Purse -> Int], NEW b \in Account, NEW d \in Channel, NEW n \in Int,
         NEW a \in Account, NEW ch \in Channel
  PROVE  /\ Add(f, <<b, d>>, n) \in [Purse -> Int]
         /\ a = b /\ ch = d => Add(f, <<b, d>>, n)[<<a, ch>>] = f[<<a, ch>>] + n
         /\ ~(a = b /\ ch = d) => Add(f, <<b, d>>, n)[<<a, ch>>] = f[<<a, ch>>]
BY DEF Add, Purse

\* The rows of a payment: the client pays the platform, which passes the part
\* of the merchant on.
LEMMA OnPaymentSuccessRows ==
  ASSUME TypeOK, NEW p \in Serial, OnPaymentSuccess(p), NEW a \in Account, NEW c \in Channel
  PROVE  StatementOK(a, c)
<1> DEFINE x == payments[p]
           ch == x.pay_channel
           m == x.merchant
           t == TotalShare(x)
           n == MerchantPart(x)
           d == PaidPrice(x)
           P == balance[<<Platform, ch>>]
           M == balance[<<m, ch>>]
           r1 == [account |-> Platform, channel |-> ch, amount |-> d, after |-> (P + t) + n]
           r2 == [account |-> Platform, channel |-> ch, amount |-> -n, after |-> P + t]
           r3 == [account |-> m, channel |-> ch, amount |-> n, after |-> M + n]
           f == Add(balance, <<Platform, ch>>, t)
<1>1. /\ t \in Int /\ n \in Int /\ d \in Int /\ ch \in Channel
      /\ m \in Account /\ Platform \in Account /\ m # Platform
  BY PartsType, AccountAssumption DEF Account
<1>2. d = t + n
  BY <1>1 DEF MerchantPart
<1>3. rows' = <<r1, r2, r3>> /\ balance' = Add(f, <<m, ch>>, n)
  BY DEF OnPaymentSuccess
<1>4. balance \in [Purse -> Int] /\ <<Platform, ch>> \in Purse /\ <<m, ch>> \in Purse
  BY <1>1 DEF TypeOK, Purse
<1>5. /\ P \in Int /\ M \in Int
  BY <1>4
<1>6. /\ r1.account = Platform /\ r1.channel = ch /\ r1.amount = d /\ r1.after = (P + t) + n
      /\ r2.account = Platform /\ r2.channel = ch /\ r2.amount = -n /\ r2.after = P + t
      /\ r3.account = m /\ r3.channel = ch /\ r3.amount = n /\ r3.after = M + n
  OBVIOUS
<1> HIDE DEF r1, r2, r3, t, n, d, m, ch, x
<1>7. /\ f \in [Purse -> Int]
      /\ a = Platform /\ c = ch => f[<<a, c>>] = balance[<<a, c>>] + t
      /\ ~(a = Platform /\ c = ch) => f[<<a, c>>] = balance[<<a, c>>]
  <2>1. balance \in [Purse -> Int] /\ Platform \in Account /\ ch \in Channel /\ t \in Int
    BY <1>1, <1>4
  <2>2. QED
    BY <2>1, AddValue
<1> HIDE DEF f
<1>8. /\ a = m /\ c = ch => balance'[<<a, c>>] = f[<<a, c>>] + n
      /\ ~(a = m /\ c = ch) => balance'[<<a, c>>] = f[<<a, c>>]
  BY <1>1, <1>3, <1>7, AddValue
<1>9. CASE a = Platform /\ c = ch
  <2>1. balance[<<a, c>>] = P /\ balance'[<<a, c>>] = P + t
    BY <1>1, <1>7, <1>8, <1>9
  <2>2. Leads(r1, a, c, P, P + d)
    BY <1>1, <1>2, <1>5, <1>6, <1>9 DEF Leads, IsOf
  <2>3. Leads(r2, a, c, P + d, P + t)
    BY <1>1, <1>2, <1>5, <1>6, <1>9 DEF Leads, IsOf
  <2>4. Leads(r3, a, c, P + t, P + t)
    BY <1>1, <1>6, <1>9 DEF Leads, IsOf
  <2>5. QED
    BY <1>3, <2>1, <2>2, <2>3, <2>4, ThreeRows
<1>10. CASE a = m /\ c = ch
  <2>1. balance[<<a, c>>] = M /\ balance'[<<a, c>>] = M + n
    BY <1>1, <1>7, <1>8, <1>10
  <2>2. Leads(r1, a, c, M, M) /\ Leads(r2, a, c, M, M)
    BY <1>1, <1>6, <1>10 DEF Leads, IsOf
  <2>3. Leads(r3, a, c, M, M + n)
    BY <1>6, <1>10 DEF Leads, IsOf
  <2>4. QED
    BY <1>3, <2>1, <2>2, <2>3, ThreeRows
<1>11. CASE ~(a = Platform /\ c = ch) /\ ~(a = m /\ c = ch)
  <2> DEFINE B == balance[<<a, c>>]
  <2>1. balance'[<<a, c>>] = B
    BY <1>7, <1>8, <1>11
  <2>2. Leads(r1, a, c, B, B) /\ Leads(r2, a, c, B, B) /\ Leads(r3, a, c, B, B)
    BY <1>6, <1>11 DEF Leads, IsOf
  <2>3. QED
    BY <1>3, <2>1, <2>2, ThreeRows
<1>12. QED
  BY <1>9, <1>10, <1>11

\* The rows of a refund: the merchant gives its part back to the platform,
\* which pays the client.
LEMMA OnRefundSuccessRows ==
  ASSUME TypeOK, NEW p \in Serial, OnRefundSuccess(p), NEW a \in Account, NEW c \in Channel
  PROVE  StatementOK(a, c)
<1> DEFINE x == payments[p]
           ch == x.pay_channel
           m == x.merchant
           t == TotalShare(x)
           n == MerchantPart(x)
           d == PaidPrice(x)
           P == balance[<<Platform, ch>>]
           M == balance[<<m, ch>>]
           r1 == [account |-> m, channel |-> ch, amount |-> -n, after |-> M - n]
           r2 == [account |-> Platform, channel |-> ch, amount |-> n, after |-> (P - t) + d]
           r3 == [account |-> Platform, channel |-> ch, amount |-> -d, after |-> P - t]
           f == Add(balance, <<m, ch>>, -n)
<1>1. /\ t \in Int /\ n \in Int /\ d \in Int /\ ch \in Channel /\ -n \in Int /\ -t \in Int
      /\ m \in Account /\ Platform \in Account /\ m # Platform
  BY PartsType, AccountAssumption DEF Account
<1>2. d = t + n
  BY <1>1 DEF MerchantPart
<1>3. rows' = <<r1, r2, r3>> /\ balance' = Add(f, <<Platform, ch>>, -t)
  BY DEF OnRefundSuccess
<1>4. balance \in [Purse -> Int] /\ <<Platform, ch>> \in Purse /\ <<m, ch>> \in Purse
  BY <1>1 DEF TypeOK, Purse
<1>5. /\ P \in Int /\ M \in Int
  BY <1>4
<1>6. /\ r1.account = m /\ r1.channel = ch /\ r1.amount = -n /\ r1.after = M - n
      /\ r2.account = Platform /\ r2.channel = ch /\ r2.amount = n /\ r2.after = (P - t) + d
      /\ r3.account = Platform /\ r3.channel = ch /\ r3.amount = -d /\ r3.after = P - t
  OBVIOUS
<1> HIDE DEF r1, r2, r3, t, n, d, m, ch, x
<1>7. /\ f \in [Purse -> Int]
      /\ a = m /\ c = ch => f[<<a, c>>] = balance[<<a, c>>] + (-n)
      /\ ~(a = m /\ c = ch) => f[<<a, c>>] = balance[<<a, c>>]
  <2>1. balance \in [Purse -> Int] /\ m \in Account /\ ch \in Channel /\ -n \in Int
    BY <1>1, <1>4
  <2>2. QED
    BY <2>1, AddValue
<1> HIDE DEF f
<1>8. /\ a = Platform /\ c = ch => balance'[<<a, c>>] = f[<<a, c>>] + (-t)
      /\ ~(a = Platform /\ c = ch) => balance'[<<a, c>>] = f[<<a, c>>]
  BY <1>1, <1>3, <1>7, AddValue
<1>9. CASE a = Platform /\ c = ch
  <2>1. balance[<<a, c>>] = P /\ balance'[<<a, c>>] = P - t
    BY <1>1, <1>5, <1>7, <1>8, <1>9
  <2>2. Leads(r1, a, c, P, P)
    BY <1>1, <1>6, <1>9 DEF Leads, IsOf
  <2>3. Leads(r2, a, c, P, P + n)
    BY <1>1, <1>2, <1>5, <1>6, <1>9 DEF Leads, IsOf
  <2>4. Leads(r3, a, c, P + n, P - t)
    BY <1>1, <1>2, <1>5, <1>6, <1>9 DEF Leads, IsOf
  <2>5. QED
    BY <1>3, <2>1, <2>2, <2>3, <2>4, ThreeRows
<1>10. CASE a = m /\ c = ch
  <2>1. balance[<<a, c>>] = M /\ balance'[<<a, c>>] = M - n
    BY <1>1, <1>5, <1>7, <1>8, <1>10
  <2>2. Leads(r1, a, c, M, M - n)
    BY <1>1, <1>5, <1>6, <1>10 DEF Leads, IsOf
  <2>3. Leads(r2, a, c, M - n, M - n) /\ Leads(r3, a, c, M - n, M - n)
    BY <1>1, <1>6, <1>10 DEF Leads, IsOf
  <2>4. QED
    BY <1>3, <2>1, <2>2, <2>3, ThreeRows
<1>11. CASE ~(a = Platform /\ c = ch) /\ ~(a = m /\ c = ch)
  <2> DEFINE B == balance[<<a, c>>]
  <2>1. balance'[<<a, c>>] = B
    BY <1>7, <1>8, <1>11
  <2>2. Leads(r1, a, c, B, B) /\ Leads(r2, a, c, B, B) /\ Leads(r3, a, c, B, B)
    BY <1>6, <1>11 DEF Leads, IsOf
  <2>3. QED
    BY <1>3, <2>1, <2>2, ThreeRows
<1>12. QED
  BY <1>9, <1>10, <1>11

\* The rows of the end of a freeze with a coupon: the platform passes two
\* shares on, and books its own in and out.
LEMMA UnfreezeSharedRows ==
  ASSUME TypeOK, NEW p \in Serial, UnfreezeShared(p), NEW a \in Account, NEW c \in Channel
  PROVE  StatementOK(a, c)
<1> DEFINE x == payments[p]
           ch == x.pay_channel
           u == coupons[x.coupon].originator
           v == Inviter[x.merchant]
           o == x.originator_share
           i == x.inviter_share
           s == x.platform_share
           P == balance[<<Platform, ch>>]
           U == balance[<<u, ch>>]
           V == balance[<<v, ch>>]
           new == P - (o + i)
           r1 == [account |-> Platform, channel |-> ch, amount |-> -o, after |-> new + i]
           r2 == [account |-> Platform, channel |-> ch, amount |-> -i, after |-> new]
           r3 == [account |-> Platform, channel |-> ch, amount |-> -s, after |-> new - s]
           r4 == [account |-> Platform, channel |-> ch, amount |-> s, after |-> new]
           r5 == [account |-> u, channel |-> ch, amount |-> o, after |-> U + o]
           r6 == [account |-> v, channel |-> ch, amount |-> i, after |-> V + i]
           f1 == Add(balance, <<Platform, ch>>, -(o + i))
           f2 == Add(f1, <<u, ch>>, o)
<1>1. /\ o \in Int /\ i \in Int /\ s \in Int /\ ch \in Channel /\ -(o + i) \in Int
      /\ x.merchant \in Merchant
  BY PartsType
<1>2. /\ u \in Merchant /\ v \in Marketer
  BY <1>1, CouponType, AccountAssumption DEF UnfreezeShared
<1>3. /\ Platform \in Account /\ u \in Account /\ v \in Account
      /\ u # Platform /\ v # Platform /\ u # v
  BY <1>2, AccountAssumption DEF Account
<1>4. rows' = <<r1, r2, r3, r4, r5, r6>> /\ balance' = Add(f2, <<v, ch>>, i)
  BY DEF UnfreezeShared
<1>5. balance \in [Purse -> Int]
  BY DEF TypeOK
<1>6. /\ P \in Int /\ U \in Int /\ V \in Int
  BY <1>1, <1>3, <1>5 DEF Purse
<1>7. /\ r1.account = Platform /\ r1.channel = ch /\ r1.amount = -o /\ r1.after = new + i
      /\ r2.account = Platform /\ r2.channel = ch /\ r2.amount = -i /\ r2.after = new
      /\ r3.account = Platform /\ r3.channel = ch /\ r3.amount = -s /\ r3.after = new - s
      /\ r4.account = Platform /\ r4.channel = ch /\ r4.amount = s /\ r4.after = new
      /\ r5.account = u /\ r5.channel = ch /\ r5.amount = o /\ r5.after = U + o
      /\ r6.account = v /\ r6.channel = ch /\ r6.amount = i /\ r6.after = V + i
  OBVIOUS
<1> HIDE DEF r1, r2, r3, r4, r5, r6, o, i, s, u, v, ch, x
<1>8. /\ f1 \in [Purse -> Int]
      /\ a = Platform /\ c = ch => f1[<<a, c>>] = balance[<<a, c>>] + (-(o + i))
      /\ ~(a = Platform /\ c = ch) => f1[<<a, c>>] = balance[<<a, c>>]
  BY <1>1, <1>3, <1>5, AddValue
<1> HIDE DEF f1
<1>9. /\ f2 \in [Purse -> Int]
      /\ a = u /\ c = ch => f2[<<a, c>>] = f1[<<a, c>>] + o
      /\ ~(a = u /\ c = ch) => f2[<<a, c>>] = f1[<<a, c>>]
  BY <1>1, <1>3, <1>8, AddValue
<1> HIDE DEF f2
<1>10. /\ a = v /\ c = ch => balance'[<<a, c>>] = f2[<<a, c>>] + i
       /\ ~(a = v /\ c = ch) => balance'[<<a, c>>] = f2[<<a, c>>]
  BY <1>1, <1>3, <1>4, <1>9, AddValue
<1>11. new \in Int /\ new = P - o - i
  BY <1>1, <1>6
<1> HIDE DEF new
<1>12. CASE a = Platform /\ c = ch
  <2>1. balance[<<a, c>>] = P /\ balance'[<<a, c>>] = new
    BY <1>1, <1>3, <1>6, <1>8, <1>9, <1>10, <1>11, <1>12
  <2>2. Leads(r1, a, c, P, P - o)
    BY <1>1, <1>6, <1>7, <1>11, <1>12 DEF Leads, IsOf
  <2>3. Leads(r2, a, c, P - o, new)
    BY <1>1, <1>6, <1>7, <1>11, <1>12 DEF Leads, IsOf
  <2>4. Leads(r3, a, c, new, new - s)
    BY <1>1, <1>6, <1>7, <1>11, <1>12 DEF Leads, IsOf
  <2>5. Leads(r4, a, c, new - s, new)
    BY <1>1, <1>6, <1>7, <1>11, <1>12 DEF Leads, IsOf
  <2>6. Leads(r5, a, c, new, new) /\ Leads(r6, a, c, new, new)
    BY <1>3, <1>7, <1>12 DEF Leads, IsOf
  <2>7. QED
    BY <1>4, <2>1, <2>2, <2>3, <2>4, <2>5, <2>6, SixRows
<1> DEFINE B == balance[<<a, c>>]
<1>13. CASE ~(a = Platform /\ c = ch)
  <2>1. Leads(r1, a, c, B, B) /\ Leads(r2, a, c, B, B) /\ Leads(r3, a, c, B, B)
        /\ Leads(r4, a, c, B, B)
    BY <1>7, <1>13 DEF Leads, IsOf
  <2>2. CASE a = u /\ c = ch
    <3>1. B = U /\ balance'[<<a, c>>] = B + o
      BY <1>3, <1>8, <1>9, <1>10, <1>13, <2>2
    <3>2. Leads(r5, a, c, B, B + o) /\ Leads(r6, a, c, B + o, B + o)
      BY <1>3, <1>7, <2>2, <3>1 DEF Leads, IsOf
    <3> HIDE DEF B
    <3>3. QED
      BY <1>4, <2>1, <3>1, <3>2, SixRows DEF B
  <2>3. CASE a = v /\ c = ch
    <3>1. B = V /\ balance'[<<a, c>>] = B + i
      BY <1>3, <1>8, <1>9, <1>10, <1>13, <2>3
    <3>2. Leads(r5, a, c, B, B) /\ Leads(r6, a, c, B, B + i)
      BY <1>3, <1>7, <2>3, <3>1 DEF Leads, IsOf
    <3>3. QED
      BY <1>4, <2>1, <3>1, <3>2, SixRows
  <2>4. CASE ~(a = u /\ c = ch) /\ ~(a = v /\ c = ch)
    <3>1. balance'[<<a, c>>] = B
      BY <1>8, <1>9, <1>10, <1>13, <2>4
    <3>2. Leads(r5, a, c, B, B) /\ Leads(r6, a, c, B, B)
      BY <1>7, <2>4 DEF Leads, IsOf
    <3>3. QED
      BY <1>4, <2>1, <3>1, <3>2, SixRows
  <2>5. QED
    BY <2>2, <2>3, <2>4
<1>14. QED
  BY <1>12, <1>13

\* The row of a payout states what is left of its purse.
LEMMA PayOutRowLeads ==
  ASSUME TypeOK, NEW b \in Account, NEW d \in Channel, NEW n \in Nat,
         NEW a \in Account, NEW c \in Channel
  PROVE  /\ a = b /\ c = d =>
              Leads(PayOutRow(<<b, d>>, n), a, c, balance[<<a, c>>], balance[<<a, c>>] - n)
         /\ \A B : ~(a = b /\ c = d) => Leads(PayOutRow(<<b, d>>, n), a, c, B, B)
<1> DEFINE r == PayOutRow(<<b, d>>, n)
<1>1. /\ r.account = b /\ r.channel = d /\ r.amount = -n
      /\ r.after = balance[<<b, d>>] - n
  BY DEF PayOutRow
<1>2. balance[<<b, d>>] \in Int
  BY DEF TypeOK, Purse
<1> HIDE DEF r
<1>3. a = b /\ c = d => Leads(r, a, c, balance[<<a, c>>], balance[<<a, c>>] - n)
  BY <1>1, <1>2 DEF Leads, IsOf
<1>4. \A B : ~(a = b /\ c = d) => Leads(r, a, c, B, B)
  BY <1>1 DEF Leads, IsOf
<1>5. QED
  BY <1>3, <1>4 DEF r

\* The row of a withdrawal or a transfer
LEMMA PayOutRows ==
  ASSUME TypeOK, NEW b \in Account, NEW d \in Channel, NEW n \in Amount,
         PayOut(<<b, d>>, n), rows' = <<PayOutRow(<<b, d>>, n)>>,
         NEW a \in Account, NEW c \in Channel
  PROVE  StatementOK(a, c)
<1> DEFINE r == PayOutRow(<<b, d>>, n)
           B == balance[<<a, c>>]
<1>1. n \in Nat /\ -n \in Int
  BY BoundAssumption
<1>2. balance \in [Purse -> Int]
  BY DEF TypeOK
<1>3. B \in Int
  BY <1>2 DEF Purse
<1>4. balance' = Add(balance, <<b, d>>, -n)
  BY DEF PayOut, TakeOut
<1>5. /\ a = b /\ c = d => balance'[<<a, c>>] = B + (-n)
      /\ ~(a = b /\ c = d) => balance'[<<a, c>>] = B
  BY <1>1, <1>2, <1>4, AddValue
<1>6. /\ a = b /\ c = d => Leads(r, a, c, B, B - n)
      /\ \A k : ~(a = b /\ c = d) => Leads(r, a, c, k, k)
  BY <1>1, PayOutRowLeads
<1> HIDE DEF r
<1>7. CASE a = b /\ c = d
  <2>1. balance'[<<a, c>>] = B - n
    BY <1>1, <1>3, <1>5, <1>7
  <2>2. QED
    BY <1>6, <1>7, <2>1, TwoRows DEF r
<1>8. CASE ~(a = b /\ c = d)
  BY <1>5, <1>6, <1>8, TwoRows DEF r
<1>9. QED
  BY <1>7, <1>8

\* The rows of a settlement, one for each channel
LEMMA SettleRows ==
  ASSUME TypeOK, NEW m \in Enterprise, NEW w \in Amount, NEW v \in Amount, Settle(m, w, v),
         NEW a \in Account, NEW c \in Channel
  PROVE  StatementOK(a, c)
<1> DEFINE r1 == PayOutRow(<<m, "WECHAT">>, w)
           r2 == PayOutRow(<<m, "ALIPAY">>, v)
           f == Add(balance, <<m, "WECHAT">>, -w)
           B == balance[<<a, c>>]
<1>1. w \in Nat /\ -w \in Int /\ v \in Nat /\ -v \in Int
  BY BoundAssumption
<1>2. m \in Account /\ "WECHAT" \in Channel /\ "ALIPAY" \in Channel
  BY AccountAssumption DEF Account, Channel
<1>3. balance \in [Purse -> Int]
  BY DEF TypeOK
<1>4. B \in Int
  BY <1>3 DEF Purse
<1>5. rows' = <<r1, r2>> /\ balance' = Add(f, <<m, "ALIPAY">>, -v)
  BY DEF Settle
<1>6. /\ f \in [Purse -> Int]
      /\ a = m /\ c = "WECHAT" => f[<<a, c>>] = B + (-w)
      /\ ~(a = m /\ c = "WECHAT") => f[<<a, c>>] = B
  BY <1>1, <1>2, <1>3, AddValue
<1> HIDE DEF f
<1>7. /\ a = m /\ c = "ALIPAY" => balance'[<<a, c>>] = f[<<a, c>>] + (-v)
      /\ ~(a = m /\ c = "ALIPAY") => balance'[<<a, c>>] = f[<<a, c>>]
  BY <1>1, <1>2, <1>5, <1>6, AddValue
<1>8. /\ a = m /\ c = "WECHAT" => Leads(r1, a, c, B, B - w)
      /\ \A k : ~(a = m /\ c = "WECHAT") => Leads(r1, a, c, k, k)
  BY <1>1, <1>2, PayOutRowLeads
<1>9. /\ a = m /\ c = "ALIPAY" => Leads(r2, a, c, B, B - v)
      /\ \A k : ~(a = m /\ c = "ALIPAY") => Leads(r2, a, c, k, k)
  BY <1>1, <1>2, PayOutRowLeads
<1> HIDE DEF r1, r2
<1>10. CASE a = m /\ c = "WECHAT"
  <2>1. balance'[<<a, c>>] = B - w
    BY <1>1, <1>4, <1>6, <1>7, <1>10
  <2>2. Leads(r1, a, c, B, B - w) /\ Leads(r2, a, c, B - w, B - w)
    BY <1>8, <1>9, <1>10
  <2>3. QED
    BY <1>5, <2>1, <2>2, TwoRows
<1>11. CASE a = m /\ c = "ALIPAY"
  <2>1. balance'[<<a, c>>] = B - v
    BY <1>1, <1>4, <1>6, <1>7, <1>11
  <2>2. Leads(r1, a, c, B, B) /\ Leads(r2, a, c, B, B - v)
    BY <1>8, <1>9, <1>11
  <2>3. QED
    BY <1>5, <2>1, <2>2, TwoRows
<1>12. CASE ~(a = m /\ c = "WECHAT") /\ ~(a = m /\ c = "ALIPAY")
  <2>1. balance'[<<a, c>>] = B /\ Leads(r1, a, c, B, B) /\ Leads(r2, a, c, B, B)
    BY <1>6, <1>7, <1>8, <1>9, <1>12
  <2>2. QED
    BY <1>5, <2>1, TwoRows
<1>13. QED
  BY <1>10, <1>11, <1>12

\* The rows of every transaction explain what it did to every purse, for any
\* accounts, prices, shares and amounts.
THEOREM RowsCorrect == Spec => RowsExplainBalances
<1>1. TypeOK /\ [Next]_vars =>
        [\A a \in Account, ch \in Channel :
           LET lead == RowsLead(rows', a, ch, balance[<<a, ch>>])
           IN  lead.ok /\ lead.sum = balance'[<<a, ch>>]]_vars
  <2> SUFFICES ASSUME TypeOK, Next, NEW a \in Account, NEW c \in Channel
               PROVE  StatementOK(a, c)
    BY DEF StatementOK
  <2>1. ASSUME NEW p \in Serial, PaymentStep(p)
        PROVE  StatementOK(a, c)
    <3>1. CASE OnPaymentSuccess(p)
      BY <3>1, OnPaymentSuccessRows
    <3>2. CASE OnRefundSuccess(p)
      BY <3>2, OnRefundSuccessRows
    <3>3. CASE UnfreezeShared(p)
      BY <3>3, UnfreezeSharedRows
    <3>4. CASE ~OnPaymentSuccess(p) /\ ~OnRefundSuccess(p) /\ ~UnfreezeShared(p)
      <4>1. rows' = << >> /\ balance' = balance
        BY <2>1, <3>4 DEF PaymentStep, PlaceOrder, CancelOrder, RequestRefund, OnRefundFail,
           OnPaymentUnfreeze, UnfreezePlain
      <4>2. QED
        BY <4>1, NoRows
    <3>5. QED
      BY <3>1, <3>2, <3>3, <3>4
  <2>2. CASE MoneyOut
    <3>1. ASSUME NEW b \in Merchant \cup Marketer, NEW d \in Channel, NEW n \in Amount,
                 Withdraw(b, d, n)
          PROVE  StatementOK(a, c)
      <4>1. /\ b \in Account /\ PayOut(<<b, d>>, n)
            /\ rows' = <<PayOutRow(<<b, d>>, n)>>
        BY <3>1 DEF Withdraw, Account
      <4>2. QED
        BY <4>1, PayOutRows
    <3>2. ASSUME NEW n \in Amount, Transfer(n)
          PROVE  StatementOK(a, c)
      <4>1. /\ Platform \in Account /\ "ALIPAY" \in Channel
            /\ PayOut(<<Platform, "ALIPAY">>, n)
            /\ rows' = <<PayOutRow(<<Platform, "ALIPAY">>, n)>>
        BY <3>2 DEF Transfer, Account, Channel
      <4>2. QED
        BY <4>1, PayOutRows
    <3>3. QED
      BY <2>2, <3>1, <3>2, SettleRows DEF MoneyOut
  <2>3. QED
    BY <2>1, <2>2 DEF Next
<1>2. QED
  BY <1>1, TypeCorrect, PTL DEF Spec, RowsExplainBalances

-----------------------------------------------------------------------------
(* The shares of the next sale                                               *)

\* RoundRate rounds half to even, as the rates are small whole percentages.
LEMMA RoundRateRounds ==
  ASSUME NEW rate \in {1, 3}, NEW price \in Nat
  PROVE  Rounded(rate, price, RoundRate(rate, price))
<1> DEFINE v == rate * price
           k == RoundRate(rate, price)
           q == v \div 100
           r == v % 100
<1>1. v \in Nat
  <2>1. CASE rate = 1
    BY <2>1
  <2>2. CASE rate = 3
    BY <2>2
  <2>3. QED
    BY <2>1, <2>2
<1>2. k = IF r < 50 \/ (r = 50 /\ q % 2 = 0) THEN q ELSE q + 1
  BY DEF RoundRate
<1>3. Rounded(rate, price, k) <=>
        LET d == IF 100 * k > v THEN 100 * k - v ELSE v - 100 * k
        IN  d < 50 \/ (d = 50 /\ k % 2 = 0)
  BY DEF Rounded, Distance
<1> HIDE DEF v, k
<1>4. v = 100 * q + r /\ r \in 0..99 /\ q \in Nat
  BY <1>1, SMTT(30)
<1>5. q % 2 = 0 \/ (q + 1) % 2 = 0
  BY <1>4, SMTT(30)
<1> HIDE DEF q, r
<1>6. CASE r < 50
  BY <1>1, <1>2, <1>3, <1>4, <1>6 DEF k
<1>7. CASE r = 50
  <2>1. CASE q % 2 = 0
    BY <1>2, <1>3, <1>4, <1>7, <2>1 DEF k
  <2>2. CASE q % 2 # 0
    BY <1>2, <1>3, <1>4, <1>5, <1>7, <2>2 DEF k
  <2>3. QED
    BY <2>1, <2>2
<1>8. CASE r > 50
  BY <1>1, <1>2, <1>3, <1>4, <1>8 DEF k
<1>9. QED
  BY <1>4, <1>6, <1>7, <1>8 DEF k

\* Whatever coupon is used at whatever price, each share is its rate of what
\* the client pays, rounded to the nearest cent and half to even.
THEOREM SharesRoundedCorrect == Spec => []SharesAreRounded
<1>1. LedgerInvariant => SharesAreRounded
  <2> SUFFICES ASSUME LedgerInvariant, NEW price \in NextPrices
               PROVE  LET shares == SharesOf(price, TRUE)
                      IN  /\ Rounded(PLATFORM_SHARE_RATE, price, shares.platform_share)
                          /\ Rounded(INVITER_SHARE_RATE, price, shares.inviter_share)
                          /\ Rounded(ORIGINATOR_SHARE_RATE, price, shares.originator_share)
    BY DEF SharesAreRounded
  <2>1. PICK c \in CouponId, full \in Int :
          /\ coupons[c].status = "NOT_USED"
          /\ coupons[c].min_charge <= full
          /\ price = full - coupons[c].discount
    BY DEF NextPrices
  <2>2. /\ coupons[c].discount \in Nat /\ coupons[c].min_charge \in Nat
        /\ coupons[c].discount < coupons[c].min_charge
    BY <2>1 DEF LedgerInvariant, TypeOK, Coupon, CouponTerms
  <2>3. price \in Nat /\ (IF price > 0 THEN price ELSE 0) = price
    BY <2>1, <2>2
  <2>4. SharesOf(price, TRUE) = [platform_share   |-> RoundRate(3, price),
                                 inviter_share    |-> RoundRate(1, price),
                                 originator_share |-> RoundRate(1, price)]
    BY <2>3 DEF SharesOf, PLATFORM_SHARE_RATE, INVITER_SHARE_RATE, ORIGINATOR_SHARE_RATE
  <2>5. /\ Rounded(3, price, RoundRate(3, price))
        /\ Rounded(1, price, RoundRate(1, price))
    BY <2>3, RoundRateRounds
  <2>6. /\ SharesOf(price, TRUE).platform_share = RoundRate(3, price)
        /\ SharesOf(price, TRUE).inviter_share = RoundRate(1, price)
        /\ SharesOf(price, TRUE).originator_share = RoundRate(1, price)
    <3> DEFINE k3 == RoundRate(3, price)
               k1 == RoundRate(1, price)
               s == SharesOf(price, TRUE)
    <3>1. s = [platform_share |-> k3, inviter_share |-> k1, originator_share |-> k1]
      BY <2>4
    <3> HIDE DEF s, k1, k3
    <3>2. s.platform_share = k3 /\ s.inviter_share = k1 /\ s.originator_share = k1
      BY <3>1
    <3>3. QED
      BY <3>2 DEF s, k1, k3
  <2>7. PLATFORM_SHARE_RATE = 3 /\ INVITER_SHARE_RATE = 1 /\ ORIGINATOR_SHARE_RATE = 1
    BY DEF PLATFORM_SHARE_RATE, INVITER_SHARE_RATE, ORIGINATOR_SHARE_RATE
  <2>8. QED
    BY <2>5, <2>6, <2>7
<1>2. QED
  BY <1>1, LedgerCorrect, PTL

=============================================================================
