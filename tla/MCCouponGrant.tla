---------------------------- MODULE MCCouponGrant ----------------------------
(* Polls of two payments that race for the coupons of two merchants. *)
EXTENDS CouponGrant, TLC

CONSTANTS plat, m1, m2, k1, none, t1, t2

MCMerchant == {m1, m2}
MCPoller   == {t1, t2}
MCInviter  == [m \in Merchant |-> k1]
MCCoupons  == << >>
MCTerms    == {[discount |-> 20, min_charge |-> 50],
               [discount |-> 50, min_charge |-> 50]}

\* Grants do not look at the channel of a payment, and a refund that failed is
\* to them like one that is under way.
NoMatter == \A p \in Serial : payments[p].status # "NONE" =>
              /\ payments[p].pay_channel = "WECHAT"
              /\ payments[p].status # "REFUND_FAILED"

\* Merchants are alike, and so are polls.
Alike == Permutations(Merchant) \cup Permutations(Poller)
=============================================================================
