-------------------------- MODULE MCPaymentSystem ---------------------------
(***************************************************************************)
(* One payment among the processes of the system and payouts of what it    *)
(* releases, or two payments in one run of the timer.                      *)
(***************************************************************************)
EXTENDS PaymentSystem, TLC

CONSTANTS plat, m1, m2, k1, none, t1, t2, u1, u2

MCMerchant   == {m1, m2}
MCInviter    == m1 :> k1 @@ m2 :> none
MCOrderPrice == {100}
MCCoupon(rule, originator) ==
  [status |-> "NOT_USED", rule |-> rule, originator |-> originator,
   discount |-> 20, min_charge |-> 50]
\* A coupon of each merchant, one of which has no inviter
MCOrphan    == <<MCCoupon(m1, m2), MCCoupon(m2, m1)>>
\* The coupon of that merchant alone
MCOneOrphan == <<MCCoupon(m2, m1)>>

\* Only what blocks the runs of the timer is refunded, and only by WeChat.
OnlyBlockersAreRefunded ==
  \A p \in Serial :
    /\ payments[p].status # "NONE" => payments[p].pay_channel = "WECHAT"
    /\ refunds[p] # "NONE" => NoInviter(p)

MCThread    == {t1, t2}
MCTimer     == {u1, u2}

=============================================================================
