----------------------------- MODULE MCPayments -----------------------------
(***************************************************************************)
(* Two payments over both channels, two merchants of which the second has  *)
(* given the first's coupon away, one inviter.  All prices share the       *)
(* rounding of the rates: 80 cents paid divide into 2 + 1 + 1 + 76.        *)
(***************************************************************************)
EXTENDS Payments, TLC

CONSTANTS plat, m1, m2, k1, none

MCMerchant   == {m1, m2}
MCMarketer   == {k1}
MCInviter    == m1 :> k1 @@ m2 :> none
MCEnterprise == {m1}
MCOrderPrice == {100}
MCAmount     == {0, 76, 100}
MCCoupons    == <<[status |-> "NOT_USED", rule |-> m1, originator |-> m2,
                   discount |-> 20, min_charge |-> 50]>>

=============================================================================
