------------------------------ MODULE MCReports ------------------------------
(* Two merchants, the first an enterprise with an inviter whose coupon the *)
(* second has given away: sales over two months of one day each.           *)
EXTENDS Reports, TLC

CONSTANTS plat, m1, m2, k1, none

MCInviter == m1 :> k1 @@ m2 :> none
MCCoupons == <<[status |-> "NOT_USED", rule |-> m1, originator |-> m2,
                discount |-> 20, min_charge |-> 50]>>
MCMonths == <<1, 1>>
=============================================================================
