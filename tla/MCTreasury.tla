----------------------------- MODULE MCTreasury -----------------------------
(* One enterprise merchant and its inviter: sales over the days, payouts, and the timer. *)
EXTENDS Treasury

CONSTANTS plat, m1, k1, none

MCInviter   == [m \in {m1} |-> k1]
MCNoCoupons == << >>

\* Sales of the last day, which no call of the timer bills, are left out; to
\* payouts and bills a refund that failed is like one under way.
SalesAreBilled == \A p \in Serial : placed[p] < MaxDay /\ payments[p].status # "REFUND_FAILED"
=============================================================================
