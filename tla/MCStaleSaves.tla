---------------------------- MODULE MCStaleSaves ----------------------------
(* The instance of MCPayments with edits of payments and accounts. *)
EXTENDS MCPayments, StaleSaves

\* an inviter's share of a sale, and what a merchant keeps of it
MCAmount1 == {1, 76}
=============================================================================
