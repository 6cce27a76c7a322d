------------------------------ MODULE MCLedger ------------------------------
(***************************************************************************)
(* The instance of MCPayments, read as an escrow too, and the shares of    *)
(* every small price.                                                      *)
(***************************************************************************)
EXTENDS MCPayments, PaymentsEscrow, Rounding
=============================================================================
