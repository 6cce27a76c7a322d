----------------------------- MODULE MCRowLocks -----------------------------
(* One or two payments of the instance of MCPayments, and two or three connections. *)
EXTENDS MCPayments, RowLocks

CONSTANTS t1, t2, t3

MCId == plat :> 1 @@ m1 :> 2 @@ k1 :> 3 @@ m2 :> 4

\* Connections are alike.
Connections == Permutations(Txn)
=============================================================================
