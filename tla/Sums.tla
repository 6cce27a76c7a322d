-------------------------------- MODULE Sums --------------------------------
(***************************************************************************)
(* The sum of a function over 1..n, the aggregate the ledger invariants    *)
(* range over (one term per payment).  It is written as a recursive        *)
(* function, not as a RECURSIVE operator, so that it can be reasoned about *)
(* by proof.                                                               *)
(***************************************************************************)
EXTENDS Integers

\* PartialSums(f)[n] is f[1] + ... + f[n].
PartialSums(f) ==
  LET s[i \in Nat] == IF i = 0 THEN 0 ELSE s[i - 1] + f[i]
  IN  s

SumTo(f, n) == PartialSums(f)[n]

=============================================================================
