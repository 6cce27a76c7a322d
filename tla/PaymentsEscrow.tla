--------------------------- MODULE PaymentsEscrow ---------------------------
(***************************************************************************)
(* The ledger of module Payments implements the escrow of module Escrow:   *)
(* the pot is the sum of all balances over accounts and channels, what is  *)
(* available is the sum of their withdrawable parts, and a payment whose   *)
(* refund is under way, or has failed, is still held.                      *)
(***************************************************************************)
EXTENDS Payments

\* There are as many accounts as rows in their tables.
ASSUME FiniteAssumption == IsFiniteSet(Merchant) /\ IsFiniteSet(Marketer)

StageOf(status) ==
  CASE status = "NONE" -> "none"
    [] status = "UNPAID" -> "open"
    [] status \in {"FROZEN", "REFUND_REQUESTED", "REFUND_FAILED"} -> "held"
    [] status = "REFUND" -> "refunded"
    [] status = "FINISHED" -> "released"
    [] status = "CANCELLED" -> "void"

\* The accounts in some order, each once
NAccounts == Cardinality(Account)
AccountOrder == CHOOSE o \in [1..NAccounts -> Account] :
                  \A i, j \in 1..NAccounts : o[i] = o[j] => i = j

\* What an account has on both channels, ...
BothOf(f, a) == f[<<a, "WECHAT">>] + f[<<a, "ALIPAY">>]

\* ... and the money of all accounts together.
Total(f) == SumTo([i \in 1..NAccounts |-> BothOf(f, AccountOrder[i])], NAccounts)

Stage == [p \in Serial |-> StageOf(payments[p].status)]
Price == [p \in Serial |-> PaidPrice(payments[p])]

E == INSTANCE Escrow WITH
       Sale      <- Serial,
       Price     <- Nat,
       Float     <- PlatformFloat,
       stage     <- Stage,
       price     <- Price,
       pot       <- Total(balance),
       available <- Total(withdrawable)

\* Every behaviour of the ledger is one of the escrow: customers get back
\* exactly what they paid, no sale is both refunded and released, a release
\* makes no more than the price of the sale available, and nothing else than
\* available money is ever paid out.
ImplementsEscrow == E!Spec

=============================================================================
