------------------------------ MODULE Treasury ------------------------------
(***************************************************************************)
(* The two ways money leaves the ledger, together: payouts that owners ask *)
(* for (module Payouts) and the settlement by the timer (module            *)
(* Settlement), day by day among the sales.  All of them take the lock of  *)
(* the account, and a payout keeps it while the provider is asked.         *)
(***************************************************************************)
EXTENDS Payouts, Settlement

treasury == <<vars, payoutVars, days>>

TreasuryInit == Init /\ PayoutInit /\ SettlementInit

Sale ==
  /\ \E p \in Serial : PaymentStep(p)
  /\ LocksRespected
  /\ Dated
  /\ UNCHANGED <<payoutVars, day, bills, agenda, runs>>

\* The next bill of a running view, as soon as its account is free
SettleNext ==
  \E b \in agenda : ~Locked(b.merchant) /\ SettleBill(b) /\ UNCHANGED payoutVars

TreasuryNext ==
  \/ Sale
  \/ PayoutStep /\ UNCHANGED days
  \/ StartSettlement /\ UNCHANGED payoutVars
  \/ SettleNext
  \/ \E m \in Enterprise : \E i \in DOMAIN bills[m] :
       MarkFinished(m, i) /\ UNCHANGED payoutVars
  \/ DayPasses /\ UNCHANGED payoutVars

TreasurySpec == TreasuryInit /\ [][TreasuryNext]_treasury

-----------------------------------------------------------------------------
(* Properties *)

\* What the Settlement rows say was settled out of a purse
Settled(a, ch) ==
  IF a \notin Enterprise THEN 0
  ELSE SumTo([i \in 1..Len(bills[a]) |-> IF ch = "WECHAT" THEN bills[a][i].wechat
                                                       ELSE bills[a][i].alipay],
             Len(bills[a]))

InFlight(a, ch) ==
  IF payout[a].pc = "paid" /\ payout[a].channel = ch THEN payout[a].amount ELSE 0

\* As long as every answer arrives and is handled, what left each purse is
\* exactly what the providers paid and the bills settled: nothing is sent
\* twice or settled without a bill, although each side reads the balance
\* before it has the lock.
SentIsBooked ==
  lost = 0 /\ crashes = 0 =>
    \A a \in Account, ch \in Channel :
      sent[<<a, ch>>] + Settled(a, ch) = paidOut[<<a, ch>>] + InFlight(a, ch)

\* As long as no payout dies, what was sent and not booked is bounded by the
\* FAILED rows of its account and channel: without such a row nothing was paid
\* unnoticed.  The rows do not tell which of them were paid, and the provider
\* does not know the serial numbers they have.
LossHasFailedRow ==
  crashes = 0 =>
    \A a \in Account, ch \in Channel :
      sent[<<a, ch>>] + Settled(a, ch)
        <= paidOut[<<a, ch>>] + InFlight(a, ch) + failed[<<a, ch>>]
           + IF payout[a].pc = "error" /\ payout[a].channel = ch THEN payout[a].amount ELSE 0

\* Whatever is lost, the ledger itself books every payout once and only what
\* was sent or settled.
BookedIsSent ==
  \A a \in Account, ch \in Channel : paidOut[<<a, ch>>] <= sent[<<a, ch>>] + Settled(a, ch)

\* From the test under the lock until the payout is committed or rolled back
\* its purse holds what it takes: the commit, which does not test the balance
\* again, overdraws no purse, however many requests passed their first test on
\* the same money and whatever settlements and sales come in between.
HeldIsCovered ==
  \A a \in Account :
    Locked(a) => withdrawable[<<a, payout[a].channel>>] >= payout[a].amount

\* What the providers sent, what the ledger booked, what failed and what is
\* held explain each other.
PayoutsAreAccounted == SentIsBooked /\ LossHasFailedRow /\ BookedIsSent /\ HeldIsCovered

=============================================================================
