------------------------------ MODULE Payouts -------------------------------
(***************************************************************************)
(* Withdrawals and transfers among threads and providers.  A request is    *)
(* checked when it comes in, without a lock.  Then _try_withdraw and       *)
(* _try_transfer lock the account, check it again, ask the provider to pay *)
(* and only then book the payout and commit: the account stays locked      *)
(* while the provider is asked, and an error rolls everything back.  The   *)
(* provider, however, may have paid: every attempt has a new serial        *)
(* number, so a second attempt pays again.                                 *)
(*                                                                         *)
(* What it promises is stated in module Treasury.                          *)
(***************************************************************************)
EXTENDS Payments

CONSTANTS
  MaxFaults,    \* bound: answers that get lost and payouts that die, together
  NRequests     \* bound: requests 1..NRequests for a payout come in

ASSUME PayoutAssumption == MaxFaults \in Nat /\ NRequests \in Nat

VARIABLES
  requests,  \* payouts that are asked for
  payout,    \* the payout that holds the lock of each account
  sent,      \* what the providers paid out of each purse
  failed,    \* sum of the FAILED Withdraw and TransferRecord rows of each purse
  lost,      \* number of answers of a provider that got lost
  crashes    \* number of payouts that ended without an answer being handled

counters == <<lost, crashes>>
payoutVars == <<requests, payout, sent, failed, counters>>

Request == 1..NRequests
NoRequest == [pc |-> "none"]
Done == [pc |-> "done"]
NoPayout == [pc |-> "none"]
Locked(a) == payout[a] # NoPayout
At(pc, ch, n) == [pc |-> pc, channel |-> ch, amount |-> n]
Release(a) == payout' = [payout EXCEPT ![a] = NoPayout]

\* The purses an account owner may empty: the platform only transfers, from
\* its Alipay purse.
MayPay(a, ch) == a # Platform \/ ch = "ALIPAY"

-----------------------------------------------------------------------------
\* MerchantWithdrawSerializer and MarketerWithdrawSerializer compare the
\* amount with the withdrawable balance; transfers are not checked.
Ask(r, a, ch, n) ==
  /\ requests[r] = NoRequest
  /\ \A s \in Request : s < r => requests[s] # NoRequest
  /\ MayPay(a, ch)
  /\ n > 0
  /\ a = Platform \/ withdrawable[<<a, ch>>] >= n
  /\ requests' = [requests EXCEPT ![r] =
       [pc |-> "asked", account |-> a, channel |-> ch, amount |-> n]]
  /\ UNCHANGED <<vars, payout, sent, failed, counters>>

\* Mutant of Suffices: what the request found without a lock is relied on.
AskedForIsEnough(purse, n) == TRUE

\* The test of _try_withdraw and _try_transfer under the lock
Suffices(purse, n) == withdrawable[purse] >= n

\* The lock is taken and the withdrawable balance is sufficient ...
BeginPayout(r) ==
  LET q == requests[r]
  IN  /\ q.pc = "asked"
      /\ ~Locked(q.account)
      /\ Suffices(<<q.account, q.channel>>, q.amount)
      /\ payout' = [payout EXCEPT ![q.account] = At("call", q.channel, q.amount)]
      /\ requests' = [requests EXCEPT ![r] = Done]
      /\ UNCHANGED <<vars, sent, failed, counters>>

\* Mutant of RecordFailure: no row is written.
ForgetFailure(a, ch, n) == UNCHANGED failed

\* withdraw and transfer catch the error and write a row of their own.  It has
\* the account, the channel and the amount, but a serial number made for the
\* row: the one that the provider was asked with went with the transaction.
RecordFailure(a, ch, n) == failed' = Add(failed, <<a, ch>>, n)

\* ... or it is not: BalanceInsufficient
RefusePayout(r) ==
  LET q == requests[r]
  IN  /\ q.pc = "asked"
      /\ ~Locked(q.account)
      /\ ~Suffices(<<q.account, q.channel>>, q.amount)
      /\ RecordFailure(q.account, q.channel, q.amount)
      /\ requests' = [requests EXCEPT ![r] = Done]
      /\ UNCHANGED <<vars, payout, sent, counters>>

\* The provider pays, refuses, or pays and its answer gets lost.
CallProvider(a) ==
  LET ch == payout[a].channel
      n == payout[a].amount
      Answer(pc) == payout' = [payout EXCEPT ![a] = At(pc, ch, n)]
      Paid == sent' = Add(sent, <<a, ch>>, n)
  IN  /\ payout[a].pc = "call"
      /\ \/ Paid /\ Answer("paid") /\ UNCHANGED lost
         \/ Answer("error") /\ UNCHANGED <<sent, lost>>
         \/ lost + crashes < MaxFaults /\ lost' = lost + 1 /\ Paid /\ Answer("error")
      /\ UNCHANGED <<vars, requests, failed, crashes>>

\* Mutant of CommitPayout: the account is not saved.
CommitUnbooked(a) ==
  /\ payout[a].pc = "paid"
  /\ Release(a)
  /\ UNCHANGED <<vars, requests, sent, failed, counters>>

\* The rest of the transaction: the balance is not tested again.
CommitPayout(a) ==
  LET purse == <<a, payout[a].channel>>
      n == payout[a].amount
  IN  /\ payout[a].pc = "paid"
      /\ TakeOut(purse, n)
      /\ rows' = <<PayOutRow(purse, n)>>
      /\ Release(a)
      /\ UNCHANGED <<payments, refunds, coupons, requests, sent, failed, counters>>

\* Mutant of RollBackPayout: the failed payout is booked all the same.
BookFailedPayout(a) ==
  /\ payout[a].pc = "error"
  /\ RecordFailure(a, payout[a].channel, payout[a].amount)
  /\ TakeOut(<<a, payout[a].channel>>, payout[a].amount)
  /\ rows' = << >>
  /\ Release(a)
  /\ UNCHANGED <<payments, refunds, coupons, requests, sent, counters>>

RollBackPayout(a) ==
  /\ payout[a].pc = "error"
  /\ RecordFailure(a, payout[a].channel, payout[a].amount)
  /\ Release(a)
  /\ UNCHANGED <<vars, requests, sent, counters>>

\* The process dies, or an exception other than ApiRequestError and
\* ApiReturnedError passes withdraw: rolled back, without a row.
PayoutDies(a) ==
  /\ Locked(a)
  /\ lost + crashes < MaxFaults
  /\ crashes' = crashes + 1
  /\ Release(a)
  /\ UNCHANGED <<vars, requests, sent, failed, lost>>

\* A transaction that needs a locked account waits for it.
Untouched(a) == \A ch \in Channel : /\ balance'[<<a, ch>>] = balance[<<a, ch>>]
                                    /\ withdrawable'[<<a, ch>>] = withdrawable[<<a, ch>>]
LocksRespected == \A a \in Account : Locked(a) => Untouched(a)

PayoutInit ==
  /\ requests = [r \in Request |-> NoRequest]
  /\ payout = [a \in Account |-> NoPayout]
  /\ sent = [purse \in Purse |-> 0]
  /\ failed = [purse \in Purse |-> 0]
  /\ lost = 0 /\ crashes = 0

PayoutStep ==
  \/ \E r \in Request :
       \/ \E a \in Account, ch \in Channel, n \in Amount : Ask(r, a, ch, n)
       \/ BeginPayout(r) \/ RefusePayout(r)
  \/ \E a \in Account :
       \/ CallProvider(a) \/ CommitPayout(a) \/ RollBackPayout(a) \/ PayoutDies(a)

=============================================================================
