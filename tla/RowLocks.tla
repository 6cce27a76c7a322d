------------------------------ MODULE RowLocks ------------------------------
(***************************************************************************)
(* The transactions of the ledger, row lock by row lock.  Every other      *)
(* module takes a transaction as one step; here it takes its locks one at  *)
(* a time (select_for_update, or an UPDATE), in the order of its code, and *)
(* commits when it holds them all.  The rows it writes it has locked, so   *)
(* the commit is an action of the ledger.                                  *)
(*                                                                         *)
(* The code does not lock in one order.  A set of transactions in which    *)
(* each waits for another never gets on: MySQL finds it and rolls one of   *)
(* them back.                                                              *)
(***************************************************************************)
EXTENDS Payments

CONSTANTS
  Txn,    \* database connections
  Id,     \* the primary key of each account
  MaxId   \* the last of them

ASSUME LockAssumption ==
  /\ MaxId \in Nat
  /\ Id \in [Account -> 1..MaxId]
  /\ \A a, b \in Account : Id[a] = Id[b] => a = b
  /\ Id[Platform] = 1    \* PLATFORM_ACCOUNT_ID

VARIABLE txns   \* what each connection is doing, and the locks it holds

locking == <<vars, txns>>

TheAccount(a) == <<"account", a>>
ThePayment(p) == <<"payment", p>>
TheRefund(p)  == <<"refund", p>>
TheCoupon(c)  == <<"coupon", c>>

Kind == {"pay", "refund", "fail", "request", "cancel", "unfreeze", "withdraw"}

NoTxn == [kind |-> "none"]
Running(t) == txns[t].kind # "none"

-----------------------------------------------------------------------------
(* The locks a transaction takes, in order *)

CouponLock(x) == IF HasCoupon(x) THEN <<TheCoupon(x.coupon)>> ELSE << >>

\* filter(id__in=...): the rows are read by primary key.
AccountLocks(owners) ==
  LET sorted == CHOOSE s \in [1..Cardinality(owners) -> owners] :
                  \A i, j \in DOMAIN s : i < j => Id[s[i]] < Id[s[j]]
  IN  [i \in DOMAIN sorted |-> TheAccount(sorted[i])]

\* Mutant of PayLocks: the platform account is not locked.
PayLocksFew(p) == <<TheAccount(payments[p].merchant), ThePayment(p)>>

\* Mutant of PayLocks: accounts against the order of their ids.
PayLocksReversed(p) == <<TheAccount(payments[p].merchant), TheAccount(Platform),
                         ThePayment(p)>>

\* on_payment_success
PayLocks(p) == <<TheAccount(Platform), TheAccount(payments[p].merchant),
                 ThePayment(p)>>

\* on_refund_success
RefundLocks(p) == <<TheAccount(Platform), TheAccount(payments[p].merchant)>>
                    \o CouponLock(payments[p]) \o <<ThePayment(p), TheRefund(p)>>

\* on_payment_unfreeze: the query set of the accounts is evaluated after the
\* payment was fetched, and select_related locks the coupon with its payment.
UnfreezeLocks(p) ==
  LET x == payments[p]
      owners == {Platform, x.merchant, coupons[x.coupon].originator, Inviter[x.merchant]}
  IN  IF HasCoupon(x)
      THEN <<ThePayment(p), TheCoupon(x.coupon)>> \o AccountLocks(owners)
      ELSE <<TheAccount(x.merchant), ThePayment(p)>>

\* request_refund locks the Refund row it opens again; one it creates nobody
\* knows yet.
Locks(kind, p) ==
  CASE kind = "pay" -> PayLocks(p)
    [] kind = "refund" -> RefundLocks(p)
    [] kind \in {"fail", "request"} -> <<ThePayment(p), TheRefund(p)>>
    [] kind = "cancel" -> CouponLock(payments[p]) \o <<ThePayment(p)>>
    [] kind = "unfreeze" -> UnfreezeLocks(p)

Begun(kind, p, locks) == [kind |-> kind, payment |-> p, held |-> {}, todo |-> locks]

\* What the callers know, without a lock, when the transaction begins
Called(kind, p) ==
  CASE kind = "pay" -> payments[p].status # "NONE"
    [] kind \in {"refund", "fail"} -> refunds[p] # "NONE"
    [] kind = "request" -> payments[p].status \in {"FROZEN", "REFUND_FAILED"}
    [] kind = "cancel" -> payments[p].status = "UNPAID"
    [] kind = "unfreeze" ->
         /\ payments[p].status = "FROZEN"
         /\ HasCoupon(payments[p]) => Inviter[payments[p].merchant] # NoMarketer

Begin(t, kind, p) ==
  /\ ~Running(t)
  /\ Called(kind, p)
  /\ txns' = [txns EXCEPT ![t] = Begun(kind, p, Locks(kind, p))]
  /\ UNCHANGED vars

\* Withdrawals, transfers and settlements lock one account; its owner stands
\* for the payment.
BeginWithdraw(t, a) ==
  /\ ~Running(t)
  /\ txns' = [txns EXCEPT ![t] = Begun("withdraw", a, <<TheAccount(a)>>)]
  /\ UNCHANGED vars

-----------------------------------------------------------------------------
(* Locking *)

NextLock(t) == Head(txns[t].todo)
Complete(t) == Running(t) /\ txns[t].todo = << >>

\* t waits for a lock that u holds.
WaitsFor(t, u) == /\ Running(t) /\ Running(u) /\ t # u
                  /\ txns[t].todo # << >>
                  /\ NextLock(t) \in txns[u].held

\* on_payment_unfreeze tests the status before it locks the accounts.
Refused(t) == /\ txns[t].kind = "unfreeze"
              /\ ThePayment(txns[t].payment) \in txns[t].held
              /\ txns[t].todo # << >>
              /\ NextLock(t)[1] = "account"
              /\ payments[txns[t].payment].status # "FROZEN"

Lock(t) ==
  /\ Running(t)
  /\ txns[t].todo # << >>
  /\ ~Refused(t)
  /\ \A u \in Txn : ~WaitsFor(t, u)
  /\ txns' = [txns EXCEPT ![t].held = @ \cup {NextLock(t)}, ![t].todo = Tail(@)]
  /\ UNCHANGED vars

Release(t) == txns' = [txns EXCEPT ![t] = NoTxn]

Commit(t) ==
  LET p == txns[t].payment
  IN  /\ Complete(t)
      /\ CASE txns[t].kind = "pay" -> OnPaymentSuccess(p)
           [] txns[t].kind = "refund" -> OnRefundSuccess(p)
           [] txns[t].kind = "fail" -> OnRefundFail(p)
           [] txns[t].kind = "request" -> RequestRefund(p)
           [] txns[t].kind = "cancel" -> CancelOrder(p)
           [] txns[t].kind = "unfreeze" -> OnPaymentUnfreeze(p)
           [] txns[t].kind = "withdraw" ->
                \E ch \in Channel, n \in Amount : Withdraw(p, ch, n)
      /\ Release(t)

\* A status that does not fit, an error of the provider, a lost connection
RollBack(t) == /\ Complete(t) \/ (Running(t) /\ Refused(t))
               /\ Release(t)
               /\ UNCHANGED vars

\* Transactions each of which waits for another of them
Stuck(S) == S # {} /\ \A t \in S : \E u \in S : WaitsFor(t, u)

\* innodb_deadlock_detect
Detected(t) == \E S \in SUBSET Txn : t \in S /\ Stuck(S)

\* MySQL rolls one of them back.
Victim(t) == /\ Detected(t)
             /\ Release(t)
             /\ UNCHANGED vars

-----------------------------------------------------------------------------
LockInit == Init /\ txns = [t \in Txn |-> NoTxn]

\* An order locks a coupon by its UPDATE and commits a row nobody knows yet.
Order == /\ \E p \in Serial, ch \in Channel, m \in Merchant,
               c \in CouponId \cup {NoCoupon}, price \in OrderPrice :
              /\ c # NoCoupon => \A t \in Txn : Running(t) => TheCoupon(c) \notin txns[t].held
              /\ PlaceOrder(p, ch, m, c, price)
         /\ UNCHANGED txns

TxnStep(t) ==
  \/ \E kind \in Kind \ {"withdraw"}, p \in Serial : Begin(t, kind, p)
  \/ \E a \in Merchant \cup Marketer : BeginWithdraw(t, a)
  \/ Lock(t)
  \/ Commit(t)
  \/ RollBack(t)
  \/ Victim(t)

LockNext == Order \/ \E t \in Txn : TxnStep(t)

LockSpec == LockInit /\ [][LockNext]_locking

-----------------------------------------------------------------------------
(* Properties *)

\* The rows that exist and are changed by a step
Changed ==
  {TheAccount(a) : a \in {b \in Account : \E ch \in Channel :
     \/ balance'[<<b, ch>>] # balance[<<b, ch>>]
     \/ withdrawable'[<<b, ch>>] # withdrawable[<<b, ch>>]}}
  \cup {ThePayment(p) : p \in {q \in Serial :
     payments[q].status # "NONE" /\ payments'[q] # payments[q]}}
  \cup {TheRefund(p) : p \in {q \in Serial :
     refunds[q] # "NONE" /\ refunds'[q] # refunds[q]}}
  \cup {TheCoupon(c) : c \in {d \in CouponId :
     coupons[d].status # "NONE" /\ coupons'[d] # coupons[d]}}

\* The rows that other connections have locked
HeldByOthers(t) == UNION {txns[u].held : u \in {v \in Txn \ {t} : Running(v)}}

\* What a transaction writes it has locked before it read it, it alone, and
\* nobody can have written it since: this is why the other modules may take it
\* as one step.
WritesAreLocked ==
  [][\A t \in Txn : Commit(t) => Changed \subseteq txns[t].held \ HeldByOthers(t)]_locking

\* Accounts never are what transactions deadlock about, since all of them lock
\* accounts in the order of their ids; the only deadlocks are between the
\* unfreezing of a payment with a coupon, which locks the payment first, and
\* a notice, a refund or a cancel of the same payment, which lock it last.
DeadlocksAreUnfreezes ==
  \A S \in SUBSET Txn : Stuck(S) =>
    \E t, u \in S :
      /\ txns[t].kind = "unfreeze"
      /\ txns[u].kind \in {"pay", "refund", "cancel"}
      /\ txns[t].payment = txns[u].payment
      /\ WaitsFor(t, u) \/ WaitsFor(u, t)

=============================================================================
