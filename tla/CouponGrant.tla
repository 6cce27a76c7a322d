----------------------------- MODULE CouponGrant -----------------------------
(***************************************************************************)
(* Coupon rules and the grant of coupons, on top of the ledger.            *)
(*                                                                         *)
(* A client who paid polls the result of the payment                       *)
(* (puser/rest/payment_poll_result.py); the first poll that finds the      *)
(* payment FROZEN claims it and is given coupons of other merchants        *)
(* nearby (grant_coupons of base.py).  Nothing of this is one transaction: *)
(* the claim, each piece of stock and each coupon commit by themselves.    *)
(* Meanwhile merchants change the stock of their rules                     *)
(* (CouponViewSet), and the ledger goes on.                                *)
(*                                                                         *)
(* A merchant has one rule.  Where merchants are, which of them are in     *)
(* use and which rules have expired decides only which rules a poll may    *)
(* choose from: any subset is possible.                                    *)
(***************************************************************************)
EXTENDS Payments

CONSTANTS
  Poller,      \* requests that poll the result of a payment
  GrantLimit,  \* coupons granted for a payment, 3 in the code
  Terms,       \* discounts and minimum charges that merchants submit
  Stock,       \* stocks that merchants submit
  MaxUpsets    \* bound: changes of stock and polls that die, together

\* All coupons are granted by these polls or replace one that was.
ASSUME GrantAssumption ==
  /\ InitialCoupons = << >>
  /\ IsFiniteSet(Poller)
  /\ GrantLimit \in Nat
  /\ Terms \subseteq [discount : Nat, min_charge : Nat]
  /\ Stock \subseteq Nat
  /\ MaxUpsets \in Nat

VARIABLES
  rules,    \* the CouponRule table: the rule of each merchant
  granted,  \* payments with coupon_granted set
  polls,    \* what each poll is doing
  edit,     \* the rule a merchant is changing, as it was read
  upsets,   \* number of changes begun and of polls that died
  offered,  \* history: coupons a merchant put on offer, in all
  lost,     \* history: stock of polls that died before they created a coupon
  gifts     \* history: coupons granted for each payment

grantVars == <<rules, granted, polls, edit, upsets, offered, lost, gifts>>
everything == <<vars, grantVars>>

NoRule == [exists |-> FALSE, discount |-> 0, min_charge |-> 0, stock |-> 0]
Idle == [pc |-> "idle"]
NotChanging == [exists |-> FALSE]

Rule(t, s) == [exists |-> TRUE, discount |-> t.discount,
               min_charge |-> t.min_charge, stock |-> s]

-----------------------------------------------------------------------------
(* Rules *)

\* CouponViewSet.create with CouponRuleSerializer.validate
CreateRule(m, t, s) ==
  /\ ~rules[m].exists
  /\ t.discount < t.min_charge
  /\ rules' = [rules EXCEPT ![m] = Rule(t, s)]
  /\ offered' = [offered EXCEPT ![m] = s]
  /\ UNCHANGED <<vars, granted, polls, edit, upsets, lost, gifts>>

\* CouponViewSet.update reads the rule ...
BeginStockEdit(m) ==
  /\ rules[m].exists
  /\ ~edit.exists
  /\ upsets < MaxUpsets
  /\ upsets' = upsets + 1
  /\ edit' = [exists |-> TRUE, merchant |-> m, read |-> rules[m]]
  /\ UNCHANGED <<vars, rules, granted, polls, offered, lost, gifts>>

\* ... and CouponRuleSerializer.update saves all columns of it, with another
\* stock.  Whatever polls took in between is put on offer again.
SaveStock(s) ==
  LET m == edit.merchant
  IN  /\ edit.exists
      /\ IF s = edit.read.stock
         THEN UNCHANGED <<rules, offered>>
         ELSE /\ rules' = [rules EXCEPT ![m] = [edit.read EXCEPT !.stock = s]]
              /\ offered' = [offered EXCEPT ![m] = @ + s - rules[m].stock]
      /\ edit' = NotChanging
      /\ UNCHANGED <<vars, granted, polls, upsets, lost, gifts>>

-----------------------------------------------------------------------------
(* Grants *)

\* PaymentPollResultView.post: only a payment that is FROZEN goes on to
\* grant_coupons.
BeginPoll(t, p) ==
  /\ polls[t].pc = "idle"
  /\ payments[p].status = "FROZEN"
  /\ polls' = [polls EXCEPT ![t] = [pc |-> "claim", payment |-> p]]
  /\ UNCHANGED <<vars, rules, granted, edit, upsets, offered, lost, gifts>>

\* Mutant of MayClaim: coupon_granted is not tested.
MayClaimAgain(p) == payments[p].status = "FROZEN"

\* The condition of the UPDATE that claims a payment
MayClaim(p) == payments[p].status = "FROZEN" /\ p \notin granted

\* The conditional UPDATE of coupon_granted, tested and set at once
Claim(t, accurate) ==
  LET p == polls[t].payment
  IN  /\ polls[t].pc = "claim"
      /\ granted' = IF MayClaim(p) THEN granted \cup {p} ELSE granted
      /\ polls' = [polls EXCEPT ![t] =
                     IF MayClaim(p) /\ accurate THEN [pc |-> "choose", payment |-> p]
                                                ELSE Idle]
      /\ UNCHANGED <<vars, rules, edit, upsets, offered, lost, gifts>>

\* Mutant of Choosable: the merchant that was paid is not excluded.
ChoosableOwn(p) == {m \in Merchant : rules[m].exists /\ rules[m].stock > 0}

\* Rules with stock of merchants other than the one that was paid
Choosable(p) == {m \in Merchant : /\ rules[m].exists
                                  /\ rules[m].stock > 0
                                  /\ m # payments[p].merchant}

\* selected_rules: the query is evaluated once, and its rows are kept.
Choose(t, chosen) ==
  LET p == polls[t].payment
  IN  /\ polls[t].pc = "choose"
      /\ chosen \subseteq Choosable(p)
      /\ polls' = [polls EXCEPT ![t] =
                     [pc |-> "take", payment |-> p, left |-> chosen,
                      read |-> [m \in chosen |-> rules[m]], result |-> {}]]
      /\ UNCHANGED <<vars, rules, granted, edit, upsets, offered, lost, gifts>>

\* Mutant of TakeFrom: the stock that was read is reduced and saved.
TakeFromRead(t, m) ==
  rules' = [rules EXCEPT ![m].stock = polls[t].read[m].stock - 1]

\* The UPDATE stock = F('stock') - 1
TakeFrom(t, m) == rules' = [rules EXCEPT ![m].stock = @ - 1]

\* The condition stock__gt=0 of the UPDATE
HasStock(m) == rules[m].stock > 0

\* if len(result) >= 3: return result
WantsMore(t) == Cardinality(polls[t].result) < GrantLimit

\* One turn of the loop, in random order: the conditional UPDATE of the stock
TakeStock(t, m) ==
  /\ polls[t].pc = "take"
  /\ WantsMore(t)
  /\ m \in polls[t].left
  /\ IF HasStock(m)
     THEN /\ TakeFrom(t, m)
          /\ polls' = [polls EXCEPT ![t] =
               [pc |-> "create", payment |-> @.payment, left |-> @.left \ {m},
                read |-> @.read, result |-> @.result, taken |-> m]]
     ELSE /\ polls' = [polls EXCEPT ![t].left = @ \ {m}]
          /\ UNCHANGED rules
  /\ UNCHANGED <<vars, granted, edit, upsets, offered, lost, gifts>>

\* Mutant of NewCoupon: the status is one of payments.
NewCouponMixed(p, m, read) ==
  [status |-> "UNPAID", rule |-> m, originator |-> payments[p].merchant,
   discount |-> read.discount, min_charge |-> read.min_charge]

\* The coupon of rule m for payment p, with the terms that were read
NewCoupon(p, m, read) ==
  [status |-> "NOT_USED", rule |-> m, originator |-> payments[p].merchant,
   discount |-> read.discount, min_charge |-> read.min_charge]

\* Coupon.objects.create
CreateCoupon(t, c) ==
  LET poll == polls[t]
      m == poll.taken
      p == poll.payment
  IN  /\ poll.pc = "create"
      /\ Fresh(c)
      /\ coupons' = [coupons EXCEPT ![c] = NewCoupon(p, m, poll.read[m])]
      /\ gifts' = [gifts EXCEPT ![p] = @ \cup {c}]
      /\ polls' = [polls EXCEPT ![t] =
           [pc |-> "take", payment |-> p, left |-> poll.left,
            read |-> poll.read, result |-> poll.result \cup {c}]]
      /\ rows' = << >>
      /\ UNCHANGED <<payments, refunds, balance, withdrawable, paidOut,
                     rules, granted, edit, upsets, offered, lost>>

\* The answer to the client
EndGrant(t) ==
  /\ polls[t].pc = "take"
  /\ polls[t].left = {} \/ ~WantsMore(t)
  /\ polls' = [polls EXCEPT ![t] = Idle]
  /\ UNCHANGED <<vars, rules, granted, edit, upsets, offered, lost, gifts>>

\* A worker that dies leaves what it has committed.
PollDies(t) ==
  /\ polls[t].pc # "idle"
  /\ upsets < MaxUpsets
  /\ upsets' = upsets + 1
  /\ lost' = IF polls[t].pc = "create" THEN [lost EXCEPT ![polls[t].taken] = @ + 1]
                                       ELSE lost
  /\ polls' = [polls EXCEPT ![t] = Idle]
  /\ UNCHANGED <<vars, rules, granted, edit, offered, gifts>>

-----------------------------------------------------------------------------
GrantInit ==
  /\ Init
  /\ rules = [m \in Merchant |-> NoRule]
  /\ granted = {}
  /\ polls = [t \in Poller |-> Idle]
  /\ edit = NotChanging
  /\ upsets = 0
  /\ offered = [m \in Merchant |-> 0]
  /\ lost = [m \in Merchant |-> 0]
  /\ gifts = [p \in Serial |-> {}]

RuleStep ==
  \/ \E m \in Merchant, t \in Terms, s \in Stock : CreateRule(m, t, s)
  \/ \E m \in Merchant : BeginStockEdit(m)
  \/ \E s \in Stock : SaveStock(s)

PollStep(t) ==
  \/ \E p \in Serial : BeginPoll(t, p)
  \/ \E accurate \in BOOLEAN : Claim(t, accurate)
  \/ \E chosen \in SUBSET Merchant : Choose(t, chosen)
  \/ \E m \in Merchant : TakeStock(t, m)
  \/ \E c \in CouponId : CreateCoupon(t, c)
  \/ EndGrant(t)
  \/ PollDies(t)

GrantNext ==
  \/ Next /\ UNCHANGED grantVars
  \/ RuleStep
  \/ \E t \in Poller : PollStep(t)

GrantSpec == GrantInit /\ [][GrantNext]_everything

-----------------------------------------------------------------------------
(* Properties *)

\* Every variable has its type.
GrantTypeOK ==
  /\ TypeOK
  /\ rules \in [Merchant -> [exists : BOOLEAN, discount : Nat,
                             min_charge : Nat, stock : Int]]
  /\ granted \subseteq Serial
  /\ \A t \in Poller :
       /\ polls[t].pc \in {"idle", "claim", "choose", "take", "create"}
       /\ polls[t].pc # "idle" => polls[t].payment \in Serial
       /\ polls[t].pc \in {"take", "create"} =>
            polls[t].left \subseteq DOMAIN polls[t].read

\* However many polls race, retry or die, a payment earns coupons once: at
\* most GrantLimit, no two of the same rule, and none while it is unclaimed
\* (the conditional UPDATE of coupon_granted).
OneGrantAPayment ==
  \A p \in Serial :
    /\ Cardinality(gifts[p]) <= GrantLimit
    /\ \A c, d \in gifts[p] : coupons[c].rule = coupons[d].rule => c = d
    /\ p \notin granted => gifts[p] = {}

\* Coupons of merchant m that clients have, in use or not
Obtained(m) == {c \in CouponId : /\ coupons[c].status \in {"NOT_USED", "USED"}
                                 /\ coupons[c].rule = m}

\* Polls that took a piece of stock of merchant m and have no coupon for it
BeingMade(m) == {t \in Poller : polls[t].pc = "create" /\ polls[t].taken = m}

\* A merchant gives away exactly what it put on offer: what is left in stock,
\* what clients have (obtain_num of CouponRuleManager), what is being made and
\* what dead polls lost add up to it, although polls of many payments share
\* the stock, merchants change it underneath, and coupons are destroyed and
\* replaced by cancels and refunds; and no rule is oversold.
StockBecomesCoupons ==
  \A m \in Merchant :
    /\ rules[m].stock >= 0
    /\ rules[m].stock + Cardinality(Obtained(m)) + Cardinality(BeingMade(m)) + lost[m]
         = offered[m]

\* Every coupon a client can hold has what the ledger takes for granted
\* (CouponAssumption): it leaves something to pay, and its payment has an
\* originator other than the merchant, so that on_payment_unfreeze can divide
\* it among different accounts.
CouponsAreSound ==
  \A c \in CouponId : coupons[c].status # "NONE" =>
    /\ coupons[c].rule # coupons[c].originator
    /\ coupons[c].discount < coupons[c].min_charge
    /\ coupons[c].discount = rules[coupons[c].rule].discount

\* Every piece of stock becomes one sound coupon, or is known to be lost.
GrantsAreSound == GrantTypeOK /\ StockBecomesCoupons /\ CouponsAreSound

=============================================================================
