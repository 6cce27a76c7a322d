---------------------------- MODULE GrantProofs ----------------------------
(***************************************************************************)
(* Proofs about the grant of coupons, for any sets of merchants, payments, *)
(* polls, terms and stocks, and about the days on which they are valid.    *)
(*                                                                         *)
(* A poll that claimed a payment is the only one that does something about *)
(* it: what it has in its hand is what the payment was granted, and the    *)
(* rules it still holds are of other merchants than those already granted  *)
(* and than the one that was paid.  The terms of a rule never change, so   *)
(* that what a poll or a merchant read earlier still holds; stock moves    *)
(* from the rule to the poll, and from there to a coupon or is lost.       *)
(***************************************************************************)
EXTENDS CouponGrant, PaymentsProofs, CouponDates

USE GrantAssumption

RuleRow == [exists : BOOLEAN, discount : Nat, min_charge : Nat, stock : Int]

\* The rules that a poll may have read
Reads == UNION {[S -> RuleRow] : S \in SUBSET Merchant}

PollRow ==
  [pc : {"idle"}] \cup [pc : {"claim", "choose"}, payment : Serial]
  \cup [pc : {"take"}, payment : Serial, left : SUBSET Merchant, read : Reads,
        result : SUBSET CouponId]
  \cup [pc : {"create"}, payment : Serial, left : SUBSET Merchant, read : Reads,
        result : SUBSET CouponId, taken : Merchant]

EditRow == {NotChanging} \cup [exists : {TRUE}, merchant : Merchant, read : RuleRow]

GrantRowsOK ==
  /\ rules \in [Merchant -> RuleRow]
  /\ granted \subseteq Serial
  /\ polls \in [Poller -> PollRow]
  /\ edit \in EditRow
  /\ offered \in [Merchant -> Int]
  /\ lost \in [Merchant -> Nat]
  /\ gifts \in [Serial -> SUBSET CouponId]

\* What was read of the rule of merchant m holds but for the stock.
ReadNow(m, r) ==
  /\ rules[m].exists /\ r.exists
  /\ rules[m].discount = r.discount /\ rules[m].min_charge = r.min_charge

\* What payment p was granted
GiftsOK(p) ==
  /\ Cardinality(gifts[p]) <= GrantLimit
  /\ \A c \in gifts[p] : coupons[c].status # "NONE"
  /\ \A c, d \in gifts[p] : coupons[c].rule = coupons[d].rule => c = d
  /\ p \notin granted => gifts[p] = {}

\* A poll that claimed its payment
Grants(x) == x.pc \in {"choose", "take", "create"}

\* What such a poll has in its hand
PollOK(x) ==
  /\ x.payment \in granted
  /\ x.pc = "choose" => gifts[x.payment] = {}
  /\ x.pc \in {"take", "create"} =>
       /\ x.result = gifts[x.payment]
       /\ x.left \subseteq DOMAIN x.read
       /\ \A m \in DOMAIN x.read : m # payments[x.payment].merchant /\ ReadNow(m, x.read[m])
       /\ \A m \in x.left, c \in x.result : coupons[c].rule # m
  /\ x.pc = "create" =>
       /\ Cardinality(x.result) < GrantLimit
       /\ x.taken \in DOMAIN x.read /\ x.taken \notin x.left
       /\ \A c \in x.result : coupons[c].rule # x.taken

PollsOK ==
  /\ \A t \in Poller : polls[t].pc # "idle" => payments[polls[t].payment].status # "NONE"
  /\ \A t \in Poller : Grants(polls[t]) => PollOK(polls[t])
  /\ \A t, u \in Poller : Grants(polls[t]) /\ Grants(polls[u]) /\ t # u =>
       polls[t].payment # polls[u].payment

RulesOK ==
  /\ \A m \in Merchant : rules[m].exists => rules[m].discount < rules[m].min_charge
  /\ \A m \in Merchant : ~rules[m].exists => lost[m] = 0
  /\ edit.exists => ReadNow(edit.merchant, edit.read)
  /\ \A c \in CouponId : coupons[c].status # "NONE" => rules[coupons[c].rule].exists

\* The piece of stock of m that poll x took; how many polls of f took one.
Makes(x, m) == IF x.pc = "create" /\ x.taken = m THEN 1 ELSE 0
Making(f, m) == Cardinality({t \in Poller : Makes(f[t], m) = 1})

StockOK(m) ==
  /\ rules[m].stock >= 0
  /\ rules[m].stock + Cardinality(LiveOf({m})) + Making(polls, m) + lost[m] = offered[m]

GrantInvariant ==
  /\ CouponTables
  /\ GrantRowsOK
  /\ \A p \in Serial : GiftsOK(p)
  /\ PollsOK
  /\ RulesOK
  /\ CouponsAreSound
  /\ \A m \in Merchant : StockOK(m)

----------------------------------------------------------------------------
LEMMA PollType ==
  ASSUME NEW x \in PollRow
  PROVE  /\ x.pc \in {"idle", "claim", "choose", "take", "create"}
         /\ x.pc # "idle" => x.payment \in Serial
         /\ x.pc = "take" => x \in [pc : {"take"}, payment : Serial, left : SUBSET Merchant,
                                    read : Reads, result : SUBSET CouponId]
         /\ x.pc = "create" => x \in [pc : {"create"}, payment : Serial, left : SUBSET Merchant,
                                      read : Reads, result : SUBSET CouponId, taken : Merchant]
  BY DEF PollRow

LEMMA ReadsType ==
  ASSUME NEW f \in Reads
  PROVE  DOMAIN f \in SUBSET Merchant /\ \A m \in DOMAIN f : f[m] \in RuleRow
  BY DEF Reads

LEMMA MakingType ==
  \A f, m : Making(f, m) \in Nat
<1> SUFFICES ASSUME NEW f, NEW m PROVE Making(f, m) \in Nat
  OBVIOUS
<1> DEFINE F == {t \in Poller : Makes(f[t], m) = 1}
<1>1. F \subseteq Poller
  OBVIOUS
<1>2. IsFiniteSet(F)
  BY <1>1, FS_Subset
<1>3. QED
  BY <1>2, FS_CardinalityType DEF Making

LEMMA EditType ==
  ASSUME NEW e \in EditRow
  PROVE  e.exists => e \in [exists : {TRUE}, merchant : Merchant, read : RuleRow]
<1>1. CASE e = NotChanging
  <2>1. e.exists = FALSE
    BY <1>1 DEF NotChanging
  <2>2. QED
    BY <2>1
<1>2. CASE e \in [exists : {TRUE}, merchant : Merchant, read : RuleRow]
  BY <1>2
<1>3. QED
  BY <1>1, <1>2 DEF EditRow

\* How many polls hold stock of m when one of them goes on
LEMMA MakingMoves ==
  ASSUME NEW f, NEW g, NEW t \in Poller, NEW to, NEW m,
         g[t] = to, \A k \in Poller : k # t => g[k] = f[k]
  PROVE  Making(g, m) = Making(f, m) - Makes(f[t], m) + Makes(to, m)
<1> DEFINE F == {k \in Poller : Makes(f[k], m) = 1}
           G == {k \in Poller : Makes(g[k], m) = 1}
           Was == Makes(f[t], m) = 1
           Is == Makes(to, m) = 1
<1>1. IsFiniteSet(F) /\ Cardinality(F) \in Nat
  <2>1. F \subseteq Poller
    OBVIOUS
  <2>2. IsFiniteSet(F)
    BY <2>1, FS_Subset
  <2>3. QED
    BY <2>2, FS_CardinalityType
<1>2. g[t] = to /\ \A k \in Poller : k # t => g[k] = f[k]
  OBVIOUS
<1>n. \A x : Makes(x, m) \in {0, 1}
  BY DEF Makes
<1> SUFFICES Cardinality(G) = Cardinality(F) - Makes(f[t], m) + Makes(to, m)
  BY DEF Making
<1>3. CASE Was /\ Is
  <2>1. G = F
    BY <1>2, <1>3
  <2> HIDE DEF F, G
  <2>2. QED
    BY <1>n, <1>1, <1>3, <2>1
<1>4. CASE ~Was /\ ~Is
  <2>1. G = F
    BY <1>2, <1>4
  <2> HIDE DEF F, G
  <2>2. QED
    BY <1>n, <1>1, <1>4, <2>1
<1>5. CASE Was /\ ~Is
  <2>1. G = F \ {t} /\ t \in F
    BY <1>2, <1>5
  <2> HIDE DEF F, G
  <2>2. Cardinality(G) = Cardinality(F) - 1
    BY <1>1, <2>1, FS_RemoveElement
  <2>3. QED
    BY <1>n, <1>1, <1>5, <2>2
<1>6. CASE ~Was /\ Is
  <2>1. G = F \cup {t} /\ t \notin F
    BY <1>2, <1>6
  <2> HIDE DEF F, G
  <2>2. Cardinality(G) = Cardinality(F) + 1
    BY <1>1, <2>1, FS_AddElement
  <2>3. QED
    BY <1>n, <1>1, <1>6, <2>2
<1>7. QED
  BY <1>3, <1>4, <1>5, <1>6

\* The poll of t goes on to do to.
Moves(t, to) == polls' = [polls EXCEPT ![t] = to]

LEMMA PollMoves ==
  ASSUME GrantRowsOK, NEW t \in Poller, NEW to, Moves(t, to)
  PROVE  /\ polls'[t] = to /\ \A k \in Poller : k # t => polls'[k] = polls[k]
         /\ to \in PollRow => polls' \in [Poller -> PollRow]
         /\ \A m \in Merchant :
              /\ Making(polls, m) \in Nat
              /\ Making(polls', m) = Making(polls, m)
                   - Makes(polls[t], m)
                   + Makes(to, m)
<1>1. polls \in [Poller -> PollRow] /\ polls' = [polls EXCEPT ![t] = to]
  BY DEF GrantRowsOK, Moves
<1>2. /\ polls'[t] = to /\ \A k \in Poller : k # t => polls'[k] = polls[k]
      /\ to \in PollRow => polls' \in [Poller -> PollRow]
  BY <1>1
<1>3. PICK f, g : f = polls /\ g = polls'
  OBVIOUS
<1>4. ASSUME NEW m \in Merchant
      PROVE  Making(g, m) = Making(f, m) - Makes(f[t], m) + Makes(to, m)
  <2>1. g[t] = to /\ \A k \in Poller : k # t => g[k] = f[k]
    BY <1>2, <1>3
  <2>2. QED
    BY <2>1, MakingMoves
<1>5. QED
  BY <1>2, <1>3, <1>4, MakingType

\* The terms of a rule never change, ...
RulesStay ==
  \A m \in Merchant : rules[m].exists =>
    /\ rules'[m].exists
    /\ rules'[m].discount = rules[m].discount /\ rules'[m].min_charge = rules[m].min_charge

\* ... nor those of a coupon.
CouponsStay ==
  \A c \in CouponId : coupons[c].status # "NONE" =>
    coupons'[c].status # "NONE" /\ SameTerms(c, c)

\* What the other polls have in their hands stays true.
LEMMA PollsStay ==
  ASSUME GrantInvariant, RulesStay, CouponsStay, Steady, NEW k \in Poller,
         polls'[k] = polls[k], granted \subseteq granted',
         Grants(polls[k]) => gifts'[polls[k].payment] = gifts[polls[k].payment]
  PROVE  /\ Grants(polls'[k]) => PollOK(polls[k])'
         /\ polls'[k].pc # "idle" => payments'[polls'[k].payment].status # "NONE"
<1> DEFINE x == polls[k]
<1>1. x \in PollRow /\ x.pc # "idle" => payments[x.payment].status # "NONE"
  BY DEF GrantInvariant, GrantRowsOK, PollsOK
<1>2. x \in PollRow
  BY DEF GrantInvariant, GrantRowsOK
<1>3. x.pc # "idle" => x.payment \in Serial /\ payments'[x.payment].status # "NONE"
                      /\ payments'[x.payment].merchant = payments[x.payment].merchant
  BY <1>1, <1>2, PollType DEF Steady
<1>4. ASSUME Grants(x) PROVE PollOK(polls[k])'
  <2>1. PollOK(x)
    BY <1>4 DEF GrantInvariant, PollsOK
  <2>2. /\ x.payment \in Serial /\ gifts'[x.payment] = gifts[x.payment]
        /\ payments'[x.payment].merchant = payments[x.payment].merchant
    BY <1>2, <1>3, <1>4 DEF Grants
  <2>3. x.payment \in granted'
    BY <2>1 DEF PollOK
  <2>4. \A c \in gifts[x.payment] : coupons'[c].rule = coupons[c].rule
    <3>1. GiftsOK(x.payment) /\ gifts[x.payment] \subseteq CouponId
      BY <2>2 DEF GrantInvariant, GrantRowsOK
    <3>2. QED
      BY <3>1 DEF GiftsOK, CouponsStay, SameTerms
  <2>5. ASSUME x.pc \in {"take", "create"}
        PROVE  /\ x.result = gifts'[x.payment]
               /\ x.left \subseteq DOMAIN x.read
               /\ \A m \in DOMAIN x.read :
                    m # payments'[x.payment].merchant /\ ReadNow(m, x.read[m])'
               /\ \A m \in x.left, c \in x.result : coupons'[c].rule # m
    <3>1. x.read \in Reads
      BY <1>2, <2>5, PollType
    <3>2. DOMAIN x.read \subseteq Merchant
      BY <3>1, ReadsType
    <3>3. /\ x.result = gifts[x.payment] /\ x.left \subseteq DOMAIN x.read
          /\ \A m \in DOMAIN x.read : m # payments[x.payment].merchant /\ ReadNow(m, x.read[m])
          /\ \A m \in x.left, c \in x.result : coupons[c].rule # m
      BY <2>1, <2>5 DEF PollOK
    <3>4. \A m \in DOMAIN x.read : ReadNow(m, x.read[m])'
      <4> SUFFICES ASSUME NEW m \in DOMAIN x.read
                   PROVE  /\ rules'[m].exists /\ x.read[m].exists
                          /\ rules'[m].discount = x.read[m].discount
                          /\ rules'[m].min_charge = x.read[m].min_charge
        BY DEF ReadNow
      <4>1. m \in Merchant /\ ReadNow(m, x.read[m])
        BY <3>2, <3>3
      <4>2. QED
        BY <4>1 DEF RulesStay, ReadNow
    <3>5. QED
      BY <2>2, <2>4, <3>3, <3>4
  <2>6. x.pc = "create" =>
          /\ Cardinality(x.result) < GrantLimit
          /\ x.taken \in DOMAIN x.read /\ x.taken \notin x.left
          /\ \A c \in x.result : coupons'[c].rule # x.taken
    BY <2>1, <2>4 DEF PollOK
  <2>7. x.pc = "choose" => gifts'[x.payment] = {}
    BY <2>1, <2>2 DEF PollOK
  <2>8. QED
    BY <2>3, <2>5, <2>6, <2>7 DEF PollOK
<1>5. QED
  BY <1>3, <1>4 DEF Grants

\* The ledger and the coupons rest: nothing else is asked of their tables.
LEMMA LedgerRests ==
  ASSUME CouponTables, UNCHANGED vars
  PROVE  CouponTables' /\ CouponsStay /\ Steady
  BY DEF CouponTables, TypeOK, UnplacedIsEmpty, CouponMatchesPayment, HasCoupon, vars,
         CouponsStay, SameTerms, Steady

\* A poll goes on, and the ledger rests.
LEMMA PollGoes ==
  ASSUME GrantInvariant, NEW t \in Poller, NEW to \in PollRow, Moves(t, to),
         UNCHANGED <<vars, edit, gifts>>, RulesStay,
         rules' \in [Merchant -> RuleRow], lost' \in [Merchant -> Nat], offered' = offered,
         granted \subseteq granted', granted' \subseteq Serial,
         to.pc # "idle" => payments[to.payment].status # "NONE",
         Grants(to) => PollOK(to)',
         \A k \in Poller : k # t /\ Grants(to) /\ Grants(polls[k]) =>
           polls[k].payment # to.payment,
         \A m \in Merchant : rules'[m].exists => rules'[m].discount < rules'[m].min_charge,
         \A m \in Merchant : ~rules'[m].exists => lost'[m] = 0,
         \A m \in Merchant : rules'[m].stock >= 0,
         \A m \in Merchant : rules'[m].stock + Makes(to, m) + lost'[m]
                               = rules[m].stock + Makes(polls[t], m) + lost[m]
  PROVE  GrantInvariant'
<1>1. /\ CouponTables /\ GrantRowsOK /\ RulesOK /\ CouponsAreSound /\ PollsOK
      /\ \A p \in Serial : GiftsOK(p)
      /\ \A m \in Merchant : StockOK(m)
  BY DEF GrantInvariant
<1>2. /\ payments' = payments /\ coupons' = coupons /\ edit' = edit /\ gifts' = gifts
  BY DEF vars
<1>3. CouponTables' /\ CouponsStay /\ Steady
  BY <1>1, LedgerRests
<1>4. /\ polls'[t] = to /\ \A k \in Poller : k # t => polls'[k] = polls[k]
      /\ polls' \in [Poller -> PollRow]
      /\ \A m \in Merchant : /\ Making(polls, m) \in Nat
                             /\ Making(polls', m) = Making(polls, m) - Makes(polls[t], m) + Makes(to, m)
  BY <1>1, PollMoves
<1>5. GrantRowsOK'
  BY <1>1, <1>2, <1>4 DEF GrantRowsOK
<1>6. \A p \in Serial : GiftsOK(p)'
  BY <1>1, <1>2 DEF GiftsOK
<1>7. ASSUME NEW k \in Poller, k # t
      PROVE  /\ Grants(polls'[k]) => PollOK(polls[k])'
             /\ polls'[k].pc # "idle" => payments'[polls'[k].payment].status # "NONE"
  <2>1. polls'[k] = polls[k] /\ gifts'[polls[k].payment] = gifts[polls[k].payment]
    BY <1>2, <1>4, <1>7
  <2>2. QED
    BY <1>3, <2>1, PollsStay
<1>8. PollsOK'
  <2>1. \A k \in Poller : polls'[k].pc # "idle" => payments'[polls'[k].payment].status # "NONE"
    BY <1>2, <1>4, <1>7
  <2>2. ASSUME NEW k \in Poller, Grants(polls'[k]) PROVE PollOK(polls[k])'
    <3>1. CASE k # t
      BY <1>7, <2>2, <3>1
    <3>2. CASE k = t
      <4>1. PollOK(to)'
        BY <1>4, <2>2, <3>2
      <4>2. polls'[k] = to
        BY <1>4, <3>2
      <4>3. QED
        BY <4>1, <4>2 DEF PollOK, ReadNow
    <3>3. QED
      BY <3>1, <3>2
  <2>3. \A k, u \in Poller : Grants(polls'[k]) /\ Grants(polls'[u]) /\ k # u =>
          polls'[k].payment # polls'[u].payment
    BY <1>1, <1>4 DEF PollsOK
  <2>4. (\A k \in Poller : Grants(polls[k]) => PollOK(polls[k]))'
    BY <2>2 DEF Grants
  <2>5. QED
    BY <2>1, <2>3, <2>4 DEF PollsOK, Grants
<1>9. RulesOK'
  <2>1. edit.exists => edit.merchant \in Merchant /\ ReadNow(edit.merchant, edit.read)
    BY <1>1, EditType DEF RulesOK, GrantRowsOK
  <2>2. edit'.exists => ReadNow(edit.merchant, edit.read)'
    BY <1>2, <2>1 DEF RulesStay, ReadNow
  <2>3. \A c \in CouponId : coupons[c].rule \in Merchant
    BY <1>1 DEF CouponTables, TypeOK, Coupon
  <2>4. \A c \in CouponId : coupons'[c].status # "NONE" => rules'[coupons'[c].rule].exists
    BY <1>1, <1>2, <2>3 DEF RulesOK, RulesStay
  <2>5. QED
    BY <2>2, <2>4 DEF RulesOK
<1>10. CouponsAreSound'
  <2>1. \A c \in CouponId : coupons[c].rule \in Merchant
    BY <1>1 DEF CouponTables, TypeOK, Coupon
  <2>2. QED
    BY <1>1, <1>2, <2>1 DEF CouponsAreSound, RulesOK, RulesStay
<1>11. ASSUME NEW m \in Merchant PROVE StockOK(m)'
  <2>1. LiveOf({m})' = LiveOf({m})
    BY <1>2 DEF LiveOf
  <2>2. StockOK(m) /\ Cardinality(LiveOf({m})) \in Nat
    <3>1. LiveOf({m}) \in SUBSET CouponId
      BY DEF LiveOf
    <3>2. QED
      BY <1>1, <3>1, CouponsFinite, FS_CardinalityType
  <2>3. /\ rules[m].stock \in Int /\ rules'[m].stock \in Int /\ lost[m] \in Nat /\ lost'[m] \in Nat
        /\ offered[m] \in Int
    BY <1>1, <1>5 DEF GrantRowsOK, RuleRow
  <2>4. Makes(to, m) \in {0, 1} /\ Makes(polls[t], m) \in {0, 1}
    BY DEF Makes
  <2>5. /\ Making(polls, m) \in Nat
        /\ Making(polls, m)' = Making(polls, m) - Makes(polls[t], m) + Makes(to, m)
    BY <1>4 DEF Making
  <2>6. Cardinality(LiveOf({m}))' = Cardinality(LiveOf({m}))
    BY <2>1
  <2>7. rules'[m].stock + Makes(to, m) + lost'[m]
          = rules[m].stock + Makes(polls[t], m) + lost[m] /\ rules'[m].stock >= 0
    OBVIOUS
  <2>n. rules[m].stock + Cardinality(LiveOf({m})) + Making(polls, m) + lost[m] = offered[m]
    BY <2>2 DEF StockOK
  <2>8. rules'[m].stock + Cardinality(LiveOf({m}))' + Making(polls, m)' + lost'[m] = offered'[m]
    <3>1. PICK a, b \in Int : a = Making(polls, m) /\ b = Making(polls, m)'
      BY <2>4, <2>5
    <3>2. PICK x, y \in Int : x = Makes(to, m) /\ y = Makes(polls[t], m)
      BY <2>4
    <3>3. PICK c \in Int : c = Cardinality(LiveOf({m})) /\ c = Cardinality(LiveOf({m}))'
      BY <2>2, <2>6
    <3>4. PICK r, q, l, k, o \in Int : /\ r = rules[m].stock /\ q = rules'[m].stock
                                      /\ l = lost[m] /\ k = lost'[m]
                                      /\ o = offered[m] /\ o = offered'[m]
      BY <2>3
    <3>5. b = a - y + x /\ q + x + k = r + y + l /\ r + c + a + l = o
      BY <2>5, <2>7, <2>n, <3>1, <3>2, <3>3, <3>4
    <3>6. q + c + b + k = o
      BY <3>5
    <3>7. QED
      BY <3>1, <3>3, <3>4, <3>6
  <2>9. QED
    BY <2>7, <2>8 DEF StockOK
<1>12. QED
  BY <1>3, <1>5, <1>6, <1>8, <1>9, <1>10, <1>11 DEF GrantInvariant

\* A poll goes on without touching stock.
LEMMA PollThinks ==
  ASSUME GrantInvariant, NEW t \in Poller, NEW to \in PollRow, Moves(t, to),
         UNCHANGED <<vars, rules, edit, offered, lost, gifts>>,
         granted \subseteq granted', granted' \subseteq Serial,
         polls[t].pc # "create", to.pc # "create",
         to.pc # "idle" => payments[to.payment].status # "NONE",
         Grants(to) => PollOK(to)',
         \A k \in Poller : k # t /\ Grants(to) /\ Grants(polls[k]) =>
           polls[k].payment # to.payment
  PROVE  GrantInvariant'
<1>1. rules' = rules /\ lost' = lost /\ offered' = offered
  OBVIOUS
<1>2. RulesStay
  BY <1>1 DEF RulesStay
<1>3. /\ rules \in [Merchant -> RuleRow] /\ lost \in [Merchant -> Nat]
      /\ \A m \in Merchant : rules[m].stock \in Int /\ lost[m] \in Nat
  BY DEF GrantInvariant, GrantRowsOK, RuleRow
<1>4. /\ \A m \in Merchant : rules[m].exists => rules[m].discount < rules[m].min_charge
      /\ \A m \in Merchant : ~rules[m].exists => lost[m] = 0
      /\ \A m \in Merchant : rules[m].stock >= 0
  BY DEF GrantInvariant, RulesOK, StockOK
<1>5. \A m \in Merchant : Makes(to, m) = 0 /\ Makes(polls[t], m) = 0
  BY DEF Makes
<1>6. \A m \in Merchant : rules'[m].stock + Makes(to, m) + lost'[m]
                            = rules[m].stock + Makes(polls[t], m) + lost[m]
  BY <1>1, <1>5
<1>7. UNCHANGED <<vars, edit, gifts>>
  OBVIOUS
<1>8. /\ rules' \in [Merchant -> RuleRow] /\ lost' \in [Merchant -> Nat] /\ offered' = offered
      /\ \A m \in Merchant : rules'[m].exists => rules'[m].discount < rules'[m].min_charge
      /\ \A m \in Merchant : ~rules'[m].exists => lost'[m] = 0
      /\ \A m \in Merchant : rules'[m].stock >= 0
  BY <1>1, <1>3, <1>4
<1>9. QED
  BY <1>2, <1>6, <1>7, <1>8, PollGoes

\* The rows of polls that hold rules
Taking(p, left, read, result) ==
  [pc |-> "take", payment |-> p, left |-> left, read |-> read, result |-> result]
Creating(p, left, read, result, m) ==
  [pc |-> "create", payment |-> p, left |-> left, read |-> read, result |-> result,
   taken |-> m]

LEMMA TakingType ==
  ASSUME NEW p \in Serial, NEW left \in SUBSET Merchant, NEW read \in Reads,
         NEW result \in SUBSET CouponId
  PROVE  /\ Taking(p, left, read, result) \in PollRow
         /\ \A m \in Merchant : Creating(p, left, read, result, m) \in PollRow
  BY DEF Taking, Creating, PollRow

LEMMA TakingRow ==
  ASSUME GrantInvariant, NEW t \in Poller
  PROVE  /\ polls[t].pc = "take" =>
              \E p \in Serial, left \in SUBSET Merchant, read \in Reads,
                 result \in SUBSET CouponId : polls[t] = Taking(p, left, read, result)
         /\ polls[t].pc = "create" =>
              \E p \in Serial, left \in SUBSET Merchant, read \in Reads,
                 result \in SUBSET CouponId, m \in Merchant :
                   polls[t] = Creating(p, left, read, result, m)
<1> DEFINE x == polls[t]
<1>1. x \in PollRow
  BY DEF GrantInvariant, GrantRowsOK
<1> HIDE DEF x
<1>2. ASSUME x.pc = "take"
      PROVE  \E p \in Serial, left \in SUBSET Merchant, read \in Reads,
                result \in SUBSET CouponId : x = Taking(p, left, read, result)
  <2>1. x \in [pc : {"take"}, payment : Serial, left : SUBSET Merchant, read : Reads,
               result : SUBSET CouponId]
    BY <1>1, <1>2, PollType
  <2>2. x = Taking(x.payment, x.left, x.read, x.result)
    BY <2>1 DEF Taking
  <2>3. QED
    BY <2>1, <2>2
<1>3. ASSUME x.pc = "create"
      PROVE  \E p \in Serial, left \in SUBSET Merchant, read \in Reads,
                result \in SUBSET CouponId, m \in Merchant :
                  x = Creating(p, left, read, result, m)
  <2>1. x \in [pc : {"create"}, payment : Serial, left : SUBSET Merchant, read : Reads,
               result : SUBSET CouponId, taken : Merchant]
    BY <1>1, <1>3, PollType
  <2>2. x = Creating(x.payment, x.left, x.read, x.result, x.taken)
    BY <2>1 DEF Creating
  <2>3. QED
    BY <2>1, <2>2
<1>4. QED
  BY <1>2, <1>3 DEF x

LEMMA IdleRow ==
  Idle \in PollRow /\ Idle.pc = "idle" /\ ~Grants(Idle)
  BY DEF Idle, PollRow, Grants

\* Polls that begin, claim a payment and choose rules
LEMMA BeginPollKeeps ==
  ASSUME GrantInvariant, NEW t \in Poller, NEW p \in Serial, BeginPoll(t, p)
  PROVE  GrantInvariant'
<1> DEFINE to == [pc |-> "claim", payment |-> p]
<1>1. /\ Moves(t, to) /\ polls[t].pc = "idle" /\ payments[p].status = "FROZEN"
      /\ UNCHANGED <<vars, rules, granted, edit, upsets, offered, lost, gifts>>
  BY DEF BeginPoll, Moves
<1>2. to \in PollRow /\ to.pc = "claim" /\ to.payment = p
  BY DEF PollRow
<1>3. granted \subseteq granted' /\ granted' \subseteq Serial
  BY <1>1 DEF GrantInvariant, GrantRowsOK
<1>4. UNCHANGED <<vars, rules, edit, offered, lost, gifts>>
  BY <1>1
<1> HIDE DEF to
<1>5. ~Grants(to)
  BY <1>2 DEF Grants
<1>6. QED
  BY <1>1, <1>2, <1>3, <1>4, <1>5, PollThinks

LEMMA ClaimKeeps ==
  ASSUME GrantInvariant, NEW t \in Poller, NEW accurate \in BOOLEAN, Claim(t, accurate)
  PROVE  GrantInvariant'
<1>1. polls[t].pc = "claim" /\ polls[t] \in PollRow
  BY DEF Claim, GrantInvariant, GrantRowsOK
<1>2. PICK p \in Serial : p = polls[t].payment
  BY <1>1, PollType
<1>3. PICK to : to = IF MayClaim(p) /\ accurate THEN [pc |-> "choose", payment |-> p] ELSE Idle
  OBVIOUS
<1>4. /\ Moves(t, to)
      /\ granted' = IF MayClaim(p) THEN granted \cup {p} ELSE granted
      /\ UNCHANGED <<vars, rules, edit, offered, lost, gifts>>
  BY <1>2, <1>3 DEF Claim, Moves
<1>5. granted \subseteq granted' /\ granted' \subseteq Serial /\ gifts' = gifts
  BY <1>4 DEF GrantInvariant, GrantRowsOK
<1>6. CASE to = Idle
  BY <1>1, <1>4, <1>5, <1>6, IdleRow, PollThinks
<1>7. CASE MayClaim(p) /\ to = [pc |-> "choose", payment |-> p]
  <2>1. to \in PollRow /\ to.pc = "choose" /\ to.payment = p
    BY <1>7 DEF PollRow
  <2>2. payments[p].status = "FROZEN" /\ p \notin granted
    BY <1>7 DEF MayClaim
  <2>3. gifts[p] = {}
    BY <2>2 DEF GrantInvariant, GiftsOK
  <2>4. PollOK(to)'
    BY <1>4, <1>5, <1>7, <2>1, <2>3 DEF PollOK
  <2>5. \A k \in Poller : Grants(polls[k]) => polls[k].payment # p
    BY <2>2 DEF GrantInvariant, PollsOK, PollOK
  <2>6. QED
    BY <1>1, <1>4, <1>5, <2>1, <2>2, <2>4, <2>5, PollThinks
<1>8. QED
  BY <1>3, <1>6, <1>7

LEMMA ChooseKeeps ==
  ASSUME GrantInvariant, NEW t \in Poller, NEW chosen \in SUBSET Merchant, Choose(t, chosen)
  PROVE  GrantInvariant'
<1>1. polls[t].pc = "choose" /\ polls[t] \in PollRow /\ Grants(polls[t])
  BY DEF Choose, GrantInvariant, GrantRowsOK, Grants
<1>2. PICK p \in Serial : p = polls[t].payment
  BY <1>1, PollType
<1>3. PICK read : read = [m \in chosen |-> rules[m]]
  OBVIOUS
<1>4. PICK to : to = Taking(p, chosen, read, {})
  OBVIOUS
<1>5. /\ Moves(t, to) /\ chosen \subseteq Choosable(p)
      /\ UNCHANGED <<vars, rules, granted, edit, upsets, offered, lost, gifts>>
  BY <1>2, <1>3, <1>4 DEF Choose, Moves, Taking
<1>6. rules \in [Merchant -> RuleRow] /\ granted \subseteq Serial
  BY DEF GrantInvariant, GrantRowsOK
<1>7. read \in [chosen -> RuleRow]
  BY <1>3, <1>6
<1>8. read \in Reads
  BY <1>7 DEF Reads
<1>9. /\ to \in PollRow /\ to.pc = "take" /\ to.payment = p /\ to.left = chosen
      /\ to.read = read /\ to.result = {}
  BY <1>4, <1>8, TakingType DEF Taking
<1>10. PollOK(polls[t]) /\ payments[p].status # "NONE"
  BY <1>1, <1>2 DEF GrantInvariant, PollsOK
<1>11. p \in granted /\ gifts[p] = {}
  BY <1>1, <1>2, <1>10 DEF PollOK
<1>12. payments' = payments /\ granted' = granted /\ gifts' = gifts /\ rules' = rules
  BY <1>5 DEF vars
<1>13. PollOK(to)'
  <2>1. \A m \in DOMAIN read : m # payments'[p].merchant /\ ReadNow(m, read[m])'
    BY <1>3, <1>5, <1>12 DEF Choosable, ReadNow
  <2>2. QED
    BY <1>7, <1>9, <1>11, <1>12, <2>1 DEF PollOK
<1>14. \A k \in Poller : k # t /\ Grants(polls[k]) => polls[k].payment # p
  BY <1>1, <1>2 DEF GrantInvariant, PollsOK
<1>15. QED
  BY <1>1, <1>5, <1>6, <1>9, <1>10, <1>12, <1>13, <1>14, PollThinks

LEMMA EndGrantKeeps ==
  ASSUME GrantInvariant, NEW t \in Poller, EndGrant(t)
  PROVE  GrantInvariant'
<1>1. /\ polls[t].pc = "take" /\ Moves(t, Idle)
      /\ UNCHANGED <<vars, rules, granted, edit, upsets, offered, lost, gifts>>
  BY DEF EndGrant, Moves
<1>2. granted \subseteq granted' /\ granted' \subseteq Serial
  BY <1>1 DEF GrantInvariant, GrantRowsOK
<1>3. UNCHANGED <<vars, rules, edit, offered, lost, gifts>>
  BY <1>1
<1>4. QED
  BY <1>1, <1>2, <1>3, IdleRow, PollThinks

\* What a poll died with is lost.
LEMMA PollDiesKeeps ==
  ASSUME GrantInvariant, NEW t \in Poller, PollDies(t)
  PROVE  GrantInvariant'
<1>1. /\ Moves(t, Idle)
      /\ UNCHANGED <<vars, rules, granted, edit, offered, gifts>>
      /\ lost' = IF polls[t].pc = "create" THEN [lost EXCEPT ![polls[t].taken] = @ + 1] ELSE lost
  BY DEF PollDies, Moves
<1>2. /\ rules \in [Merchant -> RuleRow] /\ lost \in [Merchant -> Nat] /\ granted \subseteq Serial
      /\ polls[t] \in PollRow
      /\ \A m \in Merchant : rules[m].exists => rules[m].discount < rules[m].min_charge
      /\ \A m \in Merchant : ~rules[m].exists => lost[m] = 0
      /\ \A m \in Merchant : rules[m].stock >= 0
  BY DEF GrantInvariant, GrantRowsOK, RulesOK, StockOK
<1>3. rules' = rules /\ granted' = granted /\ offered' = offered
  BY <1>1
<1>4. RulesStay
  BY <1>3 DEF RulesStay
<1>5. \A m \in Merchant : Makes(Idle, m) = 0
  BY IdleRow DEF Makes
<1>6. /\ lost' \in [Merchant -> Nat]
      /\ \A m \in Merchant : lost'[m] = lost[m] + Makes(polls[t], m)
      /\ \A m \in Merchant : ~rules[m].exists => Makes(polls[t], m) = 0
  <2>1. CASE polls[t].pc # "create"
    <3>1. \A m \in Merchant : Makes(polls[t], m) = 0
      BY <2>1 DEF Makes
    <3>2. QED
      BY <1>1, <1>2, <2>1, <3>1
  <2>2. CASE polls[t].pc = "create"
    <3>1. PICK q \in Merchant : q = polls[t].taken
      BY <1>2, <2>2, PollType
    <3>2. \A m \in Merchant : Makes(polls[t], m) = IF m = q THEN 1 ELSE 0
      BY <2>2, <3>1 DEF Makes
    <3>3. lost' = [lost EXCEPT ![q] = lost[q] + 1]
      BY <1>1, <2>2, <3>1
    <3>4. rules[q].exists
      <4>1. PollOK(polls[t])
        BY <2>2 DEF GrantInvariant, PollsOK, Grants
      <4>2. q \in DOMAIN polls[t].read /\ ReadNow(q, polls[t].read[q])
        BY <2>2, <3>1, <4>1 DEF PollOK
      <4>3. QED
        BY <4>2 DEF ReadNow
    <3>5. QED
      BY <1>2, <3>2, <3>3, <3>4
  <2>3. QED
    BY <2>1, <2>2
<1>7. \A m \in Merchant : rules'[m].stock + Makes(Idle, m) + lost'[m]
                            = rules[m].stock + Makes(polls[t], m) + lost[m]
  <2>1. ASSUME NEW m \in Merchant
        PROVE  rules[m].stock + 0 + (lost[m] + Makes(polls[t], m))
                 = rules[m].stock + Makes(polls[t], m) + lost[m]
    <3>1. rules[m].stock \in Int /\ lost[m] \in Int /\ Makes(polls[t], m) \in Int
      BY <1>2 DEF RuleRow, Makes
    <3>2. QED
      BY <3>1
  <2>2. QED
    BY <1>3, <1>5, <1>6, <2>1
<1>8. UNCHANGED <<vars, edit, gifts>> /\ granted \subseteq granted' /\ granted' \subseteq Serial
  BY <1>1, <1>2
<1>9. \A m \in Merchant : ~rules'[m].exists => lost'[m] = 0
  BY <1>2, <1>3, <1>6
<1>10. /\ rules' \in [Merchant -> RuleRow]
       /\ \A m \in Merchant : rules'[m].exists => rules'[m].discount < rules'[m].min_charge
       /\ \A m \in Merchant : rules'[m].stock >= 0
  BY <1>2, <1>3
<1>11. QED
  BY <1>1, <1>3, <1>4, <1>6, <1>7, <1>8, <1>9, <1>10, IdleRow, PollGoes

\* A poll takes a piece of stock, or finds that there is none.
LEMMA TakeStockKeeps ==
  ASSUME GrantInvariant, NEW t \in Poller, NEW m \in Merchant, TakeStock(t, m)
  PROVE  GrantInvariant'
<1>1. /\ polls[t].pc = "take" /\ polls[t] \in PollRow /\ Grants(polls[t]) /\ PollOK(polls[t])
      /\ payments[polls[t].payment].status # "NONE"
  BY DEF TakeStock, GrantInvariant, GrantRowsOK, PollsOK, Grants
<1>2. PICK p \in Serial, left \in SUBSET Merchant, read \in Reads, result \in SUBSET CouponId :
        polls[t] = Taking(p, left, read, result)
  BY <1>1, TakingRow
<1>3. /\ polls[t].payment = p /\ polls[t].left = left /\ polls[t].read = read
      /\ polls[t].result = result
  BY <1>2 DEF Taking
<1>4. /\ Cardinality(result) < GrantLimit /\ m \in left
      /\ UNCHANGED <<vars, granted, edit, upsets, offered, lost, gifts>>
  BY <1>3 DEF TakeStock, WantsMore
<1>5. /\ p \in granted /\ result = gifts[p] /\ left \subseteq DOMAIN read
      /\ \A k \in DOMAIN read : k # payments[p].merchant /\ ReadNow(k, read[k])
      /\ \A k \in left, c \in result : coupons[c].rule # k
  BY <1>1, <1>3 DEF PollOK
<1>6. /\ rules \in [Merchant -> RuleRow] /\ lost \in [Merchant -> Nat] /\ granted \subseteq Serial
      /\ \A k \in Merchant : rules[k].exists => rules[k].discount < rules[k].min_charge
      /\ \A k \in Merchant : ~rules[k].exists => lost[k] = 0
      /\ \A k \in Merchant : rules[k].stock >= 0
  BY DEF GrantInvariant, GrantRowsOK, RulesOK, StockOK
<1>7. /\ payments' = payments /\ coupons' = coupons /\ granted' = granted /\ gifts' = gifts
      /\ lost' = lost /\ offered' = offered
  BY <1>4 DEF vars
<1>8. \A k \in Poller : k # t /\ Grants(polls[k]) => polls[k].payment # p
  BY <1>1, <1>3 DEF GrantInvariant, PollsOK
<1>9. CASE HasStock(m)
  <2>1. PICK to : to = Creating(p, left \ {m}, read, result, m)
    OBVIOUS
  <2>2. /\ to.pc = "create" /\ to.payment = p /\ to.left = left \ {m} /\ to.read = read
        /\ to.result = result /\ to.taken = m
    BY <2>1 DEF Creating
  <2>3. to \in PollRow
    <3>1. left \ {m} \in SUBSET Merchant
      OBVIOUS
    <3>2. QED
      BY <2>1, <3>1, TakingType
  <2>4. Moves(t, to)
    BY <1>3, <1>9, <2>1 DEF TakeStock, Moves, Creating
  <2>5. rules' = [rules EXCEPT ![m].stock = @ - 1]
    BY <1>9 DEF TakeStock, TakeFrom
  <2>6. /\ rules[m] \in RuleRow /\ rules[m].stock \in Int /\ rules[m].stock > 0
        /\ rules'[m] = [rules[m] EXCEPT !.stock = rules[m].stock - 1]
        /\ \A k \in Merchant : k # m => rules'[k] = rules[k]
    BY <1>6, <1>9, <2>5 DEF HasStock, RuleRow
  <2>7. PICK s \in Int : s = rules[m].stock /\ s > 0
    BY <2>6
  <2>8. /\ rules'[m] \in RuleRow /\ rules'[m].stock = s - 1 /\ rules'[m].exists = rules[m].exists
        /\ rules'[m].discount = rules[m].discount /\ rules'[m].min_charge = rules[m].min_charge
    BY <2>6, <2>7 DEF RuleRow
  <2>9. rules' \in [Merchant -> RuleRow]
    BY <1>6, <2>5, <2>6, <2>8
  <2>10. RulesStay
    BY <2>6, <2>8 DEF RulesStay
  <2>11. /\ \A k \in Merchant : rules'[k].exists => rules'[k].discount < rules'[k].min_charge
         /\ \A k \in Merchant : ~rules'[k].exists => lost'[k] = 0
    BY <1>6, <1>7, <2>6, <2>8
  <2>12. \A k \in Merchant : rules'[k].stock >= 0
    <3>1. rules'[m].stock >= 0
      BY <2>7, <2>8
    <3>2. \A k \in Merchant : k # m => rules'[k].stock >= 0
      BY <1>6, <2>6
    <3>3. QED
      BY <3>1, <3>2
  <2>13. \A k \in Merchant : rules'[k].stock + Makes(to, k) + lost'[k]
                               = rules[k].stock + Makes(polls[t], k) + lost[k]
    <3>1. \A k \in Merchant : Makes(polls[t], k) = 0
      BY <1>1 DEF Makes
    <3>2. \A k \in Merchant : Makes(to, k) = IF k = m THEN 1 ELSE 0
      BY <2>2 DEF Makes
    <3>3. ASSUME NEW k \in Merchant
          PROVE  rules'[k].stock + Makes(to, k) + lost[k] = rules[k].stock + 0 + lost[k]
      <4>1. rules[k].stock \in Int /\ lost[k] \in Int
        BY <1>6 DEF RuleRow
      <4>2. CASE k = m
        <5>1. rules'[k].stock = s - 1 /\ Makes(to, k) = 1 /\ rules[k].stock = s
          BY <2>7, <2>8, <3>2, <4>2
        <5>2. QED
          BY <4>1, <5>1
      <4>3. CASE k # m
        <5>1. rules'[k].stock = rules[k].stock /\ Makes(to, k) = 0
          BY <2>6, <3>2, <4>3
        <5>2. QED
          BY <4>1, <5>1
      <4>4. QED
        BY <4>2, <4>3
    <3>4. QED
      BY <1>7, <3>1, <3>3
  <2>14. PollOK(to)'
    <3>1. \A k \in DOMAIN read : k # payments'[p].merchant /\ ReadNow(k, read[k])'
      <4>1. DOMAIN read \subseteq Merchant
        BY ReadsType
      <4>2. QED
        BY <1>5, <1>7, <2>10, <4>1 DEF ReadNow, RulesStay
    <3>2. to.pc \in {"take", "create"} =>
            /\ to.result = gifts'[to.payment]
            /\ to.left \subseteq DOMAIN to.read
            /\ \A k \in DOMAIN to.read : k # payments'[to.payment].merchant /\ ReadNow(k, to.read[k])'
            /\ \A k \in to.left, c \in to.result : coupons'[c].rule # k
      BY <1>5, <1>7, <2>2, <3>1
    <3>3. to.pc = "create" =>
            /\ Cardinality(to.result) < GrantLimit
            /\ to.taken \in DOMAIN to.read /\ to.taken \notin to.left
            /\ \A c \in to.result : coupons'[c].rule # to.taken
      BY <1>4, <1>5, <1>7, <2>2
    <3>4. to.payment \in granted' /\ to.pc # "choose"
      BY <1>5, <1>7, <2>2
    <3>5. QED
      BY <3>2, <3>3, <3>4 DEF PollOK
  <2>15. /\ UNCHANGED <<vars, edit, gifts>> /\ granted \subseteq granted' /\ granted' \subseteq Serial
         /\ lost' \in [Merchant -> Nat] /\ offered' = offered
         /\ to.pc # "idle" => payments[to.payment].status # "NONE"
    BY <1>1, <1>3, <1>4, <1>6, <1>7, <2>2
  <2>16. \A k \in Poller : k # t /\ Grants(to) /\ Grants(polls[k]) => polls[k].payment # to.payment
    BY <1>8, <2>2
  <2>17. QED
    BY <2>3, <2>4, <2>9, <2>10, <2>11, <2>12, <2>13, <2>14, <2>15, <2>16, PollGoes
<1>10. CASE ~HasStock(m)
  <2>1. PICK to : to = Taking(p, left \ {m}, read, result)
    OBVIOUS
  <2>2. /\ to.pc = "take" /\ to.payment = p /\ to.left = left \ {m} /\ to.read = read
        /\ to.result = result
    BY <2>1 DEF Taking
  <2>3. to \in PollRow
    <3>1. left \ {m} \in SUBSET Merchant
      OBVIOUS
    <3>2. QED
      BY <2>1, <3>1, TakingType
  <2>4. Moves(t, to) /\ rules' = rules
    <3>1. polls' = [polls EXCEPT ![t].left = @ \ {m}] /\ rules' = rules
      BY <1>10 DEF TakeStock
    <3>2. [polls[t] EXCEPT !.left = left \ {m}] = to
      <4>1. PICK y : y = [polls[t] EXCEPT !.left = left \ {m}]
        OBVIOUS
      <4>2. polls[t] \in [pc : {"take"}, payment : Serial, left : SUBSET Merchant,
                          read : Reads, result : SUBSET CouponId]
        BY <1>2 DEF Taking
      <4>3. /\ y \in [pc : {"take"}, payment : Serial, left : SUBSET Merchant,
                      read : Reads, result : SUBSET CouponId]
            /\ y.payment = p /\ y.left = left \ {m} /\ y.read = read /\ y.result = result
        BY <1>3, <4>1, <4>2
      <4>4. y = Taking(y.payment, y.left, y.read, y.result)
        BY <4>3 DEF Taking
      <4>5. QED
        BY <2>1, <4>1, <4>3, <4>4
    <3>3. QED
      BY <1>2, <1>3, <3>1, <3>2 DEF Moves
  <2>5. PollOK(to)'
    <3>1. \A k \in DOMAIN read : k # payments'[p].merchant /\ ReadNow(k, read[k])'
      BY <1>5, <1>7, <2>4 DEF ReadNow
    <3>2. to.pc \in {"take", "create"} =>
            /\ to.result = gifts'[to.payment]
            /\ to.left \subseteq DOMAIN to.read
            /\ \A k \in DOMAIN to.read : k # payments'[to.payment].merchant /\ ReadNow(k, to.read[k])'
            /\ \A k \in to.left, c \in to.result : coupons'[c].rule # k
      BY <1>5, <1>7, <2>2, <3>1
    <3>3. to.payment \in granted' /\ to.pc # "choose" /\ to.pc # "create"
      BY <1>5, <1>7, <2>2
    <3>4. QED
      BY <3>2, <3>3 DEF PollOK
  <2>6. UNCHANGED <<vars, rules, edit, offered, lost, gifts>>
    BY <1>4, <2>4
  <2>7. /\ granted \subseteq granted' /\ granted' \subseteq Serial
        /\ polls[t].pc # "create" /\ to.pc # "create"
        /\ to.pc # "idle" => payments[to.payment].status # "NONE"
    BY <1>1, <1>3, <1>6, <1>7, <2>2
  <2>8. \A k \in Poller : k # t /\ Grants(to) /\ Grants(polls[k]) => polls[k].payment # to.payment
    BY <1>8, <2>2
  <2>9. QED
    BY <2>3, <2>4, <2>5, <2>6, <2>7, <2>8, PollThinks
<1>11. QED
  BY <1>9, <1>10

----------------------------------------------------------------------------
\* A merchant changes its rule m: polls, coupons and the ledger rest.
LEMMA RuleChanges ==
  ASSUME GrantInvariant, UNCHANGED <<vars, granted, polls, lost, gifts>>, NEW m \in Merchant,
         rules' \in [Merchant -> RuleRow], offered' \in [Merchant -> Int], edit' \in EditRow,
         RulesStay, (edit.exists => ReadNow(edit.merchant, edit.read))',
         rules'[m].exists => rules'[m].discount < rules'[m].min_charge,
         rules'[m].exists \/ ~rules[m].exists,
         rules'[m].stock >= 0, offered'[m] = offered[m] + rules'[m].stock - rules[m].stock,
         \A k \in Merchant : k # m => rules'[k] = rules[k] /\ offered'[k] = offered[k]
  PROVE  GrantInvariant'
<1>1. /\ CouponTables /\ GrantRowsOK /\ RulesOK /\ CouponsAreSound /\ PollsOK
      /\ \A p \in Serial : GiftsOK(p)
      /\ \A k \in Merchant : StockOK(k)
  BY DEF GrantInvariant
<1>2. /\ payments' = payments /\ coupons' = coupons /\ granted' = granted /\ polls' = polls
      /\ lost' = lost /\ gifts' = gifts
  BY DEF vars
<1>3. CouponTables' /\ CouponsStay /\ Steady
  BY <1>1, LedgerRests
<1>4. GrantRowsOK'
  BY <1>1, <1>2 DEF GrantRowsOK
<1>5. \A p \in Serial : GiftsOK(p)'
  BY <1>1, <1>2 DEF GiftsOK
<1>6. PollsOK'
  <2>1. ASSUME NEW k \in Poller
        PROVE  /\ Grants(polls'[k]) => PollOK(polls[k])'
               /\ polls'[k].pc # "idle" => payments'[polls'[k].payment].status # "NONE"
    <3>1. polls'[k] = polls[k] /\ gifts'[polls[k].payment] = gifts[polls[k].payment]
          /\ granted \subseteq granted'
      BY <1>2
    <3>2. QED
      BY <1>3, <3>1, PollsStay
  <2>2. \A k, u \in Poller : Grants(polls'[k]) /\ Grants(polls'[u]) /\ k # u =>
          polls'[k].payment # polls'[u].payment
    BY <1>1, <1>2 DEF PollsOK
  <2>3. (\A k \in Poller : Grants(polls[k]) => PollOK(polls[k]))'
    BY <2>1 DEF Grants
  <2>4. QED
    BY <2>1, <2>2, <2>3 DEF PollsOK, Grants
<1>7. \A c \in CouponId : coupons[c].rule \in Merchant
  BY <1>1 DEF CouponTables, TypeOK, Coupon
<1>8. RulesOK'
  <2>1. \A k \in Merchant : rules'[k].exists => rules'[k].discount < rules'[k].min_charge
    BY <1>1 DEF RulesOK
  <2>2. \A k \in Merchant : ~rules'[k].exists => lost'[k] = 0
    BY <1>1, <1>2 DEF RulesOK
  <2>3. \A c \in CouponId : coupons'[c].status # "NONE" => rules'[coupons'[c].rule].exists
    BY <1>1, <1>2, <1>7 DEF RulesOK, RulesStay
  <2>4. (edit.exists => ReadNow(edit.merchant, edit.read))'
    OBVIOUS
  <2>5. QED
    BY <2>1, <2>2, <2>3, <2>4 DEF RulesOK
<1>9. CouponsAreSound'
  BY <1>1, <1>2, <1>7 DEF CouponsAreSound, RulesOK, RulesStay
<1>10. ASSUME NEW k \in Merchant PROVE StockOK(k)'
  <2>1. LiveOf({k})' = LiveOf({k}) /\ Making(polls, k)' = Making(polls, k)
    BY <1>2 DEF LiveOf, Making
  <2>2. Cardinality(LiveOf({k})) \in Nat /\ Making(polls, k) \in Nat
    <3>1. LiveOf({k}) \in SUBSET CouponId
      BY DEF LiveOf
    <3>2. QED
      BY <3>1, CouponsFinite, FS_CardinalityType, MakingType
  <2>3. Cardinality(LiveOf({k}))' = Cardinality(LiveOf({k}))
    BY <2>1
  <2>4. /\ rules[k].stock >= 0
        /\ rules[k].stock + Cardinality(LiveOf({k})) + Making(polls, k) + lost[k] = offered[k]
    BY <1>1 DEF StockOK
  <2>5. rules'[k].stock >= 0 /\ offered'[k] = offered[k] + rules'[k].stock - rules[k].stock
    <3>1. CASE k = m
      BY <3>1
    <3>2. CASE k # m
      <4>1. rules'[k] = rules[k] /\ offered'[k] = offered[k]
            /\ offered[k] \in Int /\ rules[k].stock \in Int
        BY <1>1, <3>2 DEF GrantRowsOK, RuleRow
      <4>2. QED
        BY <2>4, <4>1
    <3>3. QED
      BY <3>1, <3>2
  <2>t. /\ Making(polls, k) \in Int /\ Cardinality(LiveOf({k})) \in Int
        /\ rules[k].stock \in Int /\ rules'[k].stock \in Int /\ lost[k] \in Int
        /\ offered[k] \in Int /\ offered'[k] \in Int
    BY <1>1, <1>4, <2>2 DEF GrantRowsOK, RuleRow
  <2>6. PICK a, b, r, q, l, o, n \in Int :
          /\ a = Making(polls, k) /\ b = Cardinality(LiveOf({k}))
          /\ r = rules[k].stock /\ q = rules'[k].stock /\ l = lost[k]
          /\ o = offered[k] /\ n = offered'[k]
    BY <2>t
  <2>7. q + b + a + l = n
    <3>1. r + b + a + l = o /\ n = o + q - r
      BY <2>4, <2>5, <2>6
    <3>2. QED
      BY <3>1
  <2>8. rules'[k].stock + Cardinality(LiveOf({k}))' + Making(polls, k)' + lost'[k] = offered'[k]
    BY <1>2, <2>1, <2>3, <2>6, <2>7
  <2>9. QED
    BY <2>5, <2>8 DEF StockOK
<1>11. QED
  BY <1>3, <1>4, <1>5, <1>6, <1>8, <1>9, <1>10 DEF GrantInvariant

\* A rule that did not exist has neither stock nor coupons.
LEMMA NewRuleIsEmpty ==
  ASSUME GrantInvariant, NEW m \in Merchant, ~rules[m].exists
  PROVE  offered[m] = rules[m].stock
<1>1. LiveOf({m}) = {}
  BY DEF GrantInvariant, RulesOK, LiveOf
<1>2. Cardinality(LiveOf({m})) = 0
  BY <1>1, FS_EmptySet
<1>3. Making(polls, m) = 0
  <2>1. ASSUME NEW t \in Poller, Makes(polls[t], m) = 1 PROVE FALSE
    <3>1. polls[t].pc = "create" /\ polls[t].taken = m
      BY <2>1 DEF Makes
    <3>2. PollOK(polls[t])
      BY <3>1 DEF GrantInvariant, PollsOK, Grants
    <3>3. ReadNow(m, polls[t].read[m])
      BY <3>1, <3>2 DEF PollOK
    <3>4. QED
      BY <3>3 DEF ReadNow
  <2>2. {t \in Poller : Makes(polls[t], m) = 1} = {}
    BY <2>1
  <2>3. QED
    BY <2>2, FS_EmptySet DEF Making
<1>4. lost[m] = 0
  BY DEF GrantInvariant, RulesOK
<1>5. /\ rules[m].stock + Cardinality(LiveOf({m})) + Making(polls, m) + lost[m] = offered[m]
      /\ rules[m].stock \in Int /\ offered[m] \in Int
  BY DEF GrantInvariant, StockOK, GrantRowsOK, RuleRow
<1>6. QED
  BY <1>2, <1>3, <1>4, <1>5

LEMMA CreateRuleKeeps ==
  ASSUME GrantInvariant, NEW m \in Merchant, NEW x \in Terms, NEW s \in Stock,
         CreateRule(m, x, s)
  PROVE  GrantInvariant'
<1>1. /\ ~rules[m].exists /\ x.discount < x.min_charge
      /\ rules' = [rules EXCEPT ![m] = Rule(x, s)]
      /\ offered' = [offered EXCEPT ![m] = s]
      /\ UNCHANGED <<vars, granted, polls, edit, lost, gifts>>
  BY DEF CreateRule
<1>2. /\ rules \in [Merchant -> RuleRow] /\ offered \in [Merchant -> Int] /\ edit \in EditRow
  BY DEF GrantInvariant, GrantRowsOK
<1>3. /\ Rule(x, s) \in RuleRow /\ Rule(x, s).exists = TRUE /\ Rule(x, s).stock = s
      /\ Rule(x, s).discount = x.discount /\ Rule(x, s).min_charge = x.min_charge
      /\ s \in Nat
  BY DEF Rule, RuleRow
<1>4. /\ rules' \in [Merchant -> RuleRow] /\ offered' \in [Merchant -> Int]
      /\ rules'[m] = Rule(x, s) /\ offered'[m] = s
      /\ \A k \in Merchant : k # m => rules'[k] = rules[k] /\ offered'[k] = offered[k]
  BY <1>1, <1>2, <1>3
<1>5. RulesStay
  BY <1>1, <1>4 DEF RulesStay
<1>6. (edit.exists => ReadNow(edit.merchant, edit.read))'
  <2>1. edit.exists => edit.merchant \in Merchant /\ ReadNow(edit.merchant, edit.read)
    BY <1>2, EditType DEF GrantInvariant, RulesOK
  <2>2. QED
    BY <1>1, <1>5, <2>1 DEF ReadNow, RulesStay
<1>7. offered'[m] = offered[m] + rules'[m].stock - rules[m].stock /\ rules'[m].stock >= 0
  <2>1. offered[m] = rules[m].stock /\ rules[m].stock \in Int
    BY <1>1, <1>2, NewRuleIsEmpty DEF RuleRow
  <2>2. QED
    BY <1>3, <1>4, <2>1
<1>8. /\ UNCHANGED <<vars, granted, polls, lost, gifts>> /\ edit' \in EditRow
      /\ rules'[m].exists => rules'[m].discount < rules'[m].min_charge
      /\ rules'[m].exists \/ ~rules[m].exists
  BY <1>1, <1>2, <1>3, <1>4
<1>9. QED
  BY <1>4, <1>5, <1>6, <1>7, <1>8, RuleChanges

LEMMA BeginStockEditKeeps ==
  ASSUME GrantInvariant, NEW m \in Merchant, BeginStockEdit(m)
  PROVE  GrantInvariant'
<1>1. /\ rules[m].exists /\ edit' = [exists |-> TRUE, merchant |-> m, read |-> rules[m]]
      /\ UNCHANGED <<vars, granted, polls, lost, gifts>>
      /\ rules' = rules /\ offered' = offered
  BY DEF BeginStockEdit
<1>2. /\ rules \in [Merchant -> RuleRow] /\ offered \in [Merchant -> Int]
      /\ rules[m].stock \in Int /\ offered[m] \in Int
      /\ rules[m].stock >= 0 /\ (rules[m].exists => rules[m].discount < rules[m].min_charge)
  BY DEF GrantInvariant, GrantRowsOK, RulesOK, StockOK, RuleRow
<1>3. edit' \in EditRow
  BY <1>1, <1>2 DEF EditRow
<1>4. (edit.exists => ReadNow(edit.merchant, edit.read))'
  BY <1>1 DEF ReadNow
<1>5. RulesStay
  BY <1>1 DEF RulesStay
<1>6. offered'[m] = offered[m] + rules'[m].stock - rules[m].stock
  BY <1>1, <1>2
<1>7. QED
  BY <1>1, <1>2, <1>3, <1>4, <1>5, <1>6, RuleChanges

\* The rule is saved with the terms that were read, and those it still has.
LEMMA SaveStockKeeps ==
  ASSUME GrantInvariant, NEW s \in Stock, SaveStock(s)
  PROVE  GrantInvariant'
<1>1. /\ edit.exists /\ edit' = NotChanging
      /\ UNCHANGED <<vars, granted, polls, lost, gifts>>
  BY DEF SaveStock
<1>2. /\ rules \in [Merchant -> RuleRow] /\ offered \in [Merchant -> Int] /\ edit \in EditRow
  BY DEF GrantInvariant, GrantRowsOK
<1>3. edit \in [exists : {TRUE}, merchant : Merchant, read : RuleRow]
  BY <1>1, <1>2, EditType
<1>4. PICK m \in Merchant, r \in RuleRow : m = edit.merchant /\ r = edit.read
  BY <1>3
<1>5. ReadNow(m, r) /\ s \in Nat /\ rules[m].stock \in Int /\ offered[m] \in Int
      /\ rules[m].stock >= 0 /\ (rules[m].exists => rules[m].discount < rules[m].min_charge)
  BY <1>1, <1>2, <1>4 DEF GrantInvariant, RulesOK, StockOK, RuleRow
<1>6. edit' \in EditRow /\ ~edit'.exists
  BY <1>1 DEF EditRow, NotChanging
<1>7. CASE s = r.stock
  <2>1. rules' = rules /\ offered' = offered
    BY <1>4, <1>7 DEF SaveStock
  <2>2. RulesStay
    BY <2>1 DEF RulesStay
  <2>3. offered'[m] = offered[m] + rules'[m].stock - rules[m].stock
    BY <1>5, <2>1
  <2>4. QED
    BY <1>1, <1>2, <1>5, <1>6, <2>1, <2>2, <2>3, RuleChanges
<1>8. CASE s # r.stock
  <2>1. PICK new : new = [r EXCEPT !.stock = s]
    OBVIOUS
  <2>2. /\ rules' = [rules EXCEPT ![m] = new]
        /\ offered' = [offered EXCEPT ![m] = offered[m] + s - rules[m].stock]
    BY <1>4, <1>8, <2>1 DEF SaveStock
  <2>3. /\ new \in RuleRow /\ new.exists = r.exists /\ new.stock = s
        /\ new.discount = r.discount /\ new.min_charge = r.min_charge
    BY <1>5, <2>1 DEF RuleRow
  <2>4. PICK d \in Int : d = offered[m] + s - rules[m].stock
    BY <1>5
  <2>5. /\ rules' \in [Merchant -> RuleRow] /\ offered' \in [Merchant -> Int]
        /\ rules'[m] = new /\ offered'[m] = d
        /\ \A k \in Merchant : k # m => rules'[k] = rules[k] /\ offered'[k] = offered[k]
    BY <1>2, <2>2, <2>3, <2>4
  <2>6. RulesStay
    BY <1>5, <2>3, <2>5 DEF RulesStay, ReadNow
  <2>7. offered'[m] = offered[m] + rules'[m].stock - rules[m].stock /\ rules'[m].stock >= 0
    BY <1>5, <2>3, <2>4, <2>5
  <2>8. /\ rules'[m].exists => rules'[m].discount < rules'[m].min_charge
        /\ rules'[m].exists \/ ~rules[m].exists
    BY <1>5, <2>3, <2>5 DEF ReadNow
  <2>9. QED
    BY <1>1, <1>6, <2>5, <2>6, <2>7, <2>8, RuleChanges
<1>9. QED
  BY <1>7, <1>8

----------------------------------------------------------------------------
\* A coupon is created: what the ledger holds about coupons stays true.
LEMMA NewCouponIsFree ==
  ASSUME CouponTables, NEW c \in CouponId, NEW new \in Coupon, new.status = "NOT_USED",
         coupons[c].status = "NONE", coupons' = [coupons EXCEPT ![c] = new], rows' = << >>,
         UNCHANGED <<payments, refunds, balance, withdrawable, paidOut>>
  PROVE  CouponTables' /\ CouponsStay /\ Steady
<1>1. coupons \in [CouponId -> Coupon] /\ TypeOK /\ UnplacedIsEmpty /\ CouponMatchesPayment
  BY DEF CouponTables, TypeOK
<1>2. coupons'[c] = new /\ \A k \in CouponId : k # c => coupons'[k] = coupons[k]
  BY <1>1
<1>3. TypeOK'
  BY <1>1 DEF TypeOK
<1>4. UnplacedIsEmpty'
  BY <1>1 DEF UnplacedIsEmpty, HasCoupon
<1>5. CouponMatchesPayment'
  <2>1. ASSUME NEW q \in Serial, HasCoupon(payments[q])
        PROVE  coupons'[payments[q].coupon] = coupons[payments[q].coupon]
    <3>1. payments[q].coupon \in CouponId
      BY <1>1, <2>1, CouponType
    <3>2. coupons[payments[q].coupon].status \in {"USED", "DESTROYED"}
      BY <1>1, <2>1 DEF CouponMatchesPayment
    <3>3. QED
      BY <1>2, <3>1, <3>2
  <2>2. \A q \in Serial : HasCoupon(payments'[q]) =>
          coupons'[payments'[q].coupon].status =
            IF payments'[q].status \in {"CANCELLED", "REFUND"} THEN "DESTROYED" ELSE "USED"
    BY <1>1, <2>1 DEF CouponMatchesPayment
  <2>3. \A k \in CouponId : coupons'[k].status \in {"USED", "DESTROYED"}
                              => \E q \in Serial : payments'[q].coupon = k
    BY <1>1, <1>2 DEF CouponMatchesPayment
  <2>4. \A p, q \in Serial : payments'[p].coupon = payments'[q].coupon
                               => p = q \/ payments'[p].coupon = NoCoupon
    BY <1>1 DEF CouponMatchesPayment
  <2>5. QED
    BY <2>2, <2>3, <2>4 DEF CouponMatchesPayment, HasCoupon
<1>6. CouponsStay
  BY <1>2 DEF CouponsStay, SameTerms
<1>7. Steady
  BY DEF Steady
<1>8. QED
  BY <1>3, <1>4, <1>5, <1>6, <1>7 DEF CouponTables

LEMMA CreateCouponKeeps ==
  ASSUME GrantInvariant, NEW t \in Poller, NEW c \in CouponId, CreateCoupon(t, c)
  PROVE  GrantInvariant'
<1>1. /\ polls[t].pc = "create" /\ Grants(polls[t]) /\ PollOK(polls[t])
      /\ payments[polls[t].payment].status # "NONE"
  BY DEF CreateCoupon, GrantInvariant, PollsOK, Grants
<1>2. PICK p \in Serial, left \in SUBSET Merchant, read \in Reads, result \in SUBSET CouponId,
           m \in Merchant :
        polls[t] = Creating(p, left, read, result, m)
  BY <1>1, TakingRow
<1>3. /\ polls[t].payment = p /\ polls[t].left = left /\ polls[t].read = read
      /\ polls[t].result = result /\ polls[t].taken = m
  BY <1>2 DEF Creating
<1>4. PICK new : new = NewCoupon(p, m, read[m])
  OBVIOUS
<1>5. PICK to : to = Taking(p, left, read, result \cup {c})
  OBVIOUS
<1>6. /\ coupons[c].status = "NONE" /\ coupons' = [coupons EXCEPT ![c] = new]
      /\ gifts' = [gifts EXCEPT ![p] = gifts[p] \cup {c}]
      /\ rows' = << >>
      /\ UNCHANGED <<payments, refunds, balance, withdrawable, paidOut>>
      /\ UNCHANGED <<rules, granted, edit, offered, lost>>
  BY <1>3, <1>4 DEF CreateCoupon, Fresh
<1>7. Moves(t, to)
  BY <1>3, <1>5 DEF CreateCoupon, Moves, Taking
<1>8. /\ CouponTables /\ GrantRowsOK /\ RulesOK /\ CouponsAreSound /\ PollsOK
      /\ \A q \in Serial : GiftsOK(q)
      /\ \A k \in Merchant : StockOK(k)
  BY DEF GrantInvariant
<1>9. /\ p \in granted /\ result = gifts[p] /\ left \subseteq DOMAIN read
      /\ \A k \in DOMAIN read : k # payments[p].merchant /\ ReadNow(k, read[k])
      /\ \A k \in left, d \in result : coupons[d].rule # k
      /\ Cardinality(result) < GrantLimit /\ m \in DOMAIN read /\ m \notin left
      /\ \A d \in result : coupons[d].rule # m
  BY <1>1, <1>3 DEF PollOK
<1>10. /\ read[m] \in RuleRow /\ m # payments[p].merchant /\ ReadNow(m, read[m])
       /\ rules[m].exists /\ rules[m].discount = read[m].discount
       /\ rules[m].discount < rules[m].min_charge /\ rules[m].min_charge = read[m].min_charge
       /\ payments[p].merchant \in Merchant
  <2>1. read[m] \in RuleRow
    BY <1>9, ReadsType
  <2>2. payments[p].merchant \in Merchant
    BY <1>8, PartsType DEF CouponTables
  <2>3. QED
    BY <1>8, <1>9, <2>1, <2>2 DEF ReadNow, RulesOK
<1>11. /\ new \in Coupon /\ new.status = "NOT_USED" /\ new.rule = m
       /\ new.originator = payments[p].merchant
       /\ new.discount = read[m].discount /\ new.min_charge = read[m].min_charge
  BY <1>4, <1>10 DEF NewCoupon, Coupon, CouponStatus, RuleRow
<1>12. CouponTables' /\ CouponsStay /\ Steady
  BY <1>6, <1>8, <1>11, NewCouponIsFree
<1>13. /\ coupons'[c] = new /\ \A k \in CouponId : k # c => coupons'[k] = coupons[k]
       /\ gifts \in [Serial -> SUBSET CouponId]
       /\ gifts'[p] = result \cup {c} /\ \A q \in Serial : q # p => gifts'[q] = gifts[q]
  BY <1>6, <1>8, <1>9 DEF CouponTables, TypeOK, GrantRowsOK
<1>14. /\ to \in PollRow /\ to.pc = "take" /\ to.payment = p /\ to.left = left /\ to.read = read
       /\ to.result = result \cup {c}
  <2>1. result \cup {c} \in SUBSET CouponId
    OBVIOUS
  <2>2. to \in PollRow
    BY <1>5, <2>1, TakingType
  <2>3. QED
    BY <1>5, <2>2 DEF Taking
<1>15. /\ polls'[t] = to /\ \A k \in Poller : k # t => polls'[k] = polls[k]
       /\ polls' \in [Poller -> PollRow]
       /\ \A k \in Merchant : /\ Making(polls, k) \in Nat
                              /\ Making(polls', k) = Making(polls, k) - Makes(polls[t], k) + Makes(to, k)
  BY <1>7, <1>8, <1>14, PollMoves
<1>16. GrantRowsOK'
  <2>1. gifts' \in [Serial -> SUBSET CouponId]
    BY <1>6, <1>13
  <2>2. QED
    BY <1>6, <1>8, <1>15, <2>1 DEF GrantRowsOK
<1>17. /\ c \notin result
       /\ \A d \in result : d \in CouponId /\ coupons[d].status # "NONE" /\ coupons'[d] = coupons[d]
  <2>1. \A d \in result : coupons[d].status # "NONE"
    BY <1>8, <1>9 DEF GiftsOK
  <2>2. QED
    BY <1>6, <1>13, <2>1
<1>18. ASSUME NEW q \in Serial PROVE GiftsOK(q)'
  <2>1. CASE q = p
    <3>1. Cardinality(result \cup {c}) <= GrantLimit
      <4>1. IsFiniteSet(result) /\ Cardinality(result) \in Nat
        BY CouponsFinite, FS_CardinalityType
      <4>2. Cardinality(result \cup {c}) = Cardinality(result) + 1
        BY <1>17, <4>1, FS_AddElement
      <4>3. QED
        BY <1>9, <4>1, <4>2
    <3>2. \A d \in result \cup {c} : coupons'[d].status # "NONE"
      BY <1>11, <1>13, <1>17
    <3>3. \A d, e \in result \cup {c} : coupons'[d].rule = coupons'[e].rule => d = e
      <4>1. \A d \in result : coupons'[d].rule # m /\ coupons'[d].rule = coupons[d].rule
        BY <1>9, <1>17
      <4>2. coupons'[c].rule = m
        BY <1>11, <1>13
      <4>3. \A d, e \in result : coupons[d].rule = coupons[e].rule => d = e
        BY <1>8, <1>9 DEF GiftsOK
      <4>4. QED
        BY <4>1, <4>2, <4>3
    <3>4. p \in granted'
      BY <1>6, <1>9
    <3>5. gifts'[q] = result \cup {c}
      BY <1>13, <2>1
    <3>6. QED
      BY <2>1, <3>1, <3>2, <3>3, <3>4, <3>5 DEF GiftsOK
  <2>2. CASE q # p
    <3>1. gifts'[q] = gifts[q] /\ GiftsOK(q) /\ gifts[q] \subseteq CouponId /\ granted' = granted
      BY <1>6, <1>8, <1>13, <2>2
    <3>2. \A d \in gifts[q] : coupons'[d] = coupons[d]
      BY <1>6, <1>13, <3>1 DEF GiftsOK
    <3>3. QED
      BY <3>1, <3>2 DEF GiftsOK
  <2>3. QED
    BY <2>1, <2>2
<1>19. RulesStay
  BY <1>6 DEF RulesStay
<1>20. \A k \in Poller : k # t /\ Grants(polls[k]) => polls[k].payment # p
  BY <1>1, <1>3, <1>8 DEF PollsOK
<1>21. PollOK(to)'
  <2>1. \A k \in DOMAIN read : k # payments'[p].merchant /\ ReadNow(k, read[k])'
    BY <1>6, <1>9 DEF ReadNow
  <2>2. \A k \in left, d \in result \cup {c} : coupons'[d].rule # k
    BY <1>9, <1>11, <1>13, <1>17
  <2>3. to.pc \in {"take", "create"} =>
          /\ to.result = gifts'[to.payment]
          /\ to.left \subseteq DOMAIN to.read
          /\ \A k \in DOMAIN to.read : k # payments'[to.payment].merchant /\ ReadNow(k, to.read[k])'
          /\ \A k \in to.left, d \in to.result : coupons'[d].rule # k
    BY <1>9, <1>13, <1>14, <2>1, <2>2
  <2>4. to.payment \in granted' /\ to.pc # "choose" /\ to.pc # "create"
    BY <1>6, <1>9, <1>14
  <2>5. QED
    BY <2>3, <2>4 DEF PollOK
<1>22. PollsOK'
  <2>1. ASSUME NEW k \in Poller, k # t
        PROVE  /\ Grants(polls'[k]) => PollOK(polls[k])'
               /\ polls'[k].pc # "idle" => payments'[polls'[k].payment].status # "NONE"
    <3>1. polls'[k] = polls[k] /\ granted \subseteq granted'
      BY <1>6, <1>15, <2>1
    <3>2. Grants(polls[k]) => gifts'[polls[k].payment] = gifts[polls[k].payment]
      <4>1. polls[k] \in PollRow
        BY <1>8 DEF GrantRowsOK
      <4>2. Grants(polls[k]) => polls[k].payment \in Serial
        BY <4>1, PollType DEF Grants
      <4>3. QED
        BY <1>13, <1>20, <2>1, <4>2
    <3>3. QED
      BY <1>12, <1>19, <3>1, <3>2, PollsStay
  <2>2. \A k \in Poller : polls'[k].pc # "idle" => payments'[polls'[k].payment].status # "NONE"
    BY <1>1, <1>3, <1>6, <1>14, <1>15, <2>1
  <2>3. ASSUME NEW k \in Poller, Grants(polls'[k]) PROVE PollOK(polls[k])'
    <3>1. CASE k # t
      BY <2>1, <2>3, <3>1
    <3>2. CASE k = t
      <4>1. polls'[k] = to
        BY <1>15, <3>2
      <4>2. QED
        BY <1>21, <4>1 DEF PollOK, ReadNow
    <3>3. QED
      BY <3>1, <3>2
  <2>4. \A k, u \in Poller : Grants(polls'[k]) /\ Grants(polls'[u]) /\ k # u =>
          polls'[k].payment # polls'[u].payment
    BY <1>8, <1>14, <1>15, <1>20 DEF PollsOK
  <2>5. (\A k \in Poller : Grants(polls[k]) => PollOK(polls[k]))'
    BY <2>3 DEF Grants
  <2>6. QED
    BY <2>2, <2>4, <2>5 DEF PollsOK, Grants
<1>23. RulesOK'
  <2>1. edit'.exists => ReadNow(edit.merchant, edit.read)'
    BY <1>6, <1>8 DEF RulesOK, ReadNow
  <2>2. \A k \in CouponId : coupons'[k].status # "NONE" => rules'[coupons'[k].rule].exists
    BY <1>6, <1>8, <1>10, <1>11, <1>13 DEF RulesOK
  <2>3. QED
    BY <1>6, <1>8, <2>1, <2>2 DEF RulesOK
<1>24. CouponsAreSound'
  <2>1. \A k \in CouponId : coupons'[k].status # "NONE" =>
          /\ coupons'[k].rule # coupons'[k].originator
          /\ coupons'[k].discount < coupons'[k].min_charge
          /\ coupons'[k].discount = rules[coupons'[k].rule].discount
    BY <1>8, <1>10, <1>11, <1>13 DEF CouponsAreSound
  <2>2. QED
    BY <1>6, <2>1 DEF CouponsAreSound
<1>25. ASSUME NEW k \in Merchant PROVE StockOK(k)'
  <2>1. /\ IsFiniteSet(LiveOf({k})) /\ Cardinality(LiveOf({k})) \in Nat
    <3>1. LiveOf({k}) \in SUBSET CouponId
      BY DEF LiveOf
    <3>2. QED
      BY <3>1, CouponsFinite, FS_CardinalityType
  <2>2. Cardinality(LiveOf({k})') = Cardinality(LiveOf({k})) + Makes(polls[t], k)
    <3>1. CASE k = m
      <4>1. LiveOf({k})' = LiveOf({k}) \cup {c} /\ c \notin LiveOf({k})
        BY <1>6, <1>11, <1>13, <3>1 DEF LiveOf
      <4>2. Makes(polls[t], k) = 1
        BY <1>1, <1>3, <3>1 DEF Makes
      <4>3. QED
        BY <2>1, <4>1, <4>2, FS_AddElement
    <3>2. CASE k # m
      <4>1. LiveOf({k})' = LiveOf({k})
        BY <1>6, <1>11, <1>13, <3>2 DEF LiveOf
      <4>2. Makes(polls[t], k) = 0
        BY <1>3, <3>2 DEF Makes
      <4>3. QED
        BY <2>1, <4>1, <4>2
    <3>3. QED
      BY <3>1, <3>2
  <2>3. Makes(to, k) = 0 /\ Makes(polls[t], k) \in {0, 1}
    BY <1>14 DEF Makes
  <2>4. Making(polls, k) \in Nat /\ Making(polls, k)' = Making(polls, k) - Makes(polls[t], k) + 0
    BY <1>15, <2>3 DEF Making
  <2>5. /\ rules[k].stock >= 0
        /\ rules[k].stock + Cardinality(LiveOf({k})) + Making(polls, k) + lost[k] = offered[k]
    BY <1>8 DEF StockOK
  <2>6. PICK a, b, x \in Int : /\ a = Making(polls, k) /\ b = Cardinality(LiveOf({k}))
                              /\ x = Makes(polls[t], k)
    BY <2>1, <2>3, <2>4
  <2>7. /\ rules[k].stock \in Int /\ lost[k] \in Int /\ offered[k] \in Int
        /\ rules' = rules /\ lost' = lost /\ offered' = offered
    BY <1>6, <1>8 DEF GrantRowsOK, RuleRow
  <2>8. rules[k].stock + (b + x) + (a - x + 0) + lost[k] = offered[k]
    BY <2>5, <2>6, <2>7
  <2>9. rules'[k].stock + Cardinality(LiveOf({k}))' + Making(polls, k)' + lost'[k] = offered'[k]
    BY <2>2, <2>4, <2>6, <2>7, <2>8
  <2>10. QED
    BY <2>5, <2>7, <2>9 DEF StockOK
<1>26. QED
  BY <1>12, <1>16, <1>18, <1>22, <1>23, <1>24, <1>25 DEF GrantInvariant

----------------------------------------------------------------------------
\* Every coupon after a transaction of the ledger has the terms of one before.
LEMMA MovesKeepTerms ==
  ASSUME CouponMoves
  PROVE  /\ CouponsStay
         /\ \A c \in CouponId : coupons'[c].status # "NONE" =>
              \E u \in CouponId : coupons[u].status # "NONE" /\ SameTerms(u, c)
<1>1. CASE coupons' = coupons
  BY <1>1 DEF CouponsStay, SameTerms
<1>2. ASSUME NEW d \in CouponId, TakesCoupon(d)
      PROVE  /\ CouponsStay
             /\ \A c \in CouponId : coupons'[c].status # "NONE" =>
                  \E u \in CouponId : coupons[u].status # "NONE" /\ SameTerms(u, c)
  <2>1. \A c \in CouponId : c # d => coupons'[c] = coupons[c] /\ SameTerms(c, c)
    BY <1>2 DEF TakesCoupon, SameTerms
  <2>2. coupons[d].status # "NONE" /\ coupons'[d].status # "NONE" /\ SameTerms(d, d)
    BY <1>2 DEF TakesCoupon
  <2>3. QED
    BY <2>1, <2>2 DEF CouponsStay
<1>3. ASSUME NEW d \in CouponId, NEW e \in CouponId, RenewsCoupon(d, e)
      PROVE  /\ CouponsStay
             /\ \A c \in CouponId : coupons'[c].status # "NONE" =>
                  \E u \in CouponId : coupons[u].status # "NONE" /\ SameTerms(u, c)
  <2>1. \A c \in CouponId : c # d /\ c # e => coupons'[c] = coupons[c] /\ SameTerms(c, c)
    BY <1>3 DEF RenewsCoupon, SameTerms
  <2>2. /\ coupons[d].status # "NONE" /\ coupons'[d].status # "NONE" /\ SameTerms(d, d)
        /\ coupons[e].status = "NONE" /\ SameTerms(d, e)
    BY <1>3 DEF RenewsCoupon
  <2>3. QED
    BY <2>1, <2>2 DEF CouponsStay
<1>4. QED
  BY <1>1, <1>2, <1>3 DEF CouponMoves

\* The ledger goes on; rules and polls rest.
LEMMA LedgerKeeps ==
  ASSUME GrantInvariant, [Next]_vars, UNCHANGED grantVars
  PROVE  GrantInvariant'
<1>1. /\ CouponTables /\ GrantRowsOK /\ RulesOK /\ CouponsAreSound /\ PollsOK
      /\ \A p \in Serial : GiftsOK(p)
      /\ \A m \in Merchant : StockOK(m)
  BY DEF GrantInvariant
<1>2. /\ rules' = rules /\ granted' = granted /\ polls' = polls /\ edit' = edit
      /\ offered' = offered /\ lost' = lost /\ gifts' = gifts
  BY DEF grantVars
<1>3. CouponTables' /\ CouponMoves /\ Steady
  BY <1>1, NextTables
<1>4. /\ CouponsStay
      /\ \A c \in CouponId : coupons'[c].status # "NONE" =>
           \E u \in CouponId : coupons[u].status # "NONE" /\ SameTerms(u, c)
  BY <1>3, MovesKeepTerms
<1>5. GrantRowsOK'
  BY <1>1, <1>2 DEF GrantRowsOK
<1>6. RulesStay
  BY <1>2 DEF RulesStay
<1>7. \A p \in Serial : GiftsOK(p)'
  <2> SUFFICES ASSUME NEW p \in Serial PROVE GiftsOK(p)'
    OBVIOUS
  <2>1. GiftsOK(p) /\ gifts[p] \subseteq CouponId
    BY <1>1 DEF GrantRowsOK
  <2>2. \A c \in gifts[p] : coupons'[c].status # "NONE" /\ coupons'[c].rule = coupons[c].rule
    BY <1>4, <2>1 DEF GiftsOK, CouponsStay, SameTerms
  <2>3. QED
    BY <1>2, <2>1, <2>2 DEF GiftsOK
<1>8. PollsOK'
  <2>1. ASSUME NEW k \in Poller
        PROVE  /\ Grants(polls'[k]) => PollOK(polls[k])'
               /\ polls'[k].pc # "idle" => payments'[polls'[k].payment].status # "NONE"
    <3>1. polls'[k] = polls[k] /\ gifts'[polls[k].payment] = gifts[polls[k].payment]
          /\ granted \subseteq granted'
      BY <1>2
    <3>2. QED
      BY <1>3, <1>4, <1>6, <3>1, PollsStay
  <2>2. \A k, u \in Poller : Grants(polls'[k]) /\ Grants(polls'[u]) /\ k # u =>
          polls'[k].payment # polls'[u].payment
    BY <1>1, <1>2 DEF PollsOK
  <2>3. (\A k \in Poller : Grants(polls[k]) => PollOK(polls[k]))'
    BY <2>1 DEF Grants
  <2>4. QED
    BY <2>1, <2>2, <2>3 DEF PollsOK, Grants
<1>9. RulesOK'
  <2>1. edit'.exists => ReadNow(edit.merchant, edit.read)'
    BY <1>1, <1>2 DEF RulesOK, ReadNow
  <2>2. \A c \in CouponId : coupons'[c].status # "NONE" => rules[coupons'[c].rule].exists
    BY <1>1, <1>4 DEF RulesOK, SameTerms
  <2>3. QED
    BY <1>1, <1>2, <2>1, <2>2 DEF RulesOK
<1>10. CouponsAreSound'
  <2>1. \A c \in CouponId : coupons'[c].status # "NONE" =>
          /\ coupons'[c].rule # coupons'[c].originator
          /\ coupons'[c].discount < coupons'[c].min_charge
          /\ coupons'[c].discount = rules[coupons'[c].rule].discount
    BY <1>1, <1>4 DEF CouponsAreSound, SameTerms
  <2>2. QED
    BY <1>2, <2>1 DEF CouponsAreSound
<1>11. ASSUME NEW m \in Merchant PROVE StockOK(m)'
  <2>1. Cardinality(LiveOf({m})') = Cardinality(LiveOf({m}))
    BY <1>1, <1>3, LiveStays
  <2>2. Making(polls, m)' = Making(polls, m)
    BY <1>2 DEF Making
  <2>3. QED
    BY <1>1, <1>2, <2>1, <2>2 DEF StockOK
<1>12. QED
  BY <1>3, <1>5, <1>7, <1>8, <1>9, <1>10, <1>11 DEF GrantInvariant

----------------------------------------------------------------------------
LEMMA InitGrant == GrantInit => GrantInvariant
<1> SUFFICES ASSUME GrantInit PROVE GrantInvariant
  OBVIOUS
<1>1. /\ Init /\ rules = [m \in Merchant |-> NoRule] /\ granted = {}
      /\ polls = [t \in Poller |-> Idle] /\ edit = NotChanging
      /\ offered = [m \in Merchant |-> 0] /\ lost = [m \in Merchant |-> 0]
      /\ gifts = [p \in Serial |-> {}]
  BY DEF GrantInit
<1>2. CouponTables
  BY <1>1, InitCoupons DEF CouponInvariant
<1>3. \A c \in CouponId : coupons[c].status = "NONE"
  <2>1. Len(InitialCoupons) = 0
    OBVIOUS
  <2>2. QED
    BY <1>1, <2>1 DEF Init, NoCouponRow
<1>4. NoRule \in RuleRow /\ ~NoRule.exists /\ NoRule.stock = 0
  BY DEF NoRule, RuleRow
<1>5. \A m \in Merchant : rules[m] = NoRule /\ lost[m] = 0 /\ offered[m] = 0
  BY <1>1
<1>6. GrantRowsOK
  BY <1>1, <1>4, IdleRow DEF GrantRowsOK, EditRow
<1>7. \A p \in Serial : GiftsOK(p)
  BY <1>1, FS_EmptySet DEF GiftsOK
<1>8. \A t \in Poller : polls[t] = Idle
  BY <1>1
<1>9. PollsOK
  BY <1>8, IdleRow DEF PollsOK
<1>10. ~edit.exists
  BY <1>1 DEF NotChanging
<1>11. RulesOK
  BY <1>3, <1>4, <1>5, <1>10 DEF RulesOK
<1>12. CouponsAreSound
  BY <1>3 DEF CouponsAreSound
<1>13. ASSUME NEW m \in Merchant PROVE StockOK(m)
  <2>1. LiveOf({m}) = {}
    BY <1>3 DEF LiveOf
  <2>2. {t \in Poller : Makes(polls[t], m) = 1} = {}
    BY <1>8, IdleRow DEF Makes
  <2>3. Cardinality(LiveOf({m})) = 0 /\ Making(polls, m) = 0
    BY <2>1, <2>2, FS_EmptySet DEF Making
  <2>4. QED
    BY <1>4, <1>5, <2>3 DEF StockOK
<1>14. QED
  BY <1>2, <1>6, <1>7, <1>9, <1>11, <1>12, <1>13 DEF GrantInvariant

LEMMA NextGrant == GrantInvariant /\ [GrantNext]_everything => GrantInvariant'
<1> SUFFICES ASSUME GrantInvariant, [GrantNext]_everything PROVE GrantInvariant'
  OBVIOUS
<1>1. CASE Next /\ UNCHANGED grantVars
  BY <1>1, LedgerKeeps
<1>2. CASE RuleStep
  BY <1>2, CreateRuleKeeps, BeginStockEditKeeps, SaveStockKeeps DEF RuleStep
<1>3. ASSUME NEW t \in Poller, PollStep(t) PROVE GrantInvariant'
  <2>1. CASE \E p \in Serial : BeginPoll(t, p)
    BY <2>1, BeginPollKeeps
  <2>2. CASE \E accurate \in BOOLEAN : Claim(t, accurate)
    BY <2>2, ClaimKeeps
  <2>3. CASE \E chosen \in SUBSET Merchant : Choose(t, chosen)
    BY <2>3, ChooseKeeps
  <2>4. CASE \E m \in Merchant : TakeStock(t, m)
    BY <2>4, TakeStockKeeps
  <2>5. CASE \E c \in CouponId : CreateCoupon(t, c)
    BY <2>5, CreateCouponKeeps
  <2>6. CASE EndGrant(t)
    BY <2>6, EndGrantKeeps
  <2>7. CASE PollDies(t)
    BY <2>7, PollDiesKeeps
  <2>8. QED
    BY <1>3, <2>1, <2>2, <2>3, <2>4, <2>5, <2>6, <2>7 DEF PollStep
<1>4. CASE UNCHANGED everything
  BY <1>4, LedgerKeeps DEF everything
<1>5. QED
  BY <1>1, <1>2, <1>3, <1>4 DEF GrantNext

\* What polls and merchants hold agrees with the tables throughout: a payment
\* is in one hand at a time, terms never change under a reader, and stock is
\* with the rule, in a hand, with a client or lost (base.py:422-471).
THEOREM GrantCorrect == GrantSpec => []GrantInvariant
  BY InitGrant, NextGrant, PTL DEF GrantSpec

\* However many polls race, retry or die, a payment earns coupons once: at
\* most GrantLimit, no two of the same rule, and none while it is unclaimed.
THEOREM OneGrantCorrect == GrantSpec => []OneGrantAPayment
<1>1. GrantInvariant => OneGrantAPayment
  BY DEF GrantInvariant, GiftsOK, OneGrantAPayment
<1>2. QED
  BY <1>1, GrantCorrect, PTL

\* A merchant gives away exactly what it put on offer: stock, coupons with
\* clients, coupons in the making and what dead polls lost add up to it; no
\* rule is oversold; and every coupon leaves something to pay and has an
\* originator other than its merchant.
THEOREM GrantsSoundCorrect == GrantSpec => []GrantsAreSound
<1>1. GrantInvariant => GrantsAreSound
  <2> SUFFICES ASSUME GrantInvariant PROVE GrantsAreSound
    OBVIOUS
  <2>1. StockBecomesCoupons
    <3> SUFFICES ASSUME NEW m \in Merchant
                 PROVE  /\ rules[m].stock >= 0
                        /\ rules[m].stock + Cardinality(Obtained(m))
                             + Cardinality(BeingMade(m)) + lost[m] = offered[m]
      BY DEF StockBecomesCoupons
    <3>1. LiveOf({m}) = Obtained(m)
      BY DEF LiveOf, Obtained
    <3>2. BeingMade(m) = {t \in Poller : Makes(polls[t], m) = 1}
      BY DEF BeingMade, Makes
    <3>3. Making(polls, m) = Cardinality(BeingMade(m))
      BY <3>2 DEF Making
    <3>4. StockOK(m)
      BY DEF GrantInvariant
    <3>5. QED
      BY <3>1, <3>3, <3>4 DEF StockOK
  <2>2. GrantTypeOK
    <3>1. \A t \in Poller :
            /\ polls[t].pc \in {"idle", "claim", "choose", "take", "create"}
            /\ polls[t].pc # "idle" => polls[t].payment \in Serial
      BY PollType DEF GrantInvariant, GrantRowsOK
    <3>2. \A t \in Poller : polls[t].pc \in {"take", "create"} =>
            polls[t].left \subseteq DOMAIN polls[t].read
      BY DEF GrantInvariant, PollsOK, PollOK, Grants
    <3>3. /\ TypeOK
          /\ rules \in [Merchant -> RuleRow] /\ granted \subseteq Serial
      BY DEF GrantInvariant, CouponTables, GrantRowsOK
    <3>4. QED
      BY <3>1, <3>2, <3>3 DEF GrantTypeOK, RuleRow
  <2>3. QED
    BY <2>1, <2>2 DEF GrantInvariant, GrantsAreSound
<1>2. QED
  BY <1>1, GrantCorrect, PTL

-----------------------------------------------------------------------------
(* When a coupon is valid, for days and years of any length and rules of any dates *)

RuleDates == [valid_strategy : {"DATE_RANGE"}, start_date : Nat, end_date : Nat]
RuleDays == [valid_strategy : {"EXPIRATION"}, expiration_days : Nat \ {0}]

\* A coupon in somebody's wallet has a rule, and was granted before now.
DatesInvariant ==
  /\ now \in Nat
  /\ rule \in {NoRuleYet} \cup RuleDates \cup RuleDays
  /\ obtained \in {NotObtained} \cup 0..now
  /\ Owned => rule # NoRuleYet

LEMMA RuleType ==
  ASSUME DatesInvariant
  PROVE  /\ rule = NoRuleYet => ~IsRange /\ ~IsExpiration
         /\ IsRange => rule.start_date \in Nat /\ rule.end_date \in Nat /\ ~IsExpiration
         /\ IsExpiration => rule.expiration_days \in Nat
         /\ rule # NoRuleYet => IsRange \/ IsExpiration
  BY DEF DatesInvariant, NoRuleYet, RuleDates, RuleDays, IsRange, IsExpiration

LEMMA InitDates == DatesInit => DatesInvariant
  BY DEF DatesInit, DatesInvariant, Owned, NotObtained

LEMMA NextDates == DatesInvariant /\ [DatesNext]_dates => DatesInvariant'
<1> SUFFICES ASSUME DatesInvariant, [DatesNext]_dates
             PROVE  DatesInvariant'
  OBVIOUS
<1>1. CASE SubmitRule
  <2>1. rule' \in RuleDates \cup RuleDays
    BY <1>1, DateAssumption DEF SubmitRule, RuleDates, RuleDays
  <2>2. rule' # NoRuleYet
    BY <2>1 DEF RuleDates, RuleDays, NoRuleYet
  <2>3. QED
    BY <1>1, <2>1, <2>2 DEF SubmitRule, DatesInvariant, Owned
<1>2. CASE Grant
  <2>1. rule # NoRuleYet
    BY <1>2, RuleType DEF Grant, MayBeGranted
  <2>2. QED
    BY <1>2, <2>1 DEF Grant, DatesInvariant, Owned
<1>3. CASE Tick
  BY <1>3 DEF Tick, DatesInvariant, Owned, NotObtained
<1>4. CASE UNCHANGED dates
  BY <1>4 DEF dates, DatesInvariant, Owned
<1>5. QED
  BY <1>1, <1>2, <1>3, <1>4 DEF DatesNext

\* Days and ticks: a day has TicksPerDay ticks, and fewer ticks are fewer days.
LEMMA DayOfTick ==
  ASSUME NEW t \in Nat
  PROVE  /\ Date(t) \in Nat
         /\ Date(t) * TicksPerDay <= t
         /\ t < (Date(t) + 1) * TicksPerDay
  BY DateAssumption, SMTT(30) DEF Date

LEMMA FewerDays ==
  ASSUME NEW a \in Int, NEW b \in Int, a * TicksPerDay < b * TicksPerDay
  PROVE  a < b
  BY DateAssumption, SMTT(30)

LEMMA DaysAdd ==
  ASSUME NEW a \in Int, NEW b \in Int
  PROVE  (a + b) * TicksPerDay = a * TicksPerDay + b * TicksPerDay
  BY DateAssumption, SMTT(30)

\* What the app offers for an order the order form accepts, and what it accepts
\* but is not offered is a coupon with expiration_days on its last day
\* (puser/core/coupon.py:26-49 and puser/rest/payment.py:87-99).
THEOREM OffersHonouredCorrect == DatesInit /\ [][DatesNext]_dates => []OffersAreHonoured
<1>1. DatesInvariant => OffersAreHonoured
  <2> SUFFICES ASSUME DatesInvariant, Owned
               PROVE  OffersAreHonoured
    BY DEF OffersAreHonoured, OfferedIsAccepted, UnofferedIsLastDay
  <2>1. now \in Nat /\ obtained \in Nat /\ (IsRange \/ IsExpiration)
    BY RuleType DEF DatesInvariant, Owned
  <2>2. CASE IsRange
    BY <2>1, <2>2, RuleType
       DEF OffersAreHonoured, OfferedIsAccepted, UnofferedIsLastDay, ListedForPayment,
           NotExpired, HasStarted, OrderAccepts, Today
  <2>3. CASE IsExpiration
    <3> DEFINE n == rule.expiration_days
               D == Date(obtained)
               T == TicksPerDay
    <3>1. ~IsRange /\ n \in Nat /\ D \in Nat /\ Today \in Nat /\ T \in Nat
      BY <2>1, <2>3, RuleType, DayOfTick, DateAssumption DEF Today
    <3>2. ListedForPayment <=> n * T > now - obtained
      BY <2>3, <3>1 DEF ListedForPayment, NotExpired, HasStarted
    <3>3. OrderAccepts <=> Today <= D + n
      BY <2>3, <3>1 DEF OrderAccepts
    <3>4. /\ D * T <= obtained /\ obtained < (D + 1) * T
          /\ Today * T <= now /\ now < (Today + 1) * T
      BY <2>1, DayOfTick DEF Today
    <3>5. /\ ((D + 1) + n) * T = (D + 1) * T + n * T
          /\ (D + n) * T = D * T + n * T
      BY <3>1, DaysAdd
    <3>6. n * T \in Int /\ Today * T \in Int /\ (Today + 1) * T \in Int
          /\ D * T \in Int /\ (D + 1) * T \in Int
      BY <3>1
    <3> HIDE DEF n, D, T
    <3>7. n * T > now - obtained => Today * T < ((D + 1) + n) * T
      BY <2>1, <3>4, <3>5, <3>6
    <3>8. ~(n * T > now - obtained) => (D + n) * T < (Today + 1) * T
      BY <2>1, <3>4, <3>5, <3>6
    <3>9. n * T > now - obtained => Today < (D + 1) + n
      BY <3>1, <3>7, FewerDays DEF T
    <3>10. ~(n * T > now - obtained) => D + n < Today + 1
      BY <3>1, <3>8, FewerDays DEF T
    <3>11. OfferedIsAccepted
      BY <3>1, <3>2, <3>3, <3>9 DEF OfferedIsAccepted
    <3>12. UnofferedIsLastDay
      <4>1. OrderAccepts /\ ~ListedForPayment => Today = D + n
        BY <3>1, <3>2, <3>3, <3>10
      <4>2. QED
        BY <2>3, <4>1 DEF UnofferedIsLastDay, D, n
    <3>13. QED
      BY <3>11, <3>12 DEF OffersAreHonoured
  <2>4. QED
    BY <2>1, <2>2, <2>3
<1>2. QED
  BY <1>1, InitDates, NextDates, PTL

\* Times 24 hours that have passed take a coupon to the last of its days.
LEMMA ExpiredDay ==
  ASSUME DatesInvariant, Owned, IsExpiration, ~NotExpired
  PROVE  Date(obtained) + rule.expiration_days <= Today
<1> DEFINE n == rule.expiration_days
           D == Date(obtained)
           T == TicksPerDay
<1>1. now \in Nat /\ obtained \in Nat /\ n \in Nat /\ ~IsRange
  BY RuleType DEF DatesInvariant, Owned
<1>2. D \in Nat /\ Today \in Nat /\ D * T <= obtained /\ now < (Today + 1) * T
  BY <1>1, DayOfTick DEF Today
<1>3. n * T <= now - obtained
  <2>1. n * T \in Int
    BY <1>1, DateAssumption
  <2>2. QED
    BY <1>1, <2>1 DEF NotExpired
<1>4. (D + n) * T = D * T + n * T
  <2> HIDE DEF n, D
  <2>1. D \in Int /\ n \in Int
    BY <1>1, <1>2
  <2>2. QED
    BY <2>1, DaysAdd
<1>5. D * T \in Int /\ n * T \in Int /\ (Today + 1) * T \in Int
  BY <1>1, <1>2, DateAssumption
<1> HIDE DEF n, D, T
<1>6. (D + n) * T < (Today + 1) * T
  BY <1>1, <1>2, <1>3, <1>4, <1>5
<1>7. D + n < Today + 1
  BY <1>1, <1>2, <1>6, FewerDays DEF T
<1>8. QED
  BY <1>1, <1>2, <1>7 DEF n, D

\* A coupon that has left the wallet never comes back to it, and from the next
\* day on the order form refuses it: time runs on, and neither a rule nor the
\* day of a coupon ever changes (puser/core/coupon.py:26-38 and
\* puser/rest/payment.py:87-99).
THEOREM GoneIsGoneCorrect == DatesSpec => GoneIsGone
<1>1. DatesInvariant /\ DatesInvariant' /\ [DatesNext]_dates =>
        [Owned /\ ~ListedInWallet => ~ListedInWallet' /\ (OrderAccepts' => Today' = Today)]_dates
  <2> SUFFICES ASSUME DatesInvariant, DatesInvariant', DatesNext, Owned, ~NotExpired
               PROVE  ~NotExpired' /\ (OrderAccepts' => Today' = Today)
    BY DEF ListedInWallet
  <2>1. rule' = rule /\ obtained' = obtained /\ now' \in Nat /\ now' >= now
    BY DEF DatesInvariant, DatesNext, SubmitRule, Grant, Tick, Owned
  <2>2. now \in Nat /\ obtained \in Nat
    BY DEF DatesInvariant, Owned
  <2>3. Today <= Today'
    <3>1. /\ Date(now) * TicksPerDay <= now
          /\ now' < (Date(now') + 1) * TicksPerDay
          /\ Date(now) \in Nat /\ Date(now') \in Nat
      BY <2>1, <2>2, DayOfTick
    <3>2. Date(now) * TicksPerDay < (Date(now') + 1) * TicksPerDay
      <4>1. Date(now) * TicksPerDay \in Int /\ (Date(now') + 1) * TicksPerDay \in Int
        BY <3>1, DateAssumption
      <4>2. QED
        BY <2>1, <2>2, <3>1, <4>1
    <3>3. Date(now) < Date(now') + 1
      BY <3>1, <3>2, FewerDays
    <3>4. QED
      BY <3>1, <3>3 DEF Today
  <2>4. Today \in Nat /\ Today' \in Nat
    BY <2>1, <2>2, DayOfTick DEF Today
  <2>5. IsRange => ~(rule'.end_date >= Today')
    BY <2>1, <2>3, <2>4, RuleType DEF NotExpired
  <2>6. IsExpiration => ~(rule'.expiration_days * TicksPerDay > now' - obtained')
    <3>1. IsExpiration => rule.expiration_days * TicksPerDay \in Int
      BY RuleType, DateAssumption
    <3>2. QED
      BY <2>1, <2>2, <3>1 DEF NotExpired
  <2>7. ~NotExpired'
    BY <2>1, <2>5, <2>6 DEF NotExpired, IsRange, IsExpiration
  <2>8. IsRange => ~OrderAccepts'
    BY <2>1, <2>4, <2>5, RuleType DEF OrderAccepts, IsRange
  <2>9. IsExpiration /\ OrderAccepts' => Today' = Today
    <3> SUFFICES ASSUME IsExpiration, OrderAccepts' PROVE Today' = Today
      OBVIOUS
    <3>1. Date(obtained) + rule.expiration_days <= Today
      BY ExpiredDay
    <3>2. Today' <= Date(obtained) + rule.expiration_days
      BY <2>1 DEF OrderAccepts, IsExpiration, Date
    <3>3. Date(obtained) + rule.expiration_days \in Int
      BY <2>2, DayOfTick, RuleType
    <3>4. QED
      BY <2>3, <2>4, <3>1, <3>2, <3>3
  <2>10. IsRange \/ IsExpiration
    BY RuleType DEF DatesInvariant
  <2>11. QED
    BY <2>7, <2>8, <2>9, <2>10
<1>2. QED
  BY <1>1, InitDates, NextDates, PTL DEF DatesSpec, GoneIsGone

=============================================================================
