--------------------------- MODULE MerchantsProofs ---------------------------
(***************************************************************************)
(* What is true of merchants and their staff however many requests overlap *)
(* and whatever they save over each other; and of the checks of marketers' *)
(* accounts however the commands of their workers interleave.              *)
(***************************************************************************)
EXTENDS Merchants, AccountChecks, FiniteSetTheorems, SequenceTheorems, TLAPS

ShopOps == {"AUDIT", "MODIFY", "DAY", "MANAGE"}

----------------------------------------------------------------------------
(* The inductive invariant *)

HistoryTypeOK ==
  /\ owner \in [Merchant -> Person \cup {NoRow}]
  /\ granted \in [Merchant -> SUBSET Profile]
  /\ banned \subseteq Merchant

\* What a request that is under way has read and will save: its merchant exists,
\* a change of profile asks for a review, and the minute of the day comes with a
\* profile that was approved, unless an auditor was misled.
SavesShop(c) ==
  /\ c.op \in ShopOps => shop[c.shop] # NoRow
  /\ c.op = "MODIFY" => c.seen.status = "REJECTED" /\ c.row.status = "REVIEWING"
  /\ c.op = "DAY" =>
       c.seen.status = "USING" /\ (c.row.profile \in granted[c.shop] \/ c.shop \in misled)
  /\ c.op \in ShopOps \ {"MANAGE"} => c.seen.status # "DISABLED"

\* An open page of a merchant in review shows the row as it is, and a decision
\* is about the profile that the page showed, unless the auditor was misled.
ReadsPage(c) ==
  /\ c.op = "LOOK" =>
       /\ shop[c.shop] # NoRow
       /\ c.seen.status = "REVIEWING" /\ c.shop \notin misled => shop[c.shop] = c.seen
  /\ c.op = "AUDIT" /\ c.shop \notin misled => c.row.profile = c.shown

IsFreeRow(row) == row # NoRow => row.type = "CASHIER" /\ row.status = "DISABLED"

\* A new row of staff in place of an old one makes nobody an administrator and
\* moves none.
Keeps(old, new) ==
  /\ old = NoRow => new.type = "CASHIER"
  /\ old # NoRow => new.type = old.type
  /\ old # NoRow /\ old.type = "ADMIN" => new.work = old.work

SavesStaff(c) ==
  /\ c.op = "ADD" => shop[c.shop] # NoRow /\ IsFreeRow(c.seen)
  /\ c.op = "STAFF" => shop[c.row.work] # NoRow
  /\ c.op = "STAFF" /\ c.person \notin overtaken => Keeps(c.seen, c.row)

CallsAreSound ==
  \A w \in Worker : SavesShop(call[w]) /\ ReadsPage(call[w]) /\ SavesStaff(call[w])

IsAdmin(p, m) == staff[p] # NoRow /\ staff[p].type = "ADMIN" /\ staff[p].work = m

\* Administrators and the merchants registered for them, both ways.
AdminsOwn ==
  \A p \in Person \ overtaken, m \in Merchant :
    IsAdmin(p, m) => shop[m] # NoRow /\ owner[m] = p

OwnersRule ==
  \A m \in Merchant :
    shop[m] # NoRow =>
      owner[m] \in Person /\ (owner[m] \notin overtaken => IsAdmin(owner[m], m))

BannedExist == \A m \in banned : shop[m] # NoRow

MerchantsInvariant ==
  /\ MerchantsTypeOK
  /\ HistoryTypeOK
  /\ CallsAreSound
  /\ AdminsOwn
  /\ OwnersRule
  /\ BannedExist
  /\ UsedIsApproved
  /\ DisabledStays

----------------------------------------------------------------------------
(* Calls *)

LEMMA CallFields ==
  ASSUME NEW c \in Calls
  PROVE  /\ c.op \in ShopOps \cup {"LOOK", "ADD", "STAFF", "TELL", "IDLE"}
         /\ c.op \in ShopOps => c.shop \in Merchant /\ c.seen \in ShopRow /\ c.row \in ShopRow
         /\ c.op = "LOOK" => c.shop \in Merchant /\ c.seen \in ShopRow
         /\ c.op = "ADD" => c.shop \in Merchant /\ c.person \in Person
                              /\ c.seen \in StaffRow \cup {NoRow}
         /\ c.op = "STAFF" => c.person \in Person /\ c.seen \in StaffRow \cup {NoRow}
                                /\ c.row \in StaffRow
         /\ c.op = "TELL" => c.shop \in Merchant /\ c.word \in Words
BY DEF Calls, Idle, ShopOps

LEMMA NoRowIsNone == NoRow \notin ShopRow /\ NoRow \notin StaffRow
BY DEF NoRow, ShopRow, StaffRow

LEMMA InitCorrect == Init => MerchantsInvariant
<1> SUFFICES ASSUME Init PROVE MerchantsInvariant
  OBVIOUS
<1> USE DEF Init
<1>1. MerchantsTypeOK
  BY DEF MerchantsTypeOK, Calls
<1>2. HistoryTypeOK
  BY DEF HistoryTypeOK
<1>3. CallsAreSound
  BY DEF CallsAreSound, SavesShop, ReadsPage, SavesStaff, Idle, ShopOps
<1>4. AdminsOwn /\ OwnersRule /\ BannedExist
  BY DEF AdminsOwn, OwnersRule, BannedExist, IsAdmin
<1>5. UsedIsApproved /\ DisabledStays
  BY DEF UsedIsApproved, DisabledStays
<1>6. QED
  BY <1>1, <1>2, <1>3, <1>4, <1>5 DEF MerchantsInvariant

----------------------------------------------------------------------------
(* The actions *)

\* A request that only begins changes no row.
LEMMA ServeKeeps ==
  ASSUME MerchantsInvariant, NEW w \in Worker, NEW c \in Calls, Serve(w, c),
         SavesShop(c), ReadsPage(c), SavesStaff(c)
  PROVE  MerchantsInvariant'
<1> USE DEF Serve, history
<1>1. MerchantsTypeOK'
  BY DEF MerchantsInvariant, MerchantsTypeOK
<1>2. CallsAreSound'
  BY DEF MerchantsInvariant, MerchantsTypeOK, CallsAreSound, SavesShop, ReadsPage, SavesStaff
<1>3. QED
  BY <1>1, <1>2 DEF MerchantsInvariant, HistoryTypeOK, AdminsOwn, OwnersRule, BannedExist,
                    IsAdmin, UsedIsApproved, DisabledStays

\* A page that is opened shows the row as it is.
LEMMA LookKeeps ==
  ASSUME MerchantsInvariant, NEW w \in Worker, NEW m \in Merchant, Look(w, m)
  PROVE  MerchantsInvariant'
<1> DEFINE c == [op |-> "LOOK", shop |-> m, seen |-> shop[m]]
<1>1. shop[m] \in ShopRow /\ shop[m] # NoRow
  BY DEF Look, MerchantsInvariant, MerchantsTypeOK
<1>2. c \in Calls /\ SavesShop(c) /\ ReadsPage(c) /\ SavesStaff(c)
  BY <1>1 DEF Calls, SavesShop, ReadsPage, SavesStaff, ShopOps
<1>3. Serve(w, c)
  BY DEF Look
<1>4. QED
  BY <1>2, <1>3, ServeKeeps

\* The decision is about the row as it is now, and the page showed it if it
\* showed a merchant in review.
LEMMA AuditKeeps ==
  ASSUME MerchantsInvariant, NEW w \in Worker, NEW verdict \in AuditStatus,
         AuditMerchant(w, verdict)
  PROVE  MerchantsInvariant'
<1> DEFINE m == call[w].shop
           page == call[w].seen
           row == [shop[m] EXCEPT !.status = verdict]
           c == [op |-> "AUDIT", shop |-> m, seen |-> shop[m], row |-> row,
                 shown |-> page.profile]
<1>1. /\ m \in Merchant /\ page \in ShopRow /\ call[w].op = "LOOK" /\ ReadsPage(call[w])
      /\ shop[m] \in ShopRow /\ shop[m] # NoRow /\ shop[m].status = "REVIEWING"
  BY CallFields DEF AuditMerchant, InReview, MerchantsInvariant, MerchantsTypeOK, CallsAreSound
<1>2. row \in ShopRow /\ row.profile = shop[m].profile
  BY <1>1 DEF ShopRow
<1>3. /\ call' = [call EXCEPT ![w] = c]
      /\ misled' = IF page.status = "REVIEWING" THEN misled ELSE misled \cup {m}
      /\ UNCHANGED <<shop, staff, told, owner, granted, banned, managed, lost, overtaken>>
  BY DEF AuditMerchant
<1> HIDE DEF row
<1>4. c \in Calls
  BY <1>1, <1>2 DEF Calls, ShopRow
<1>5. misled \subseteq misled'
  BY <1>3
<1>6. m \notin misled' => row.profile = page.profile
  BY <1>1, <1>2, <1>3 DEF ReadsPage
<1>7. MerchantsTypeOK' /\ HistoryTypeOK'
  BY <1>3, <1>4 DEF MerchantsInvariant, MerchantsTypeOK, HistoryTypeOK
<1>8. CallsAreSound'
  <2> SUFFICES ASSUME NEW v \in Worker
               PROVE  SavesShop(call[v])' /\ ReadsPage(call[v])' /\ SavesStaff(call[v])'
    BY DEF CallsAreSound
  <2>1. CASE v = w
    <3>1. call'[v] = c
      BY <2>1, <1>3 DEF MerchantsInvariant, MerchantsTypeOK
    <3>2. QED
      BY <3>1, <1>1, <1>3, <1>6 DEF SavesShop, ReadsPage, SavesStaff, ShopOps
  <2>2. CASE v # w
    <3>1. call'[v] = call[v]
      BY <2>2, <1>3 DEF MerchantsInvariant, MerchantsTypeOK
    <3>2. SavesShop(call[v]) /\ ReadsPage(call[v]) /\ SavesStaff(call[v])
      BY DEF MerchantsInvariant, CallsAreSound
    <3>3. QED
      BY <3>1, <3>2, <1>3, <1>5 DEF SavesShop, ReadsPage, SavesStaff
  <2>3. QED
    BY <2>1, <2>2
<1>9. AdminsOwn' /\ OwnersRule' /\ BannedExist' /\ UsedIsApproved' /\ DisabledStays'
  BY <1>3, <1>5 DEF MerchantsInvariant, AdminsOwn, OwnersRule, BannedExist, IsAdmin,
       UsedIsApproved, DisabledStays
<1>10. QED
  BY <1>7, <1>8, <1>9 DEF MerchantsInvariant

\* Who is served works for a merchant that exists.
LEMMA WorksRow ==
  ASSUME MerchantsInvariant, NEW p \in Person, NEW status, Works(p, status)
  PROVE  /\ staff[p] \in StaffRow /\ staff[p] # NoRow
         /\ staff[p].work \in Merchant
         /\ shop[staff[p].work] \in ShopRow /\ shop[staff[p].work] # NoRow
         /\ shop[staff[p].work].status = status
BY DEF Works, LetIn, MerchantsInvariant, MerchantsTypeOK, StaffRow

LEMMA ModifyKeeps ==
  ASSUME MerchantsInvariant, NEW w \in Worker, NEW p \in Person, NEW profile \in Profile,
         Modify(w, p, profile)
  PROVE  MerchantsInvariant'
<1> DEFINE m == staff[p].work
           c == ShopCall("MODIFY", m, Changed(profile))
<1>1. m \in Merchant /\ shop[m] \in ShopRow /\ shop[m] # NoRow /\ shop[m].status = "REJECTED"
  BY WorksRow DEF Modify, Rules
<1>2. c \in Calls /\ SavesShop(c) /\ ReadsPage(c) /\ SavesStaff(c)
  BY <1>1 DEF ShopCall, Changed, NewShop, Calls, SavesShop, ReadsPage, SavesStaff, ShopOps,
              ShopRow, MerchantStatus, AuditStatus
<1>3. Serve(w, c)
  BY DEF Modify
<1>4. QED
  BY <1>2, <1>3, ServeKeeps

LEMMA DayKeeps ==
  ASSUME MerchantsInvariant, NEW w \in Worker, NEW p \in Person, DayBeginMinute(w, p)
  PROVE  MerchantsInvariant'
<1> DEFINE m == staff[p].work
           c == ShopCall("DAY", m, shop[m])
<1>1. m \in Merchant /\ shop[m] \in ShopRow /\ shop[m] # NoRow /\ shop[m].status = "USING"
  BY WorksRow DEF DayBeginMinute
<1>2. shop[m].profile \in granted[m] \/ m \in misled
  BY <1>1 DEF MerchantsInvariant, UsedIsApproved
<1>3. c \in Calls /\ SavesShop(c) /\ ReadsPage(c) /\ SavesStaff(c)
  BY <1>1, <1>2 DEF ShopCall, Calls, SavesShop, ReadsPage, SavesStaff, ShopOps
<1>4. Serve(w, c)
  BY DEF DayBeginMinute
<1>5. QED
  BY <1>3, <1>4, ServeKeeps

LEMMA ManageKeeps ==
  ASSUME MerchantsInvariant, NEW w \in Worker, NEW m \in Merchant,
         NEW status \in MerchantStatus, NEW profile \in Profile, Manage(w, m, status, profile)
  PROVE  MerchantsInvariant'
<1> DEFINE c == ShopCall("MANAGE", m, [status |-> status, profile |-> profile])
<1>1. shop[m] \in ShopRow /\ shop[m] # NoRow
  BY DEF Manage, MerchantsInvariant, MerchantsTypeOK
<1>2. c \in Calls /\ SavesShop(c) /\ ReadsPage(c) /\ SavesStaff(c)
  BY <1>1 DEF ShopCall, Calls, SavesShop, ReadsPage, SavesStaff, ShopOps, ShopRow, AuditStatus
<1>3. Serve(w, c)
  BY DEF Manage
<1>4. QED
  BY <1>2, <1>3, ServeKeeps

LEMMA AddCashierKeeps ==
  ASSUME MerchantsInvariant, NEW w \in Worker, NEW q \in Person, NEW p \in Person,
         AddCashier(w, q, p)
  PROVE  MerchantsInvariant'
<1> DEFINE c == [op |-> "ADD", shop |-> staff[q].work, person |-> p, seen |-> staff[p]]
<1>1. staff[q].work \in Merchant /\ shop[staff[q].work] # NoRow
  BY WorksRow DEF AddCashier, Rules
<1>2. staff[p] \in StaffRow \cup {NoRow} /\ IsFreeRow(staff[p])
  BY DEF AddCashier, IsFree, IsFreeRow, MerchantsInvariant, MerchantsTypeOK
<1>3. c \in Calls /\ SavesShop(c) /\ ReadsPage(c) /\ SavesStaff(c)
  BY <1>1, <1>2 DEF Calls, SavesShop, ReadsPage, SavesStaff, ShopOps
<1>4. Serve(w, c)
  BY DEF AddCashier
<1>5. QED
  BY <1>3, <1>4, ServeKeeps

LEMMA RemoveCashierKeeps ==
  ASSUME MerchantsInvariant, NEW w \in Worker, NEW q \in Person, NEW p \in Person,
         RemoveCashier(w, q, p)
  PROVE  MerchantsInvariant'
<1> DEFINE row == [staff[p] EXCEPT !.status = "DISABLED"]
           c == StaffCall(p, row)
<1>1. staff[q].work \in Merchant /\ shop[staff[q].work] # NoRow
  BY WorksRow DEF RemoveCashier, Rules
<1>2. staff[p] = [type |-> "CASHIER", status |-> "USING", work |-> staff[q].work]
  BY DEF RemoveCashier, IsCashier
<1>3. row = [type |-> "CASHIER", status |-> "DISABLED", work |-> staff[q].work]
  BY <1>2
<1>4. c \in Calls /\ SavesShop(c) /\ ReadsPage(c) /\ SavesStaff(c)
  BY <1>1, <1>2, <1>3 DEF StaffCall, Calls, SavesShop, ReadsPage, SavesStaff, ShopOps, Keeps, StaffRow
<1>5. Serve(w, c)
  BY DEF RemoveCashier
<1>6. QED
  BY <1>4, <1>5, ServeKeeps

LEMMA VoiceOnKeeps ==
  ASSUME MerchantsInvariant, NEW w \in Worker, NEW p \in Person, VoiceOn(w, p)
  PROVE  MerchantsInvariant'
<1> DEFINE c == StaffCall(p, staff[p])
<1>1. staff[p] \in StaffRow /\ staff[p] # NoRow /\ shop[staff[p].work] # NoRow
  BY WorksRow DEF VoiceOn
<1>2. c \in Calls /\ SavesShop(c) /\ ReadsPage(c) /\ SavesStaff(c)
  BY <1>1 DEF StaffCall, Calls, SavesShop, ReadsPage, SavesStaff, ShopOps, Keeps
<1>3. Serve(w, c)
  BY DEF VoiceOn
<1>4. QED
  BY <1>2, <1>3, ServeKeeps

\* A push, a page or a request that ends changes no row.
LEMMA EndKeeps ==
  ASSUME MerchantsInvariant, NEW w \in Worker, Tell(w) \/ Ends(w)
  PROVE  MerchantsInvariant'
<1>1. /\ call' = [call EXCEPT ![w] = Idle]
      /\ UNCHANGED <<shop, staff, owner, granted, misled, banned, managed, lost, overtaken>>
  BY DEF Tell, Ends
<1>2. told' \in [Merchant -> Words \cup {"NOTHING"}]
  <2>1. CASE Tell(w)
    <3>1. call[w].shop \in Merchant /\ call[w].word \in Words
      BY <2>1, CallFields DEF Tell, MerchantsInvariant, MerchantsTypeOK
    <3>2. QED
      BY <2>1, <3>1 DEF Tell, MerchantsInvariant, MerchantsTypeOK
  <2>2. CASE Ends(w)
    BY <2>2 DEF Ends, MerchantsInvariant, MerchantsTypeOK
  <2>3. QED
    BY <2>1, <2>2
<1>3. Idle \in Calls
  BY DEF Calls
<1>4. MerchantsTypeOK'
  BY <1>1, <1>2, <1>3 DEF MerchantsInvariant, MerchantsTypeOK
<1>5. CallsAreSound'
  BY <1>1 DEF MerchantsInvariant, MerchantsTypeOK, CallsAreSound, SavesShop, ReadsPage, SavesStaff,
       Idle, ShopOps
<1>6. QED
  BY <1>1, <1>4, <1>5 DEF MerchantsInvariant, HistoryTypeOK, AdminsOwn, OwnersRule, BannedExist,
                    IsAdmin, UsedIsApproved, DisabledStays

\* The person of a new merchant was nobody's administrator.
LEMMA CreateMerchantKeeps ==
  ASSUME MerchantsInvariant, NEW w \in Worker, NEW m \in Merchant, NEW p \in Person,
         NEW profile \in Profile, CreateMerchant(w, m, p, profile)
  PROVE  MerchantsInvariant'
<1> DEFINE row == NewShop(profile)
           tells == [op |-> "TELL", shop |-> m, word |-> "SUBMITTED"]
<1> USE DEF CreateMerchant, CanUse
<1>1. row \in ShopRow /\ row.status = "REVIEWING"
  BY DEF NewShop, ShopRow, MerchantStatus, AuditStatus
<1>2. NewAdmin(m) \in StaffRow /\ NewAdmin(m).type = "ADMIN" /\ NewAdmin(m).work = m
  BY DEF NewAdmin, StaffRow
<1>3. tells \in Calls
  BY DEF Calls, Words
<1>4. /\ shop' = [shop EXCEPT ![m] = row] /\ staff' = [staff EXCEPT ![p] = NewAdmin(m)]
      /\ call' = [call EXCEPT ![w] = tells] /\ owner' = [owner EXCEPT ![m] = p]
      /\ UNCHANGED <<granted, misled, banned, lost, overtaken>>
  OBVIOUS
<1> HIDE DEF row, tells
<1>5. row # NoRow /\ NewAdmin(m) # NoRow
  BY <1>1, <1>2, NoRowIsNone
<1>6. MerchantsTypeOK'
  BY <1>1, <1>2, <1>3, <1>4, <1>5 DEF MerchantsInvariant, MerchantsTypeOK, StaffRow
<1>7. HistoryTypeOK'
  BY <1>4 DEF MerchantsInvariant, HistoryTypeOK
<1>8. \A n \in Merchant : shop[n] # NoRow => shop'[n] # NoRow
  BY <1>4, <1>5 DEF MerchantsInvariant, MerchantsTypeOK
<1>9. CallsAreSound'
  <2> SUFFICES ASSUME NEW v \in Worker
               PROVE  SavesShop(call[v])' /\ ReadsPage(call[v])' /\ SavesStaff(call[v])'
    BY DEF CallsAreSound
  <2>1. CASE v = w
    BY <2>1, <1>4 DEF SavesShop, ReadsPage, SavesStaff, ShopOps, tells, MerchantsInvariant,
         MerchantsTypeOK
  <2>2. CASE v # w
    <3>1. call'[v] = call[v] /\ call[v] \in Calls
      BY <2>2, <1>4 DEF MerchantsInvariant, MerchantsTypeOK
    <3>2. SavesShop(call[v]) /\ ReadsPage(call[v]) /\ SavesStaff(call[v])
      BY DEF MerchantsInvariant, CallsAreSound
    <3>3. call[v].op = "LOOK" => call[v].shop \in Merchant \ {m}
      BY <3>1, <3>2, CallFields DEF ReadsPage
    <3>4. ReadsPage(call[v])'
      BY <3>1, <3>2, <3>3, <1>4 DEF ReadsPage, MerchantsInvariant, MerchantsTypeOK
    <3>5. SavesShop(call[v])'
      BY <3>1, <3>2, <1>4, <1>8, CallFields DEF SavesShop
    <3>6. SavesStaff(call[v])'
      BY <3>1, <3>2, <1>4, <1>8, CallFields DEF SavesStaff, StaffRow
    <3>7. QED
      BY <3>4, <3>5, <3>6
  <2>3. QED
    BY <2>1, <2>2
<1>10. \A n \in Merchant : ~ IsAdmin(p, n)
  BY DEF IsFree, IsAdmin
<1>11. \A q \in Person \ overtaken : ~ IsAdmin(q, m)
  BY DEF MerchantsInvariant, AdminsOwn
<1>12. AdminsOwn'
  BY <1>2, <1>4, <1>5, <1>8, <1>11 DEF AdminsOwn, IsAdmin, MerchantsInvariant, MerchantsTypeOK,
       HistoryTypeOK
<1>13. OwnersRule'
  BY <1>2, <1>4, <1>5, <1>10 DEF OwnersRule, IsAdmin, MerchantsInvariant, MerchantsTypeOK,
       HistoryTypeOK
<1>14. m \notin banned
  BY DEF MerchantsInvariant, BannedExist
<1>15. BannedExist' /\ DisabledStays'
  BY <1>4, <1>8, <1>14 DEF BannedExist, DisabledStays, MerchantsInvariant, MerchantsTypeOK,
       HistoryTypeOK
<1>16. UsedIsApproved'
  BY <1>1, <1>4 DEF UsedIsApproved, MerchantsInvariant, MerchantsTypeOK
<1>17. QED
  BY <1>6, <1>7, <1>9, <1>12, <1>13, <1>15, <1>16 DEF MerchantsInvariant

\* The row of a merchant is saved as the request has left it.
LEMMA SaveShopKeeps ==
  ASSUME MerchantsInvariant, NEW w \in Worker, SaveShop(w)
  PROVE  MerchantsInvariant'
<1> DEFINE c == call[w]
           m == call[w].shop
           next == IF c.op = "AUDIT" THEN [op |-> "TELL", shop |-> m, word |-> Verdict(w)]
                                     ELSE Idle
<1>1. /\ c \in Calls /\ c.op \in ShopOps /\ m \in Merchant
      /\ c.seen \in ShopRow /\ c.row \in ShopRow /\ c.row # NoRow
      /\ SavesShop(c) /\ ReadsPage(c)
  BY CallFields, NoRowIsNone DEF SaveShop, ShopOps, MerchantsInvariant, MerchantsTypeOK,
       CallsAreSound
<1>2. /\ shop' = [shop EXCEPT ![m] = c.row]
      /\ call' = [call EXCEPT ![w] = next]
      /\ granted' = IF Grants(c) THEN [granted EXCEPT ![m] = @ \cup {c.row.profile}]
                                 ELSE granted
      /\ misled' = IF Open(w, m) /\ (c.op \in {"AUDIT", "MANAGE"} \/ c.seen # shop[m])
                     THEN misled \cup {m} ELSE misled
      /\ banned' = IF c.op # "MANAGE" THEN banned
                   ELSE IF c.row.status = "DISABLED" THEN banned \cup {m} ELSE banned \ {m}
      /\ lost' = IF c.op = "MANAGE" THEN lost \ {m}
                 ELSE IF c.seen # shop[m] THEN lost \cup {m} ELSE lost
      /\ UNCHANGED <<staff, told, owner, overtaken>>
  BY DEF SaveShop, Columns
<1>3. next \in Calls /\ next.op \notin ShopOps \cup {"LOOK", "ADD", "STAFF"}
  BY <1>1 DEF Calls, Words, Verdict, Idle, ShopOps
<1>4. c.row.profile \in Profile
  BY <1>1 DEF ShopRow
<1> HIDE DEF next
<1>5. MerchantsTypeOK'
  BY <1>1, <1>2, <1>3 DEF MerchantsInvariant, MerchantsTypeOK
<1>6. HistoryTypeOK'
  BY <1>1, <1>2, <1>4 DEF MerchantsInvariant, HistoryTypeOK
<1>7. /\ \A n \in Merchant : shop[n] # NoRow => shop'[n] # NoRow
      /\ \A n \in Merchant : granted[n] \subseteq granted'[n]
      /\ misled \subseteq misled'
  BY <1>1, <1>2 DEF MerchantsInvariant, MerchantsTypeOK, HistoryTypeOK
<1>8. CallsAreSound'
  <2> SUFFICES ASSUME NEW v \in Worker
               PROVE  SavesShop(call[v])' /\ ReadsPage(call[v])' /\ SavesStaff(call[v])'
    BY DEF CallsAreSound
  <2>1. CASE v = w
    <3>1. call'[v] = next
      BY <2>1, <1>2 DEF MerchantsInvariant, MerchantsTypeOK
    <3>2. QED
      BY <3>1, <1>3 DEF SavesShop, ReadsPage, SavesStaff, ShopOps
  <2>2. CASE v # w
    <3>1. call'[v] = call[v] /\ call[v] \in Calls
      BY <2>2, <1>2 DEF MerchantsInvariant, MerchantsTypeOK
    <3>2. SavesShop(call[v]) /\ ReadsPage(call[v]) /\ SavesStaff(call[v])
      BY DEF MerchantsInvariant, CallsAreSound
    <3>3. SavesShop(call[v])'
      BY <3>1, <3>2, <1>7, CallFields DEF SavesShop, ShopOps
    <3>4. SavesStaff(call[v])'
      BY <3>1, <3>2, <1>2, <1>7, CallFields DEF SavesStaff, StaffRow
    <3>5. ASSUME call[v].op = "LOOK", call[v].shop \notin misled', call[v].seen.status = "REVIEWING"
          PROVE  shop'[call[v].shop] = call[v].seen
      <4>1. call[v].shop \in Merchant /\ shop[call[v].shop] = call[v].seen
        BY <3>1, <3>2, <3>5, <1>7, CallFields DEF ReadsPage
      <4>2. call[v].shop # m
        <5> SUFFICES ASSUME call[v].shop = m PROVE FALSE
          OBVIOUS
        <5>1. Open(w, m)
          BY <2>2, <3>5 DEF Open
        <5>2. c.op \in {"MODIFY", "DAY"} /\ c.seen = shop[m]
          BY <5>1, <3>5, <1>1, <1>2 DEF ShopOps
        <5>3. QED
          BY <5>2, <4>1, <3>5, <1>1 DEF SavesShop
      <4>3. QED
        BY <4>1, <4>2, <1>2 DEF MerchantsInvariant, MerchantsTypeOK
    <3>6. ReadsPage(call[v])'
      BY <3>1, <3>2, <3>5, <1>7, CallFields DEF ReadsPage
    <3>7. QED
      BY <3>3, <3>4, <3>6
  <2>3. QED
    BY <2>1, <2>2
<1>9. AdminsOwn' /\ OwnersRule' /\ BannedExist'
  <2>1. AdminsOwn'
    BY <1>2, <1>7 DEF MerchantsInvariant, AdminsOwn, IsAdmin
  <2>2. shop[m] # NoRow
    BY <1>1 DEF SavesShop
  <2>3. \A n \in Merchant : shop'[n] # NoRow => shop[n] # NoRow
    BY <1>2, <2>2 DEF MerchantsInvariant, MerchantsTypeOK
  <2>4. OwnersRule'
    BY <1>2, <2>3 DEF MerchantsInvariant, OwnersRule, IsAdmin
  <2>5. BannedExist'
    BY <1>1, <1>2, <1>7, <2>2 DEF MerchantsInvariant, BannedExist, HistoryTypeOK
  <2>6. QED
    BY <2>1, <2>4, <2>5
<1>10. UsedIsApproved'
  <2> SUFFICES ASSUME NEW n \in Merchant, n \notin misled',
                      shop'[n] # NoRow, shop'[n].status = "USING"
               PROVE  shop'[n].profile \in granted'[n]
    BY DEF UsedIsApproved
  <2>1. CASE n # m
    BY <2>1, <1>2, <1>7 DEF MerchantsInvariant, MerchantsTypeOK, UsedIsApproved
  <2>2. CASE n = m
    <3>1. shop'[n] = c.row
      BY <2>2, <1>2 DEF MerchantsInvariant, MerchantsTypeOK
    <3>2. CASE c.op \in {"AUDIT", "MANAGE"}
      <4>1. Grants(c)
        BY <3>1, <3>2, <2>2, <1>1, <1>7 DEF Grants, ReadsPage
      <4>2. QED
        BY <3>1, <4>1, <2>2, <1>1, <1>2 DEF MerchantsInvariant, HistoryTypeOK
    <3>3. CASE c.op = "MODIFY"
      BY <3>1, <3>3, <1>1 DEF SavesShop
    <3>4. CASE c.op = "DAY"
      BY <3>1, <3>4, <2>2, <1>1, <1>7 DEF SavesShop
    <3>5. QED
      BY <1>1, <3>2, <3>3, <3>4 DEF ShopOps
  <2>3. QED
    BY <2>1, <2>2
<1>11. DisabledStays'
  <2> SUFFICES ASSUME NEW n \in banned', n \notin lost'
               PROVE  shop'[n].status = "DISABLED"
    BY DEF DisabledStays
  <2>0. n \in Merchant
    BY <1>6 DEF HistoryTypeOK
  <2>1. CASE n # m
    <3>1. n \in banned /\ n \notin lost /\ shop'[n] = shop[n]
      BY <2>0, <2>1, <1>2 DEF MerchantsInvariant, MerchantsTypeOK
    <3>2. QED
      BY <3>1 DEF MerchantsInvariant, DisabledStays
  <2>2. CASE n = m /\ c.op = "MANAGE"
    BY <2>2, <1>1, <1>2 DEF MerchantsInvariant, MerchantsTypeOK
  <2>3. CASE n = m /\ c.op # "MANAGE"
    <3>1. n \in banned /\ n \notin lost /\ c.seen = shop[n]
      BY <2>3, <1>2
    <3>2. shop[n].status = "DISABLED"
      BY <3>1 DEF MerchantsInvariant, DisabledStays
    <3>3. QED
      BY <3>1, <3>2, <2>3, <1>1 DEF SavesShop
  <2>4. QED
    BY <2>1, <2>2, <2>3
<1>12. QED
  BY <1>5, <1>6, <1>8, <1>9, <1>10, <1>11 DEF MerchantsInvariant

\* The row of a person is looked up again; whoever has changed meanwhile is
\* overtaken.
LEMMA FindCashierKeeps ==
  ASSUME MerchantsInvariant, NEW w \in Worker, FindCashier(w)
  PROVE  MerchantsInvariant'
<1> DEFINE c == call[w]
           p == call[w].person
           row == [type |-> IF staff[p] = NoRow THEN "CASHIER" ELSE staff[p].type,
                   status |-> "USING", work |-> call[w].shop]
           next == StaffCall(p, row)
<1>1. /\ c \in Calls /\ c.op = "ADD" /\ c.shop \in Merchant /\ p \in Person
      /\ shop[c.shop] # NoRow /\ IsFreeRow(c.seen) /\ staff[p] \in StaffRow \cup {NoRow}
  BY CallFields DEF FindCashier, MerchantsInvariant, MerchantsTypeOK, CallsAreSound, SavesStaff
<1>2. /\ call' = [call EXCEPT ![w] = next]
      /\ overtaken' = IF c.seen # staff[p] THEN overtaken \cup {p} ELSE overtaken
      /\ UNCHANGED <<shop, staff, told, owner, granted, misled, banned, lost>>
  BY DEF FindCashier
<1>3. row \in StaffRow /\ row.work = c.shop
  BY <1>1 DEF StaffRow
<1>4. c.seen = staff[p] => Keeps(staff[p], row)
  BY <1>1 DEF IsFreeRow, Keeps
<1> HIDE DEF row
<1>5. /\ next \in Calls /\ next.op = "STAFF" /\ next.person = p
      /\ next.seen = staff[p] /\ next.row = row
  BY <1>1, <1>3 DEF StaffCall, Calls
<1> HIDE DEF next
<1>6. MerchantsTypeOK' /\ HistoryTypeOK'
  BY <1>2, <1>5 DEF MerchantsInvariant, MerchantsTypeOK, HistoryTypeOK
<1>7. overtaken \subseteq overtaken' /\ (p \notin overtaken' => c.seen = staff[p])
  BY <1>2
<1>8. CallsAreSound'
  <2> SUFFICES ASSUME NEW v \in Worker
               PROVE  SavesShop(call[v])' /\ ReadsPage(call[v])' /\ SavesStaff(call[v])'
    BY DEF CallsAreSound
  <2>1. CASE v = w
    <3>1. call'[v] = next
      BY <2>1, <1>2 DEF MerchantsInvariant, MerchantsTypeOK
    <3>2. QED
      BY <3>1, <1>1, <1>2, <1>3, <1>4, <1>5, <1>7 DEF SavesShop, ReadsPage, SavesStaff, ShopOps
  <2>2. CASE v # w
    <3>1. call'[v] = call[v]
      BY <2>2, <1>2 DEF MerchantsInvariant, MerchantsTypeOK
    <3>2. SavesShop(call[v]) /\ ReadsPage(call[v]) /\ SavesStaff(call[v])
      BY DEF MerchantsInvariant, CallsAreSound
    <3>3. QED
      BY <3>1, <3>2, <1>2, <1>7 DEF SavesShop, ReadsPage, SavesStaff
  <2>3. QED
    BY <2>1, <2>2
<1>9. AdminsOwn' /\ OwnersRule' /\ BannedExist' /\ UsedIsApproved' /\ DisabledStays'
  BY <1>2, <1>7 DEF MerchantsInvariant, AdminsOwn, OwnersRule, BannedExist, IsAdmin,
       UsedIsApproved, DisabledStays
<1>10. QED
  BY <1>6, <1>8, <1>9 DEF MerchantsInvariant

\* The row of a person is saved: it keeps an administrator, or the person is
\* overtaken.
LEMMA SaveStaffKeeps ==
  ASSUME MerchantsInvariant, NEW w \in Worker, SaveStaff(w)
  PROVE  MerchantsInvariant'
<1> DEFINE c == call[w]
           p == call[w].person
           sentBack == c.seen = NoRow /\ staff[p] # NoRow
<1>1. /\ c \in Calls /\ c.op = "STAFF" /\ p \in Person /\ c.row \in StaffRow /\ c.row # NoRow
      /\ shop[c.row.work] # NoRow
      /\ p \notin overtaken => Keeps(c.seen, c.row)
  BY CallFields, NoRowIsNone
     DEF SaveStaff, MerchantsInvariant, MerchantsTypeOK, CallsAreSound, SavesStaff
<1>2. /\ call' = [call EXCEPT ![w] = Idle]
      /\ staff' = IF sentBack THEN staff ELSE [staff EXCEPT ![p] = c.row]
      /\ overtaken' = IF ~sentBack /\ c.seen # staff[p] THEN overtaken \cup {p} ELSE overtaken
      /\ UNCHANGED <<shop, told, owner, granted, misled, banned, lost>>
  BY DEF SaveStaff
<1>3. MerchantsTypeOK' /\ HistoryTypeOK'
  <2>1. Idle \in Calls
    BY DEF Calls
  <2>2. QED
    BY <2>1, <1>1, <1>2 DEF MerchantsInvariant, MerchantsTypeOK, HistoryTypeOK
<1>4. overtaken \subseteq overtaken'
  BY <1>2
<1>5. CallsAreSound'
  <2> SUFFICES ASSUME NEW v \in Worker
               PROVE  SavesShop(call[v])' /\ ReadsPage(call[v])' /\ SavesStaff(call[v])'
    BY DEF CallsAreSound
  <2>1. CASE v = w
    BY <2>1, <1>2 DEF SavesShop, ReadsPage, SavesStaff, Idle, ShopOps, MerchantsInvariant,
         MerchantsTypeOK
  <2>2. CASE v # w
    <3>1. call'[v] = call[v]
      BY <2>2, <1>2 DEF MerchantsInvariant, MerchantsTypeOK
    <3>2. SavesShop(call[v]) /\ ReadsPage(call[v]) /\ SavesStaff(call[v])
      BY DEF MerchantsInvariant, CallsAreSound
    <3>3. QED
      BY <3>1, <3>2, <1>2, <1>4 DEF SavesShop, ReadsPage, SavesStaff
  <2>3. QED
    BY <2>1, <2>2
<1>6. \A q \in Person \ overtaken', m \in Merchant : IsAdmin(q, m)' <=> IsAdmin(q, m)
  <2> SUFFICES ASSUME NEW q \in Person \ overtaken', NEW m \in Merchant
               PROVE  IsAdmin(q, m)' <=> IsAdmin(q, m)
    OBVIOUS
  <2>1. CASE q # p \/ sentBack
    BY <2>1, <1>2 DEF IsAdmin, MerchantsInvariant, MerchantsTypeOK
  <2>2. CASE q = p /\ ~sentBack
    <3>1. c.seen = staff[p] /\ staff'[p] = c.row /\ Keeps(staff[p], c.row)
      BY <2>2, <1>1, <1>2 DEF MerchantsInvariant, MerchantsTypeOK
    <3>2. QED
      BY <3>1, <2>2, <1>1 DEF IsAdmin, Keeps
  <2>3. QED
    BY <2>1, <2>2
<1>7. AdminsOwn' /\ OwnersRule'
  BY <1>2, <1>4, <1>6 DEF MerchantsInvariant, AdminsOwn, OwnersRule
<1>8. BannedExist' /\ UsedIsApproved' /\ DisabledStays'
  BY <1>2 DEF MerchantsInvariant, BannedExist, UsedIsApproved, DisabledStays
<1>9. QED
  BY <1>3, <1>5, <1>7, <1>8 DEF MerchantsInvariant

LEMMA StepKeeps ==
  ASSUME MerchantsInvariant, [Next]_vars
  PROVE  MerchantsInvariant'
<1>1. CASE Next
  <2> SUFFICES ASSUME NEW w \in Worker,
                      MerchantRequest(w) \/ StaffRequest(w)
                        \/ SaveShop(w) \/ Tell(w) \/ Ends(w) \/ FindCashier(w) \/ SaveStaff(w)
               PROVE  MerchantsInvariant'
    BY <1>1 DEF Next
  <2>1. CASE MerchantRequest(w)
    BY <2>1, CreateMerchantKeeps, LookKeeps, AuditKeeps, ModifyKeeps, DayKeeps, ManageKeeps
       DEF MerchantRequest
  <2>2. CASE StaffRequest(w)
    BY <2>2, AddCashierKeeps, RemoveCashierKeeps, VoiceOnKeeps DEF StaffRequest
  <2>3. QED
    BY <2>1, <2>2, SaveShopKeeps, EndKeeps, FindCashierKeeps, SaveStaffKeeps
<1>2. CASE UNCHANGED vars
  BY <1>2 DEF vars, MerchantsInvariant, MerchantsTypeOK, HistoryTypeOK, CallsAreSound, SavesShop,
       ReadsPage, SavesStaff, AdminsOwn, OwnersRule, BannedExist, IsAdmin, UsedIsApproved, DisabledStays
<1>3. QED
  BY <1>1, <1>2

\* The invariant that makes the properties below inductive.
THEOREM MerchantsCorrect == Spec => []MerchantsInvariant
<1>1. Init => MerchantsInvariant
  BY InitCorrect
<1>2. MerchantsInvariant /\ [Next]_vars => MerchantsInvariant'
  BY StepKeeps
<1>3. QED
  BY <1>1, <1>2, PTL DEF Spec

\* Every row and request keeps its type, and nobody works for a merchant that
\* does not exist.
THEOREM MerchantsTypeCorrect == Spec => []MerchantsTypeOK
<1>1. MerchantsInvariant => MerchantsTypeOK
  BY DEF MerchantsInvariant
<1>2. QED
  BY <1>1, MerchantsCorrect, PTL

\* A merchant in use shows a profile that an auditor approved whose page showed
\* it, or an administrator typed, whatever requests overlap; only when an
\* auditor's page had shown a merchant that was not in review, or that somebody
\* else decided about while it was open, may it be another one
\* (AuditMerchantViewSet, audit_merchant, MerchantSerializer.update,
\* day_begin_minute).
THEOREM UsedIsApprovedCorrect == Spec => []UsedIsApproved
<1>1. MerchantsInvariant => UsedIsApproved
  BY DEF MerchantsInvariant
<1>2. QED
  BY <1>1, MerchantsCorrect, PTL

\* Nobody but the platform brings a disabled merchant back, save a request that
\* overtook the disabling.
THEOREM DisabledStaysCorrect == Spec => []DisabledStays
<1>1. MerchantsInvariant => DisabledStays
  BY DEF MerchantsInvariant
<1>2. QED
  BY <1>1, MerchantsCorrect, PTL

\* A merchant has one administrator, the one it was registered for, as far as
\* rows of staff were saved by requests that had read them.
THEOREM OneAdminEachCorrect == Spec => []OneAdminEach
<1>1. MerchantsInvariant => OneAdminEach
  <2> SUFFICES ASSUME MerchantsInvariant, NEW m \in Merchant,
                      shop[m] # NoRow, owner[m] \notin overtaken
               PROVE  Admins(m) \ overtaken = {owner[m]}
    BY DEF OneAdminEach
  <2>1. owner[m] \in Person /\ IsAdmin(owner[m], m)
    BY DEF MerchantsInvariant, OwnersRule
  <2>2. \A p \in Person \ overtaken : IsAdmin(p, m) => p = owner[m]
    BY DEF MerchantsInvariant, AdminsOwn
  <2>3. QED
    BY <2>1, <2>2 DEF Admins, IsAdmin
<1>2. QED
  BY <1>1, MerchantsCorrect, PTL

-----------------------------------------------------------------------------
(* What a merchant is told of its audit is true, unless pushes or saves     *)
(* crossed each other or the last push did not arrive.                      *)

\* A word about the audit that fits the row of the merchant
Fits(word, row) ==
  /\ word = "NOTHING" => row = NoRow
  /\ word # "NOTHING" => row # NoRow
  /\ word = "SUBMITTED" => row.status = "REVIEWING"
  /\ word = "APPROVED" => row.status = "USING"
  /\ word = "REFUSED" => row.status # "USING"

\* What the requests under way have read and will write: an audit answers a
\* merchant in review, a profile is changed after it was refused, the minute of
\* the day changes nothing an audit is about.
ReadsRight(c) ==
  /\ c.op = "AUDIT" => c.seen.status = "REVIEWING"
  /\ c.op = "MODIFY" => c.seen.status = "REJECTED"
  /\ c.op = "DAY" => c.row = c.seen
  /\ c.op = "TELL" => shop[c.shop] # NoRow

Undisturbed(m) == m \notin managed \cup lost \cup crossed

\* One push at most is under way; it, or else the last one if it arrived, is
\* true.
WordFits(m) ==
  /\ \A w \in Waiting(m) : Fits(call[w].word, shop[m]) /\ Waiting(m) = {w}
  /\ Waiting(m) = {} /\ m \notin missed => Fits(told[m], shop[m])

AuditInvariant ==
  /\ told \in [Merchant -> Words \cup {"NOTHING"}]
  /\ \A w \in Worker : ReadsRight(call[w])
  /\ \A m \in Merchant : Undisturbed(m) => WordFits(m)

----------------------------------------------------------------------------
LEMMA AuditInit == Init => AuditInvariant
<1> SUFFICES ASSUME Init PROVE AuditInvariant
  OBVIOUS
<1>1. \A w \in Worker : call[w] = Idle
  BY DEF Init
<1>2. \A m \in Merchant : Waiting(m) = {}
  BY <1>1 DEF Waiting, Idle
<1>3. \A m \in Merchant : Fits(told[m], shop[m])
  BY DEF Init, Fits
<1>4. QED
  BY <1>1, <1>2, <1>3 DEF AuditInvariant, ReadsRight, WordFits, Init, Idle, Words

\* Requests that do not tell leave those who wait alone.
LEMMA SameWaiting ==
  ASSUME NEW w \in Worker, NEW next, call' = [call EXCEPT ![w] = next],
         call \in [Worker -> Calls],
         call[w].op # "TELL", next.op # "TELL", NEW m \in Merchant
  PROVE  /\ Waiting(m)' = Waiting(m)
         /\ \A v \in Waiting(m) : call'[v] = call[v]
BY DEF Waiting

LEMMA AuditServeKeeps ==
  ASSUME MerchantsInvariant, AuditInvariant, NEW w \in Worker, NEW c \in Calls, Serve(w, c),
         ReadsRight(c), c.op # "TELL"
  PROVE  AuditInvariant'
<1>1. /\ call[w] = Idle /\ call' = [call EXCEPT ![w] = c]
      /\ UNCHANGED <<shop, told, managed, lost, crossed, missed>>
  BY DEF Serve, history
<1>2. call \in [Worker -> Calls] /\ call[w].op # "TELL"
  BY <1>1 DEF MerchantsInvariant, MerchantsTypeOK, Idle
<1>3. \A m \in Merchant : Waiting(m)' = Waiting(m) /\ \A v \in Waiting(m) : call'[v] = call[v]
  BY <1>1, <1>2, SameWaiting
<1>4. \A v \in Worker : ReadsRight(call[v])'
  BY <1>1, <1>2 DEF AuditInvariant, ReadsRight
<1>5. \A m \in Merchant : Undisturbed(m)' => WordFits(m)'
  BY <1>1, <1>3 DEF AuditInvariant, Undisturbed, WordFits
<1>6. QED
  BY <1>1, <1>4, <1>5 DEF AuditInvariant

\* Each request to change a row of a merchant begins with what it has read.
LEMMA AuditRequestKeeps ==
  ASSUME MerchantsInvariant, AuditInvariant, NEW w \in Worker, NEW m \in Merchant,
         NEW p \in Person, NEW profile \in Profile,
         \/ Look(w, m)
         \/ \E verdict \in AuditStatus : AuditMerchant(w, verdict)
         \/ Modify(w, p, profile)
         \/ DayBeginMinute(w, p)
         \/ \E status \in MerchantStatus : Manage(w, m, status, profile)
  PROVE  AuditInvariant'
<1>0. ASSUME Look(w, m)
      PROVE  AuditInvariant'
  <2> DEFINE c == [op |-> "LOOK", shop |-> m, seen |-> shop[m]]
  <2>1. shop[m] \in ShopRow
    BY <1>0 DEF Look, MerchantsInvariant, MerchantsTypeOK
  <2>2. c \in Calls /\ ReadsRight(c) /\ c.op # "TELL"
    BY <2>1 DEF Calls, ReadsRight
  <2>3. Serve(w, c)
    BY <1>0 DEF Look
  <2>4. QED
    BY <2>2, <2>3, AuditServeKeeps
<1>1. ASSUME NEW verdict \in AuditStatus, AuditMerchant(w, verdict)
      PROVE  AuditInvariant'
  <2> DEFINE n == call[w].shop
             c == [op |-> "AUDIT", shop |-> n, seen |-> shop[n],
                   row |-> [shop[n] EXCEPT !.status = verdict], shown |-> call[w].seen.profile]
  <2>1. /\ call' = [call EXCEPT ![w] = c] /\ call[w].op = "LOOK"
        /\ shop[n].status = "REVIEWING"
        /\ UNCHANGED <<shop, told, managed, lost, crossed, missed>>
    BY <1>1 DEF AuditMerchant, InReview
  <2>2. ReadsRight(c) /\ c.op = "AUDIT"
    BY <2>1 DEF ReadsRight
  <2> HIDE DEF c
  <2>3. call \in [Worker -> Calls]
    BY DEF MerchantsInvariant, MerchantsTypeOK
  <2>4. \A k \in Merchant : Waiting(k)' = Waiting(k) /\ \A v \in Waiting(k) : call'[v] = call[v]
    BY <2>1, <2>2, <2>3, SameWaiting
  <2>5. \A v \in Worker : ReadsRight(call[v])'
    BY <2>1, <2>2, <2>3 DEF AuditInvariant, ReadsRight
  <2>6. \A k \in Merchant : Undisturbed(k)' => WordFits(k)'
    BY <2>1, <2>4 DEF AuditInvariant, Undisturbed, WordFits
  <2>7. QED
    BY <2>1, <2>5, <2>6 DEF AuditInvariant
<1>2. ASSUME Modify(w, p, profile)
      PROVE  AuditInvariant'
  <2> DEFINE c == ShopCall("MODIFY", staff[p].work, Changed(profile))
  <2>1. /\ staff[p].work \in Merchant /\ shop[staff[p].work] \in ShopRow
        /\ shop[staff[p].work].status = "REJECTED"
    BY <1>2, WorksRow DEF Modify, Rules
  <2>2. c \in Calls /\ ReadsRight(c) /\ c.op # "TELL"
    BY <2>1 DEF ShopCall, Changed, NewShop, Calls, ReadsRight, ShopRow, MerchantStatus,
         AuditStatus
  <2>3. Serve(w, c)
    BY <1>2 DEF Modify
  <2>4. QED
    BY <2>2, <2>3, AuditServeKeeps
<1>3. ASSUME DayBeginMinute(w, p)
      PROVE  AuditInvariant'
  <2> DEFINE c == ShopCall("DAY", staff[p].work, shop[staff[p].work])
  <2>1. staff[p].work \in Merchant /\ shop[staff[p].work] \in ShopRow
    BY <1>3, WorksRow DEF DayBeginMinute
  <2>2. c \in Calls /\ ReadsRight(c) /\ c.op # "TELL"
    BY <2>1 DEF ShopCall, Calls, ReadsRight
  <2>3. Serve(w, c)
    BY <1>3 DEF DayBeginMinute
  <2>4. QED
    BY <2>2, <2>3, AuditServeKeeps
<1>4. ASSUME NEW status \in MerchantStatus, Manage(w, m, status, profile)
      PROVE  AuditInvariant'
  <2> DEFINE c == ShopCall("MANAGE", m, [status |-> status, profile |-> profile])
  <2>1. shop[m] \in ShopRow
    BY <1>4 DEF Manage, MerchantsInvariant, MerchantsTypeOK
  <2>2. c \in Calls /\ ReadsRight(c) /\ c.op # "TELL"
    BY <2>1 DEF ShopCall, Calls, ReadsRight, ShopRow, AuditStatus
  <2>3. Serve(w, c)
    BY <1>4 DEF Manage
  <2>4. QED
    BY <2>2, <2>3, AuditServeKeeps
<1>5. QED
  BY <1>0, <1>1, <1>2, <1>3, <1>4

\* Requests about staff neither tell nor touch a merchant.
LEMMA StaffKeepsWords ==
  ASSUME MerchantsInvariant, AuditInvariant, NEW w \in Worker,
         StaffRequest(w) \/ FindCashier(w) \/ SaveStaff(w)
  PROVE  AuditInvariant'
<1>1. PICK next : /\ call' = [call EXCEPT ![w] = next]
                  /\ next.op \in {"ADD", "STAFF", "IDLE"}
  BY DEF StaffRequest, AddCashier, RemoveCashier, VoiceOn, FindCashier, SaveStaff, Serve,
         StaffCall, Idle
<1>2. call[w].op # "TELL" /\ UNCHANGED <<shop, told, managed, lost, crossed, missed>>
  <2>1. CASE StaffRequest(w)
    <3>1. \E c : Serve(w, c)
      BY <2>1 DEF StaffRequest, AddCashier, RemoveCashier, VoiceOn
    <3>2. QED
      BY <3>1 DEF Serve, history, Idle
  <2>2. CASE FindCashier(w)
    BY <2>2 DEF FindCashier
  <2>3. CASE SaveStaff(w)
    BY <2>3 DEF SaveStaff
  <2>4. QED
    BY <2>1, <2>2, <2>3
<1>3. call \in [Worker -> Calls]
  BY DEF MerchantsInvariant, MerchantsTypeOK
<1>4. \A m \in Merchant : Waiting(m)' = Waiting(m) /\ \A v \in Waiting(m) : call'[v] = call[v]
  BY <1>1, <1>2, <1>3, SameWaiting
<1>5. \A v \in Worker : ReadsRight(call[v])'
  BY <1>1, <1>2, <1>3 DEF AuditInvariant, ReadsRight
<1>6. \A m \in Merchant : Undisturbed(m)' => WordFits(m)'
  BY <1>2, <1>4 DEF AuditInvariant, Undisturbed, WordFits
<1>7. QED
  BY <1>2, <1>5, <1>6 DEF AuditInvariant

----------------------------------------------------------------------------
\* The word of a push is told, and no other was under way.
LEMMA TellKeepsWords ==
  ASSUME MerchantsInvariant, AuditInvariant, NEW w \in Worker, Tell(w)
  PROVE  AuditInvariant'
<1> DEFINE n == call[w].shop
<1>1. /\ call[w].op = "TELL" /\ n \in Merchant /\ call[w].word \in Words
      /\ call \in [Worker -> Calls] /\ w \in Waiting(n)
  BY CallFields DEF Tell, Waiting, MerchantsInvariant, MerchantsTypeOK
<1>2. /\ told' = [told EXCEPT ![n] = call[w].word]
      /\ call' = [call EXCEPT ![w] = Idle]
      /\ missed' = missed \ {n}
      /\ UNCHANGED <<shop, managed, lost, crossed>>
  BY DEF Tell
<1>3. told' \in [Merchant -> Words \cup {"NOTHING"}]
  BY <1>1, <1>2 DEF AuditInvariant
<1>4. \A v \in Worker : ReadsRight(call[v])'
  BY <1>1, <1>2 DEF AuditInvariant, ReadsRight, Idle
<1>5. ASSUME NEW m \in Merchant, Undisturbed(m)'
      PROVE  WordFits(m)'
  <2>1. Undisturbed(m) /\ WordFits(m)
    BY <1>2, <1>5 DEF Undisturbed, AuditInvariant
  <2>2. CASE m = n
    <3>1. Waiting(m) = {w} /\ Fits(call[w].word, shop[m])
      BY <1>1, <2>1, <2>2 DEF WordFits
    <3>2. Waiting(m)' = {}
      BY <1>1, <1>2, <3>1 DEF Waiting, Idle
    <3>3. told'[m] = call[w].word
      BY <1>2, <2>2 DEF AuditInvariant
    <3>4. QED
      BY <1>2, <3>1, <3>2, <3>3 DEF WordFits
  <2>3. CASE m # n
    <3>1. Waiting(m)' = Waiting(m) /\ \A v \in Waiting(m) : call'[v] = call[v]
      BY <1>1, <1>2, <2>3 DEF Waiting, Idle
    <3>2. told'[m] = told[m] /\ (m \in missed' <=> m \in missed)
      BY <1>2, <2>3 DEF AuditInvariant
    <3>3. UNCHANGED shop
      BY <1>2
    <3>4. QED
      BY <2>1, <3>1, <3>2, <3>3 DEF WordFits
  <2>4. QED
    BY <2>2, <2>3
<1>6. QED
  BY <1>3, <1>4, <1>5 DEF AuditInvariant

\* A push that does not arrive leaves the word that was told before.
LEMMA EndsKeepsWords ==
  ASSUME MerchantsInvariant, AuditInvariant, NEW w \in Worker, Ends(w)
  PROVE  AuditInvariant'
<1> DEFINE n == call[w].shop
<1>1. /\ call' = [call EXCEPT ![w] = Idle] /\ call \in [Worker -> Calls]
      /\ missed' = IF call[w].op = "TELL" THEN missed \cup {n} ELSE missed
      /\ UNCHANGED <<shop, told, managed, lost, crossed>>
  BY DEF Ends, MerchantsInvariant, MerchantsTypeOK
<1>2. \A v \in Worker : ReadsRight(call[v])'
  BY <1>1 DEF AuditInvariant, ReadsRight, Idle
<1>3. ASSUME NEW m \in Merchant, Undisturbed(m)'
      PROVE  WordFits(m)'
  <2>1. WordFits(m)
    BY <1>1, <1>3 DEF Undisturbed, AuditInvariant
  <2>2. CASE w \in Waiting(m)
    <3>1. Waiting(m) = {w} /\ m \in missed'
      BY <1>1, <2>1, <2>2 DEF WordFits, Waiting
    <3>2. Waiting(m)' = {}
      BY <1>1, <3>1 DEF Waiting, Idle
    <3>3. QED
      BY <3>1, <3>2 DEF WordFits
  <2>3. CASE w \notin Waiting(m)
    <3>1. Waiting(m)' = Waiting(m) /\ \A v \in Waiting(m) : call'[v] = call[v]
      BY <1>1, <2>3 DEF Waiting, Idle
    <3>2. missed \subseteq missed'
      BY <1>1
    <3>3. QED
      BY <1>1, <2>1, <3>1, <3>2 DEF WordFits
  <2>4. QED
    BY <2>2, <2>3
<1>4. QED
  BY <1>1, <1>2, <1>3 DEF AuditInvariant

\* Nobody waits to tell a merchant that does not exist.
LEMMA CreateKeepsWords ==
  ASSUME MerchantsInvariant, AuditInvariant, NEW w \in Worker, NEW n \in Merchant,
         NEW p \in Person, NEW profile \in Profile, CreateMerchant(w, n, p, profile)
  PROVE  AuditInvariant'
<1> DEFINE row == NewShop(profile)
           tells == [op |-> "TELL", shop |-> n, word |-> "SUBMITTED"]
<1>1. /\ call[w] = Idle /\ shop[n] = NoRow /\ call \in [Worker -> Calls]
      /\ shop \in [Merchant -> ShopRow \cup {NoRow}]
  BY DEF CreateMerchant, CanUse, MerchantsInvariant, MerchantsTypeOK
<1>2. /\ shop' = [shop EXCEPT ![n] = row] /\ call' = [call EXCEPT ![w] = tells]
      /\ UNCHANGED <<told, managed, lost, crossed, missed>>
  BY DEF CreateMerchant
<1>3. row # NoRow /\ row.status = "REVIEWING"
  BY NoRowIsNone DEF NewShop, ShopRow, MerchantStatus, AuditStatus
<1>4. tells.op = "TELL" /\ tells.shop = n /\ tells.word = "SUBMITTED"
  OBVIOUS
<1> HIDE DEF row, tells
<1>5. \A v \in Worker : ReadsRight(call[v])'
  <2> SUFFICES ASSUME NEW v \in Worker PROVE ReadsRight(call[v])'
    OBVIOUS
  <2>1. CASE v = w
    BY <2>1, <1>1, <1>2, <1>3, <1>4 DEF ReadsRight
  <2>2. CASE v # w
    <3>1. call'[v] = call[v] /\ call[v] \in Calls
      BY <2>2, <1>1, <1>2
    <3>2. call[v].op = "TELL" => shop'[call[v].shop] # NoRow
      BY <3>1, <1>1, <1>2, <1>3, CallFields DEF AuditInvariant, ReadsRight
    <3>3. QED
      BY <3>1, <3>2 DEF AuditInvariant, ReadsRight
  <2>3. QED
    BY <2>1, <2>2
<1>6. ASSUME NEW m \in Merchant, Undisturbed(m)'
      PROVE  WordFits(m)'
  <2>1. Undisturbed(m) /\ WordFits(m)
    BY <1>2, <1>6 DEF Undisturbed, AuditInvariant
  <2>2. CASE m = n
    <3>1. Waiting(m) = {}
      BY <2>2, <1>1 DEF Waiting, AuditInvariant, ReadsRight
    <3>2. Waiting(m)' = {w} /\ call'[w] = tells /\ shop'[m] = row
      BY <2>2, <3>1, <1>1, <1>2, <1>4 DEF Waiting
    <3>3. Fits(tells.word, row)
      BY <1>3, <1>4 DEF Fits
    <3>4. QED
      BY <3>2, <3>3 DEF WordFits
  <2>3. CASE m # n
    <3>1. Waiting(m)' = Waiting(m) /\ \A v \in Waiting(m) : call'[v] = call[v]
      BY <1>1, <1>2, <1>4, <2>3 DEF Waiting, Idle
    <3>2. shop'[m] = shop[m]
      BY <1>1, <1>2, <2>3
    <3>3. QED
      BY <1>2, <2>1, <3>1, <3>2 DEF WordFits
  <2>4. QED
    BY <2>2, <2>3
<1>7. QED
  BY <1>2, <1>5, <1>6 DEF AuditInvariant

\* A save that read the row as it is makes true what is told of it next.
LEMMA SaveKeepsWords ==
  ASSUME MerchantsInvariant, AuditInvariant, NEW w \in Worker, SaveShop(w)
  PROVE  AuditInvariant'
<1> DEFINE c == call[w]
           n == call[w].shop
           next == IF c.op = "AUDIT" THEN [op |-> "TELL", shop |-> n, word |-> Verdict(w)]
                                     ELSE Idle
<1>1. /\ c \in Calls /\ c.op \in ShopOps /\ n \in Merchant
      /\ c.seen \in ShopRow /\ c.row \in ShopRow /\ c.row # NoRow
      /\ ReadsRight(c) /\ SavesShop(c)
      /\ call \in [Worker -> Calls] /\ shop \in [Merchant -> ShopRow \cup {NoRow}]
  BY CallFields, NoRowIsNone DEF SaveShop, ShopOps, MerchantsInvariant, MerchantsTypeOK,
       CallsAreSound, AuditInvariant
<1>2. /\ shop' = [shop EXCEPT ![n] = c.row]
      /\ call' = [call EXCEPT ![w] = next]
      /\ managed' = IF c.op = "MANAGE" THEN managed \cup {n} ELSE managed
      /\ lost' = IF c.op = "MANAGE" THEN lost \ {n}
                 ELSE IF c.seen # shop[n] THEN lost \cup {n} ELSE lost
      /\ crossed' = IF c.op = "AUDIT" THEN Crossing(n) ELSE crossed
      /\ told' = told /\ missed' = missed
  BY DEF SaveShop, Columns
<1>3. /\ c.op # "AUDIT" => next.op = "IDLE"
      /\ c.op = "AUDIT" => next.op = "TELL" /\ next.shop = n
      /\ c.op = "AUDIT" => next.word = IF c.row.status = "USING" THEN "APPROVED" ELSE "REFUSED"
  BY DEF Verdict, Columns, Idle
<1> HIDE DEF next
<1>4. \A v \in Worker : ReadsRight(call[v])'
  <2> SUFFICES ASSUME NEW v \in Worker PROVE ReadsRight(call[v])'
    OBVIOUS
  <2>1. CASE v = w
    <3>1. call'[v] = next /\ shop'[n] # NoRow
      BY <2>1, <1>1, <1>2
    <3>2. QED
      BY <3>1, <1>3 DEF ReadsRight
  <2>2. CASE v # w
    <3>1. call'[v] = call[v] /\ call[v] \in Calls
      BY <2>2, <1>1, <1>2
    <3>2. call[v].op = "TELL" => shop'[call[v].shop] # NoRow
      BY <3>1, <1>1, <1>2, CallFields DEF AuditInvariant, ReadsRight
    <3>3. QED
      BY <3>1, <3>2 DEF AuditInvariant, ReadsRight
  <2>3. QED
    BY <2>1, <2>2
<1>5. ASSUME NEW m \in Merchant, Undisturbed(m)'
      PROVE  WordFits(m)'
  <2>1. CASE m # n
    <3>1. Undisturbed(m) /\ WordFits(m)
      BY <2>1, <1>2, <1>5 DEF Undisturbed, AuditInvariant, Crossing
    <3>2. Waiting(m)' = Waiting(m) /\ \A v \in Waiting(m) : call'[v] = call[v]
      BY <2>1, <1>1, <1>2, <1>3 DEF Waiting, ShopOps
    <3>3. shop'[m] = shop[m]
      BY <2>1, <1>1, <1>2
    <3>4. QED
      BY <1>2, <3>1, <3>2, <3>3 DEF WordFits
  <2>2. CASE m = n
    <3>1. c.op # "MANAGE" /\ c.seen = shop[m] /\ Undisturbed(m) /\ WordFits(m)
      BY <2>2, <1>2, <1>5 DEF Undisturbed, AuditInvariant, Crossing
    <3>2. shop'[m] = c.row
      BY <2>2, <1>1, <1>2
    <3>3. CASE c.op = "AUDIT"
      <4>1. Waiting(m) = {}
        BY <2>2, <3>3, <1>2, <1>5 DEF Undisturbed, Crossing
      <4>2. call'[w] = next /\ Waiting(m)' = {w}
        BY <2>2, <3>3, <4>1, <1>1, <1>2, <1>3 DEF Waiting
      <4>3. Fits(next.word, c.row)
        BY <3>3, <1>1, <1>3 DEF Fits, ReadsRight
      <4>4. QED
        BY <3>2, <4>2, <4>3 DEF WordFits
    <3>4. CASE c.op # "AUDIT"
      <4>1. Waiting(m)' = Waiting(m) /\ \A v \in Waiting(m) : call'[v] = call[v]
        BY <3>4, <1>1, <1>2, <1>3 DEF Waiting, ShopOps
      <4>2. c.op = "DAY" => c.row = c.seen
        BY <1>1 DEF ReadsRight
      <4>3. c.op = "MODIFY" => \A word : Fits(word, c.seen) => Fits(word, c.row)
        BY <1>1, NoRowIsNone DEF ReadsRight, SavesShop, Fits
      <4>4. c.op = "DAY" \/ c.op = "MODIFY"
        BY <1>1, <3>1, <3>4 DEF ShopOps
      <4>5. \A word : Fits(word, c.seen) => Fits(word, c.row)
        BY <4>2, <4>3, <4>4
      <4>6. QED
        BY <1>2, <3>1, <3>2, <4>1, <4>5 DEF WordFits
    <3>5. QED
      BY <3>3, <3>4
  <2>3. QED
    BY <2>1, <2>2
<1>6. QED
  BY <1>2, <1>4, <1>5 DEF AuditInvariant

LEMMA AuditStepKeeps ==
  ASSUME MerchantsInvariant, AuditInvariant, [Next]_vars
  PROVE  AuditInvariant'
<1>1. CASE Next
  <2> SUFFICES ASSUME NEW w \in Worker,
                      MerchantRequest(w) \/ StaffRequest(w)
                        \/ SaveShop(w) \/ Tell(w) \/ Ends(w) \/ FindCashier(w) \/ SaveStaff(w)
               PROVE  AuditInvariant'
    BY <1>1 DEF Next
  <2>1. CASE MerchantRequest(w)
    BY <2>1, CreateKeepsWords, AuditRequestKeeps DEF MerchantRequest
  <2>2. QED
    BY <2>1, StaffKeepsWords, SaveKeepsWords, TellKeepsWords, EndsKeepsWords
<1>2. CASE UNCHANGED vars
  BY <1>2 DEF vars, AuditInvariant, ReadsRight, Undisturbed, WordFits, Waiting
<1>3. QED
  BY <1>1, <1>2

\* The last word a merchant was told of its audit is true when no request is
\* under way, unless the platform, a save or a push crossed another, or the last
\* push was lost
\* (CreateMerchantManager, audit_merchant and the pushes after them).
THEOREM LastWordIsTrueCorrect == Spec => []LastWordIsTrue
<1>1. Init => AuditInvariant
  BY AuditInit
<1>2. MerchantsInvariant /\ AuditInvariant /\ [Next]_vars => AuditInvariant'
  BY AuditStepKeeps
<1>3. AuditInvariant => LastWordIsTrue
  <2> SUFFICES ASSUME AuditInvariant, NEW m \in Merchant,
                      m \notin managed \cup lost \cup crossed \cup missed,
                      \A w \in Worker : call[w] = Idle
               PROVE  CASE told[m] = "NOTHING" -> shop[m] = NoRow
                        [] told[m] = "SUBMITTED" -> shop[m].status = "REVIEWING"
                        [] told[m] = "APPROVED" -> shop[m].status = "USING"
                        [] OTHER -> shop[m].status # "USING"
    BY DEF LastWordIsTrue
  <2>1. Waiting(m) = {}
    BY DEF Waiting, Idle
  <2>2. Fits(told[m], shop[m]) /\ told[m] \in {"NOTHING", "SUBMITTED", "APPROVED", "REFUSED"}
    BY <2>1 DEF AuditInvariant, Undisturbed, WordFits, Words
  <2>3. QED
    BY <2>2 DEF Fits
<1>4. QED
  BY <1>1, <1>2, <1>3, MerchantsCorrect, PTL DEF Spec

-----------------------------------------------------------------------------
(* Checks of marketers' accounts, for any workers, marketers and limits *)

RowStatus == {"NONE", "VERIFYING", "SUCCESS", "FAIL"}

\* What a worker that checks an Alipay or a bank account knows
TransferPc == {"set", "length", "oldest", "known", "transfer", "count", "pop", "push"}
TransferRow == [pc : TransferPc, user : Marketer, account : AlipayAccount, at : Nat,
                length : Nat]
VerifyRow == [pc : {"setnx", "incr", "ask"}, user : Marketer, account : BankAccount,
              read : RowStatus]
QueryRow == [pc : {"query"}, account : BankAccount, read : RowStatus]
UndoRow == [pc : {"undo"}, user : Marketer]
CheckRow == {Resting} \cup TransferRow \cup VerifyRow \cup QueryRow \cup UndoRow

\* The workers that check Alipay accounts of u; those that have paid and are
\* still to count it for u, or for day d.
AtWorkFor(u) == {t \in Thread : InTransfer(t) /\ worker[t].user = u}
Pushing(u) == {t \in AtWorkFor(u) : worker[t].pc \in {"count", "pop", "push"}}
Counting(d) == {t \in Thread : worker[t].pc = "count" /\ DayOf(worker[t].at) = d}
PaidOn(d) == {i \in DOMAIN paid : DayOf(paid[i].at) = d}

PaidRow == [user : Marketer, account : AlipayAccount, at : Nat]

AlipayTypeOK ==
  /\ now \in 0..MaxNow
  /\ crashes \in Nat
  /\ worker \in [Thread -> CheckRow]
  /\ \A t \in Thread : InTransfer(t) => worker[t].at <= now
  /\ paid \in Seq(PaidRow)
  /\ \A i \in DOMAIN paid : paid[i].at <= now
  /\ dayCount \in [0..DayOf(MaxNow) -> Nat]
  /\ times \in [Marketer -> Seq(Nat)]
  /\ \A u \in Marketer : \A j \in DOMAIN times[u] : times[u][j] <= now

\* The counter of a day is there once a worker has passed it, ...
DaysAreSet ==
  \A t \in Thread :
    InTransfer(t) /\ worker[t].pc # "set" => dayCount[DayOf(worker[t].at)] >= 1

\* ... and does not exceed what was paid but for those still to be counted.
DaysAreCounted ==
  \A d \in 0..DayOf(MaxNow) :
    /\ Cardinality(Counting(d)) <= Cardinality(PaidOn(d))
    /\ dayCount[d] + Cardinality(Counting(d)) <= 1 + Cardinality(PaidOn(d))

\* Every item of a list was paid for, those to be pushed included.
ListsAreCounted ==
  \A u \in Marketer : Len(times[u]) + Cardinality(Pushing(u)) <= Cardinality(PaidTo(u))

\* A marketer whose requests never overlap has one worker at most, which began
\* after all its other requests had ended, and pays for an account once.
OneByOne(u) ==
  /\ \A s, t \in AtWorkFor(u) : s = t
  /\ \A t \in AtWorkFor(u) :
       /\ \A i \in PaidTo(u) : paid[i].at <= worker[t].at
       /\ worker[t].pc = "transfer" => ~Known(u, worker[t].account)
  /\ \A i, j \in PaidTo(u) : paid[i].account = paid[j].account => i = j

\* Whether a payment is not on the list yet
Unlisted(u) == IF Pushing(u) = {} THEN 0 ELSE 1

\* Whether its worker has taken an item off the list for the one it will add
Popped(u) ==
  \E t \in AtWorkFor(u) : worker[t].pc = "push" /\ worker[t].length >= MaxTimes

PaidAfter(u, time) == {i \in PaidTo(u) : paid[i].at > time}
PaidWithin(u, start) == {i \in PaidTo(u) : paid[i].at \in start..(start + LimitHours - 1)}

\* What its worker read of the list still holds, ...
ReadOf(list, w) ==
  /\ w.pc \in {"oldest", "known", "transfer", "count", "pop"} => w.length = Len(list)
  /\ w.pc \in {"oldest", "pop"} => w.length >= MaxTimes
  /\ w.pc \in {"known", "transfer"} /\ w.length >= MaxTimes => list[1] + LimitHours <= w.at
  /\ w.pc = "push" =>
       Len(list) = IF w.length >= MaxTimes THEN MaxTimes - 1 ELSE w.length
ReadIsTrue(u) == \A t \in AtWorkFor(u) : ReadOf(times[u], worker[t])

\* ... the list has all payments or the last ones, ...
ListIsLatest(u) ==
  LET list == times[u]
  IN  /\ Len(list) <= MaxTimes
      /\ \A j \in DOMAIN list :
           Cardinality(PaidAfter(u, list[j])) <= Len(list) - j + Unlisted(u)
      /\ Len(list) < MaxTimes /\ ~Popped(u) =>
           Cardinality(PaidTo(u)) <= Len(list) + Unlisted(u)

\* ... and so any hours of the limit have max_times of them at most.
FewWithin(u) ==
  \A start \in Nat : Cardinality(PaidWithin(u, start)) <= MaxTimes

MarketersInTurn ==
  \A u \in Marketer \ overlapped :
    /\ OneByOne(u)
    /\ crashes = 0 => ReadIsTrue(u) /\ ListIsLatest(u) /\ FewWithin(u)

AlipayInvariant ==
  /\ AlipayTypeOK
  /\ DaysAreSet
  /\ DaysAreCounted
  /\ ListsAreCounted
  /\ MarketersInTurn

\* The counter of the hour: while there is one it counts what was admitted;
\* the key of this hour was made by an admitted request.
HourIsCounted(u) ==
  /\ IF Live(u) THEN admitted[u] <= 1 + limit[u].value + created[u] + behind[u]
                ELSE admitted[u] = 0
  /\ admitted[u] <= MaxAnHour + created[u] + behind[u]
  /\ limit[u].lasts <= now
  /\ limit[u].lasts = now => admitted[u] > 0
  /\ refused[u] > 0 /\ admitted[u] = 0 => limit[u].lasts = Never

BankTypeOK ==
  /\ now \in Nat
  /\ worker \in [Thread -> CheckRow]
  /\ limit \in [Marketer -> [value : Int, lasts : Int]]
  /\ rows \in [BankAccount -> [status : RowStatus, since : 0..now]]
  /\ admitted \in [Marketer -> Nat]
  /\ refused \in [Marketer -> Nat]
  /\ created \in [Marketer -> Nat]
  /\ behind \in [Marketer -> Nat]

BankInvariant ==
  /\ BankTypeOK
  /\ \A u \in Marketer : HourIsCounted(u)
  /\ VerdictIsRecorded

ChecksInvariant == AlipayInvariant /\ BankInvariant

LEMMA CheckTypes ==
  ASSUME worker \in [Thread -> CheckRow], NEW t \in Thread
  PROVE  /\ InTransfer(t) => worker[t] \in TransferRow
         /\ worker[t] = Resting <=> worker[t].pc = "idle"
         /\ worker[t].pc \in {"setnx", "incr", "ask"} => worker[t] \in VerifyRow
         /\ worker[t].pc = "query" => worker[t] \in QueryRow
         /\ worker[t].pc = "undo" => worker[t] \in UndoRow
         /\ worker[t].pc \in Pc
  BY DEF CheckRow, InTransfer, Resting, TransferRow, VerifyRow, QueryRow, UndoRow, TransferPc, Pc

\* One worker goes on: what it was about leaves the sets of workers, what it is
\* about joins them.
LEMMA WorkerMoves ==
  ASSUME worker \in [Thread -> CheckRow], NEW t \in Thread, NEW w \in CheckRow,
         worker' = [worker EXCEPT ![t] = w]
  PROVE  /\ worker' \in [Thread -> CheckRow]
         /\ worker'[t] = w
         /\ \A s \in Thread : s # t => worker'[s] = worker[s]
         /\ InTransfer(t)' <=> w.pc \in TransferPc
         /\ \A s \in Thread : s # t => (InTransfer(s)' <=> InTransfer(s))
<1>1. /\ worker' \in [Thread -> CheckRow]
      /\ worker'[t] = w
      /\ \A s \in Thread : s # t => worker'[s] = worker[s]
  OBVIOUS
<1>2. InTransfer(t)' <=> w.pc \in TransferPc
  BY <1>1 DEF InTransfer, TransferPc
<1>3. \A s \in Thread : s # t => (InTransfer(s)' <=> InTransfer(s))
  BY <1>1 DEF InTransfer
<1>4. QED
  BY <1>1, <1>2, <1>3

\* What is known of a marketer depends on its list, its payments and its workers.
LEMMA MarketerSame ==
  ASSUME NEW u \in Marketer,
         times'[u] = times[u],
         PaidTo(u)' = PaidTo(u), \A i \in PaidTo(u) : paid'[i] = paid[i],
         AtWorkFor(u)' = AtWorkFor(u), \A t \in AtWorkFor(u) : worker'[t] = worker[t]
  PROVE  /\ OneByOne(u) => OneByOne(u)'
         /\ ReadIsTrue(u) => ReadIsTrue(u)'
         /\ ListIsLatest(u) => ListIsLatest(u)'
         /\ FewWithin(u) => FewWithin(u)'
<1>1. \A a : Known(u, a)' <=> Known(u, a)
  <2>1. \A a : Known(u, a) <=> \E i \in PaidTo(u) : paid[i].account = a
    BY DEF Known, PaidTo
  <2>2. \A a : Known(u, a)' <=> \E i \in PaidTo(u)' : paid'[i].account = a
    BY DEF Known, PaidTo
  <2>3. QED
    BY <2>1, <2>2
<1>2. OneByOne(u) => OneByOne(u)'
  BY <1>1 DEF OneByOne
<1>3. ReadIsTrue(u) => ReadIsTrue(u)'
  BY DEF ReadIsTrue
<1>4. Unlisted(u)' = Unlisted(u) /\ (Popped(u)' <=> Popped(u))
  <2>1. Pushing(u)' = Pushing(u)
    BY DEF Pushing
  <2>2. QED
    BY <2>1 DEF Unlisted, Popped
<1>5. \A time : PaidAfter(u, time)' = PaidAfter(u, time)
  BY DEF PaidAfter
<1>6. \A start : PaidWithin(u, start)' = PaidWithin(u, start)
  BY DEF PaidWithin
<1>7. ListIsLatest(u) => ListIsLatest(u)'
  BY <1>4, <1>5 DEF ListIsLatest
<1>8. FewWithin(u) => FewWithin(u)'
  BY <1>6 DEF FewWithin
<1>9. QED
  BY <1>2, <1>3, <1>7, <1>8

\* A step of a worker for one marketer is none for another.
LEMMA OthersAtWork ==
  ASSUME worker \in [Thread -> CheckRow], NEW t \in Thread, NEW w \in CheckRow,
         worker' = [worker EXCEPT ![t] = w], NEW v \in Marketer,
         InTransfer(t) => worker[t].user # v,
         w.pc \in TransferPc => w.user # v
  PROVE  AtWorkFor(v)' = AtWorkFor(v) /\ \A s \in AtWorkFor(v) : worker'[s] = worker[s]
<1>1. /\ worker'[t] = w
      /\ \A s \in Thread : s # t => worker'[s] = worker[s]
      /\ InTransfer(t)' <=> w.pc \in TransferPc
      /\ \A s \in Thread : s # t => (InTransfer(s)' <=> InTransfer(s))
  BY WorkerMoves
<1>2. t \notin AtWorkFor(v) /\ t \notin AtWorkFor(v)'
  BY <1>1 DEF AtWorkFor
<1>3. \A s \in Thread : s # t => (s \in AtWorkFor(v)' <=> s \in AtWorkFor(v))
  BY <1>1 DEF AtWorkFor
<1>4. AtWorkFor(v) \subseteq Thread /\ AtWorkFor(v)' \subseteq Thread
  BY DEF AtWorkFor
<1>5. QED
  BY <1>1, <1>2, <1>3, <1>4

\* The one worker of a marketer whose requests do not overlap, before a step
\* and after it
LEMMA Alone ==
  ASSUME NEW u \in Marketer, NEW t \in AtWorkFor(u), OneByOne(u),
         worker \in [Thread -> CheckRow], NEW w \in CheckRow,
         worker' = [worker EXCEPT ![t] = w]
  PROVE  /\ AtWorkFor(u) = {t}
         /\ Unlisted(u) = IF worker[t].pc \in {"count", "pop", "push"} THEN 1 ELSE 0
         /\ Popped(u) <=> worker[t].pc = "push" /\ worker[t].length >= MaxTimes
         /\ w.pc \in TransferPc /\ w.user = u =>
              /\ AtWorkFor(u)' = {t}
              /\ Unlisted(u)' = IF w.pc \in {"count", "pop", "push"} THEN 1 ELSE 0
              /\ Popped(u)' <=> w.pc = "push" /\ w.length >= MaxTimes
         /\ w.pc \notin TransferPc =>
              AtWorkFor(u)' = {} /\ Unlisted(u)' = 0 /\ ~Popped(u)'
<1>1. AtWorkFor(u) = {t}
  BY DEF OneByOne
<1>2. t \in Thread /\ AtWorkFor(u) \subseteq Thread /\ AtWorkFor(u)' \subseteq Thread
  BY DEF AtWorkFor
<1>3. /\ worker'[t] = w
      /\ \A s \in Thread : s # t => worker'[s] = worker[s]
      /\ InTransfer(t)' <=> w.pc \in TransferPc
      /\ \A s \in Thread : s # t => (InTransfer(s)' <=> InTransfer(s))
  BY <1>2, WorkerMoves
<1>4. \A s \in Thread : s # t => s \notin AtWorkFor(u)'
  BY <1>1, <1>3 DEF AtWorkFor
<1>5. t \in AtWorkFor(u)' <=> w.pc \in TransferPc /\ w.user = u
  BY <1>2, <1>3 DEF AtWorkFor
<1>6. /\ Unlisted(u) = IF worker[t].pc \in {"count", "pop", "push"} THEN 1 ELSE 0
      /\ Popped(u) <=> worker[t].pc = "push" /\ worker[t].length >= MaxTimes
  BY <1>1 DEF Unlisted, Pushing, Popped
<1>7. CASE w.pc \in TransferPc /\ w.user = u
  <2>1. AtWorkFor(u)' = {t}
    BY <1>2, <1>4, <1>5, <1>7
  <2>2. /\ Unlisted(u)' = IF w.pc \in {"count", "pop", "push"} THEN 1 ELSE 0
        /\ Popped(u)' <=> w.pc = "push" /\ w.length >= MaxTimes
    BY <1>3, <2>1 DEF Unlisted, Pushing, Popped
  <2>3. QED
    BY <1>1, <1>6, <1>7, <2>1, <2>2
<1>8. CASE w.pc \notin TransferPc
  <2>1. AtWorkFor(u)' = {}
    BY <1>2, <1>4, <1>5, <1>8
  <2>2. Unlisted(u)' = 0 /\ ~Popped(u)'
    BY <2>1 DEF Unlisted, Pushing, Popped
  <2>3. QED
    BY <1>1, <1>6, <1>8, <2>1, <2>2
<1>9. CASE w.pc \in TransferPc /\ w.user # u
  BY <1>1, <1>6, <1>9
<1>10. QED
  BY <1>7, <1>8, <1>9

\* A step of one worker, for marketer u if it checks an Alipay account, keeps
\* what is known of the other marketers.
LEMMA InTurn ==
  ASSUME AlipayInvariant, NEW t \in Thread, NEW w \in CheckRow, NEW u \in Marketer,
         worker' = [worker EXCEPT ![t] = w],
         InTransfer(t) => worker[t].user = u,
         w.pc \in TransferPc => w.user = u,
         overlapped \subseteq overlapped', crashes' = 0 => crashes = 0,
         \A v \in Marketer \ {u} :
           times'[v] = times[v] /\ PaidTo(v)' = PaidTo(v) /\ \A i \in PaidTo(v) : paid'[i] = paid[i],
         u \notin overlapped' => OneByOne(u)',
         u \notin overlapped' /\ crashes' = 0 => ReadIsTrue(u)' /\ ListIsLatest(u)' /\ FewWithin(u)'
  PROVE  MarketersInTurn'
<1> SUFFICES ASSUME NEW v \in Marketer, v \notin overlapped'
             PROVE  /\ OneByOne(v)'
                    /\ crashes' = 0 => ReadIsTrue(v)' /\ ListIsLatest(v)' /\ FewWithin(v)'
  BY DEF MarketersInTurn
<1>1. CASE v = u
  BY <1>1
<1>2. CASE v # u
  <2>1. worker \in [Thread -> CheckRow] /\ v \notin overlapped
    BY DEF AlipayInvariant, AlipayTypeOK
  <2>2. AtWorkFor(v)' = AtWorkFor(v) /\ \A s \in AtWorkFor(v) : worker'[s] = worker[s]
    <3>1. (InTransfer(t) => worker[t].user # v) /\ (w.pc \in TransferPc => w.user # v)
      BY <1>2
    <3>2. v \in Marketer /\ worker' = [worker EXCEPT ![t] = w]
      OBVIOUS
    <3>3. QED
      BY <2>1, <3>1, <3>2, OthersAtWork
  <2>3. /\ times'[v] = times[v] /\ PaidTo(v)' = PaidTo(v)
        /\ \A i \in PaidTo(v) : paid'[i] = paid[i]
    BY <1>2
  <2>4. /\ OneByOne(v) => OneByOne(v)'
        /\ ReadIsTrue(v) => ReadIsTrue(v)'
        /\ ListIsLatest(v) => ListIsLatest(v)'
        /\ FewWithin(v) => FewWithin(v)'
    BY <2>2, <2>3, MarketerSame
  <2>5. /\ OneByOne(v)
        /\ crashes = 0 => ReadIsTrue(v) /\ ListIsLatest(v) /\ FewWithin(v)
    BY <2>1 DEF AlipayInvariant, MarketersInTurn
  <2>6. QED
    BY <2>4, <2>5
<1>3. QED
  BY <1>1, <1>2

\* A list is as true of its payments as it was when neither changes and its
\* worker neither pays nor pushes nor pops.
LEMMA ListSame ==
  ASSUME NEW u \in Marketer, times'[u] = times[u], paid' = paid,
         Unlisted(u)' = Unlisted(u), Popped(u) => Popped(u)'
  PROVE  /\ ListIsLatest(u) => ListIsLatest(u)'
         /\ FewWithin(u) => FewWithin(u)'
<1>1. PaidTo(u)' = PaidTo(u)
  BY DEF PaidTo
<1>2. \A time : PaidAfter(u, time)' = PaidAfter(u, time)
  BY <1>1 DEF PaidAfter
<1>3. \A start : PaidWithin(u, start)' = PaidWithin(u, start)
  BY <1>1 DEF PaidWithin
<1>4. ListIsLatest(u) => ListIsLatest(u)'
  BY <1>1, <1>2 DEF ListIsLatest
<1>5. FewWithin(u) => FewWithin(u)'
  BY <1>3 DEF FewWithin
<1>6. QED
  BY <1>4, <1>5

\* A worker that neither pays, pops nor pushes goes on or returns.
LEMMA SmallStep ==
  ASSUME AlipayInvariant, NEW t \in Thread, NEW u \in Marketer, NEW w \in CheckRow,
         InTransfer(t), worker[t].user = u, worker' = [worker EXCEPT ![t] = w],
         \/ w = Resting
         \/ /\ w.pc \in TransferPc /\ w.user = u /\ w.at = worker[t].at
            /\ w.pc = "transfer" => ~Known(u, w.account),
         paid' = paid, times' = times, overlapped' = overlapped, crashes' = crashes,
         worker[t].pc \in {"count", "pop", "push"} <=> w.pc \in {"count", "pop", "push"},
         worker[t].pc # "push",
         u \notin overlapped /\ crashes = 0 => ReadOf(times[u], w)
  PROVE  MarketersInTurn'
<1>1. worker \in [Thread -> CheckRow] /\ t \in AtWorkFor(u)
  BY DEF AlipayInvariant, AlipayTypeOK, AtWorkFor
<1>2. /\ \A v \in Marketer : times'[v] = times[v] /\ PaidTo(v)' = PaidTo(v)
      /\ \A i : paid'[i] = paid[i]
  BY DEF PaidTo
<1>3. Resting.pc \notin TransferPc /\ Resting.pc \notin {"count", "pop", "push"}
  BY DEF Resting, TransferPc
<1>4. CASE u \in overlapped
  BY <1>1, <1>2, <1>3, <1>4, InTurn
<1>5. CASE u \notin overlapped
  <2>1. /\ OneByOne(u)
        /\ crashes = 0 => ReadIsTrue(u) /\ ListIsLatest(u) /\ FewWithin(u)
    BY <1>5 DEF AlipayInvariant, MarketersInTurn
  <2>2. /\ AtWorkFor(u) = {t}
        /\ Unlisted(u) = IF worker[t].pc \in {"count", "pop", "push"} THEN 1 ELSE 0
        /\ Popped(u) <=> worker[t].pc = "push" /\ worker[t].length >= MaxTimes
        /\ w.pc \in TransferPc /\ w.user = u =>
             /\ AtWorkFor(u)' = {t}
             /\ Unlisted(u)' = IF w.pc \in {"count", "pop", "push"} THEN 1 ELSE 0
             /\ Popped(u)' <=> w.pc = "push" /\ w.length >= MaxTimes
        /\ w.pc \notin TransferPc =>
             AtWorkFor(u)' = {} /\ Unlisted(u)' = 0 /\ ~Popped(u)'
    BY <1>1, <2>1, Alone
  <2>3. worker'[t] = w
    BY <1>1
  <2>4. ~Popped(u) /\ Unlisted(u)' = Unlisted(u)
    BY <1>3, <2>2
  <2>5. AtWorkFor(u)' \subseteq {t} /\ (t \in AtWorkFor(u)' => w.pc \in TransferPc)
    BY <1>3, <2>2
  <2>6. OneByOne(u)'
    <3>1. Known(u, w.account)' <=> Known(u, w.account)
      BY DEF Known
    <3>2. PaidTo(u)' = PaidTo(u)
      BY <1>2
    <3>3. w.pc \in TransferPc => w.at = worker[t].at /\ (w.pc = "transfer" => ~Known(u, w.account))
      BY <1>3
    <3>4. \A i \in PaidTo(u) : paid[i].at <= worker[t].at
      BY <2>1, <2>2 DEF OneByOne
    <3>5. \A i, j \in PaidTo(u) : paid[i].account = paid[j].account => i = j
      BY <2>1 DEF OneByOne
    <3>6. \A s \in AtWorkFor(u)' : s = t /\ worker'[s] = w /\ w.pc \in TransferPc
      BY <2>3, <2>5
    <3>7. QED
      BY <3>1, <3>2, <3>3, <3>4, <3>5, <3>6 DEF OneByOne
  <2>7. crashes' = 0 => ReadIsTrue(u)'
    <3>1. SUFFICES ASSUME crashes' = 0
                   PROVE  \A s \in AtWorkFor(u)' : ReadOf(times'[u], worker'[s])
      BY DEF ReadIsTrue, ReadOf
    <3>2. ReadOf(times[u], w) /\ times'[u] = times[u]
      BY <1>5, <3>1
    <3>3. QED
      BY <2>3, <2>5, <3>2
  <2>8. crashes' = 0 => ListIsLatest(u)' /\ FewWithin(u)'
    <3>1. /\ ListIsLatest(u) => ListIsLatest(u)'
          /\ FewWithin(u) => FewWithin(u)'
      BY <2>4, ListSame
    <3>2. QED
      BY <2>1, <3>1
  <2>9. QED
    BY <1>1, <1>2, <1>3, <2>6, <2>7, <2>8, InTurn
<1>6. QED
  BY <1>4, <1>5

USE CheckAssumption

\* Hours and days: a later hour is on no earlier day.
LEMMA DaysInOrder ==
  ASSUME NEW s \in Nat, NEW t \in Nat, s <= t
  PROVE  DayOf(s) \in 0..DayOf(t)
<1> DEFINE H == HoursADay
           a == DayOf(s)
           b == DayOf(t)
<1>1. H \in Nat \ {0}
  OBVIOUS
<1>2. /\ a \in Nat /\ a * H <= s
      /\ b \in Nat /\ t < (b + 1) * H
  BY SMTT(30) DEF DayOf
<1>3. a * H \in Int /\ (b + 1) * H \in Int
  BY <1>1, <1>2
<1> HIDE DEF H, a, b
<1>4. a * H < (b + 1) * H
  BY <1>2, <1>3
<1>5. a < b + 1
  BY <1>1, <1>2, <1>4, SMTT(30)
<1>6. QED
  BY <1>2, <1>5 DEF a, b

LEMMA WorkersFinite ==
  ASSUME NEW S \in SUBSET Thread
  PROVE  IsFiniteSet(S) /\ Cardinality(S) \in Nat
  BY FS_Subset, FS_CardinalityType

LEMMA PaymentsFinite ==
  ASSUME NEW s \in Seq(PaidRow), NEW S \in SUBSET (DOMAIN s)
  PROVE  IsFiniteSet(S) /\ Cardinality(S) \in Nat
<1>1. DOMAIN s = 1..Len(s) /\ Len(s) \in Nat
  OBVIOUS
<1>2. IsFiniteSet(1..Len(s))
  BY <1>1, FS_Interval
<1>3. QED
  BY <1>1, <1>2, FS_Subset, FS_CardinalityType

LEMMA FewerWorkers ==
  ASSUME NEW S \in SUBSET Thread, NEW T \in SUBSET S
  PROVE  Cardinality(T) <= Cardinality(S)
  BY WorkersFinite, FS_Subset

\* The sets of workers of the equations are sets of workers.
LEMMA CountedTypes ==
  ASSUME AlipayTypeOK
  PROVE  /\ \A d : Counting(d) \subseteq Thread /\ Counting(d)' \subseteq Thread
         /\ \A u : Pushing(u) \subseteq Thread /\ Pushing(u)' \subseteq Thread
         /\ \A d : Cardinality(Counting(d)) \in Nat /\ Cardinality(PaidOn(d)) \in Nat
         /\ \A u : Cardinality(Pushing(u)) \in Nat /\ Cardinality(PaidTo(u)) \in Nat
<1>1. \A d : Counting(d) \subseteq Thread /\ Counting(d)' \subseteq Thread
  BY DEF Counting
<1>2. \A u : Pushing(u) \subseteq Thread /\ Pushing(u)' \subseteq Thread
  BY DEF Pushing, AtWorkFor
<1>3. paid \in Seq(PaidRow)
  BY DEF AlipayTypeOK
<1>4. \A d : PaidOn(d) \subseteq DOMAIN paid
  BY DEF PaidOn
<1>5. \A u : PaidTo(u) \subseteq DOMAIN paid
  BY DEF PaidTo
<1>6. \A d : Cardinality(Counting(d)) \in Nat
  BY <1>1, WorkersFinite
<1>7. \A u : Cardinality(Pushing(u)) \in Nat
  BY <1>2, WorkersFinite
<1>8. \A d : Cardinality(PaidOn(d)) \in Nat
  BY <1>3, <1>4, PaymentsFinite
<1>9. \A u : Cardinality(PaidTo(u)) \in Nat
  BY <1>3, <1>5, PaymentsFinite
<1>10. QED
  BY <1>1, <1>2, <1>6, <1>7, <1>8, <1>9

\* Unless a worker has just paid, who counts and pushes did so before.
LEMMA WorkersStep ==
  ASSUME worker \in [Thread -> CheckRow], NEW t \in Thread, NEW w \in CheckRow,
         worker' = [worker EXCEPT ![t] = w]
  PROVE  /\ \A d : Counting(d)' =
                     (Counting(d) \ {t}) \cup (IF w.pc = "count" /\ DayOf(w.at) = d THEN {t} ELSE {})
         /\ \A u : Pushing(u)' =
                     (Pushing(u) \ {t})
                       \cup (IF w.pc \in {"count", "pop", "push"} /\ w.user = u THEN {t} ELSE {})
<1>1. /\ worker'[t] = w
      /\ \A s \in Thread : s # t => worker'[s] = worker[s]
      /\ InTransfer(t)' <=> w.pc \in TransferPc
      /\ \A s \in Thread : s # t => (InTransfer(s)' <=> InTransfer(s))
  BY WorkerMoves
<1>2. \A d : Counting(d)' =
               (Counting(d) \ {t}) \cup (IF w.pc = "count" /\ DayOf(w.at) = d THEN {t} ELSE {})
  BY <1>1 DEF Counting
<1>3. ASSUME NEW u
      PROVE  Pushing(u)' = (Pushing(u) \ {t})
               \cup (IF w.pc \in {"count", "pop", "push"} /\ w.user = u THEN {t} ELSE {})
  <2>1. \A s \in Thread : s # t => (s \in Pushing(u)' <=> s \in Pushing(u))
    BY <1>1 DEF Pushing, AtWorkFor
  <2>2. t \in Pushing(u)' <=> w.pc \in {"count", "pop", "push"} /\ w.user = u
    BY <1>1 DEF Pushing, AtWorkFor, TransferPc
  <2>3. Pushing(u)' \subseteq Thread /\ Pushing(u) \subseteq Thread
    BY DEF Pushing, AtWorkFor
  <2>4. QED
    BY <2>1, <2>2, <2>3
<1>4. QED
  BY <1>2, <1>3

\* Steps that neither pay nor count keep the equation of the days, ...
LEMMA DaysStep ==
  ASSUME AlipayTypeOK, DaysAreCounted, NEW t \in Thread, NEW w \in CheckRow,
         worker' = [worker EXCEPT ![t] = w], w.pc # "count", paid' = paid, dayCount' = dayCount
  PROVE  DaysAreCounted'
<1>1. worker \in [Thread -> CheckRow]
  BY DEF AlipayTypeOK
<1> SUFFICES ASSUME NEW d \in 0..DayOf(MaxNow)
             PROVE  /\ Cardinality(Counting(d)') <= Cardinality(PaidOn(d)')
                    /\ dayCount'[d] + Cardinality(Counting(d)') <= 1 + Cardinality(PaidOn(d)')
  BY DEF DaysAreCounted
<1>2. Counting(d)' \subseteq Counting(d) /\ Counting(d) \subseteq Thread
  <2>1. Counting(d)' = (Counting(d) \ {t})
                         \cup (IF w.pc = "count" /\ DayOf(w.at) = d THEN {t} ELSE {})
    BY <1>1, WorkersStep
  <2>2. Counting(d)' \subseteq Counting(d)
    BY <2>1
  <2>3. QED
    BY <2>2, CountedTypes
<1>3. Cardinality(Counting(d)') <= Cardinality(Counting(d))
  BY <1>2, FewerWorkers
<1>4. PaidOn(d)' = PaidOn(d)
  BY DEF PaidOn
<1>5. Cardinality(Counting(d)') \in Nat
  BY <1>2, WorkersFinite
<1>6. dayCount[d] \in Nat
  BY DEF AlipayTypeOK
<1>7. QED
  BY <1>3, <1>4, <1>5, <1>6, CountedTypes DEF DaysAreCounted

\* ... and those that neither pay, pop nor push keep that of the lists.
LEMMA ListsStep ==
  ASSUME AlipayTypeOK, ListsAreCounted, NEW t \in Thread, NEW w \in CheckRow,
         worker' = [worker EXCEPT ![t] = w], paid' = paid, times' = times,
         w.pc \in {"count", "pop", "push"} => t \in Pushing(w.user)
  PROVE  ListsAreCounted'
<1>1. worker \in [Thread -> CheckRow]
  BY DEF AlipayTypeOK
<1> SUFFICES ASSUME NEW u \in Marketer
             PROVE  Len(times'[u]) + Cardinality(Pushing(u)') <= Cardinality(PaidTo(u)')
  BY DEF ListsAreCounted
<1>2. Pushing(u)' \subseteq Pushing(u) /\ Pushing(u) \subseteq Thread
  <2>1. Pushing(u)' = (Pushing(u) \ {t})
          \cup (IF w.pc \in {"count", "pop", "push"} /\ w.user = u THEN {t} ELSE {})
    BY <1>1, WorkersStep
  <2>2. w.pc \in {"count", "pop", "push"} /\ w.user = u => t \in Pushing(u)
    OBVIOUS
  <2>3. Pushing(u)' \subseteq Pushing(u)
    BY <2>1, <2>2
  <2>4. QED
    BY <2>3, CountedTypes
<1>3. Cardinality(Pushing(u)') <= Cardinality(Pushing(u))
  BY <1>2, FewerWorkers
<1>4. PaidTo(u)' = PaidTo(u)
  BY DEF PaidTo
<1>5. Cardinality(Pushing(u)') \in Nat
  BY <1>2, WorkersFinite
<1>6. times[u] \in Seq(Nat)
  BY DEF AlipayTypeOK
<1>7. Len(times[u]) \in Nat
  BY <1>6
<1>8. QED
  BY <1>3, <1>4, <1>5, <1>7, CountedTypes DEF ListsAreCounted

\* Types of a step of one worker
LEMMA TypesStep ==
  ASSUME AlipayTypeOK, NEW t \in Thread, NEW w \in CheckRow,
         worker' = [worker EXCEPT ![t] = w], w.pc \in TransferPc => w.at <= now,
         now' = now, crashes' \in Nat,
         paid' \in Seq(PaidRow), \A i \in DOMAIN paid' : paid'[i].at <= now,
         dayCount' \in [0..DayOf(MaxNow) -> Nat],
         times' \in [Marketer -> Seq(Nat)],
         \A u \in Marketer : \A j \in DOMAIN times'[u] : times'[u][j] <= now
  PROVE  AlipayTypeOK'
<1>1. worker \in [Thread -> CheckRow]
  BY DEF AlipayTypeOK
<1>2. /\ worker' \in [Thread -> CheckRow]
      /\ worker'[t] = w
      /\ \A s \in Thread : s # t => worker'[s] = worker[s]
      /\ InTransfer(t)' <=> w.pc \in TransferPc
      /\ \A s \in Thread : s # t => (InTransfer(s)' <=> InTransfer(s))
  BY <1>1, WorkerMoves
<1>3. ASSUME NEW s \in Thread, InTransfer(s)'
      PROVE  worker'[s].at <= now
  BY <1>2, <1>3 DEF AlipayTypeOK
<1>4. QED
  BY <1>2, <1>3 DEF AlipayTypeOK

\* The counter of a day is not taken away.
LEMMA SetStep ==
  ASSUME AlipayTypeOK, DaysAreSet, NEW t \in Thread, NEW w \in CheckRow,
         worker' = [worker EXCEPT ![t] = w],
         w.pc \in TransferPc \ {"set"} => dayCount'[DayOf(w.at)] >= 1,
         \A d \in 0..DayOf(MaxNow) : dayCount[d] >= 1 => dayCount'[d] >= 1
  PROVE  DaysAreSet'
<1>1. worker \in [Thread -> CheckRow]
  BY DEF AlipayTypeOK
<1>2. /\ worker'[t] = w
      /\ \A s \in Thread : s # t => worker'[s] = worker[s]
      /\ InTransfer(t)' <=> w.pc \in TransferPc
      /\ \A s \in Thread : s # t => (InTransfer(s)' <=> InTransfer(s))
  BY <1>1, WorkerMoves
<1> SUFFICES ASSUME NEW s \in Thread, InTransfer(s)', worker'[s].pc # "set"
             PROVE  dayCount'[DayOf(worker'[s].at)] >= 1
  BY DEF DaysAreSet, DayOf
<1>3. CASE s = t
  BY <1>2, <1>3
<1>4. CASE s # t
  <2>1. InTransfer(s) /\ worker'[s] = worker[s]
    BY <1>2, <1>4
  <2>2. worker[s].at \in Nat /\ MaxNow \in Nat /\ worker[s].at <= MaxNow
    <3>1. worker[s].at \in Nat
      BY <1>1, <2>1, CheckTypes DEF TransferRow
    <3>2. worker[s].at <= now /\ now \in 0..MaxNow
      BY <2>1 DEF AlipayTypeOK
    <3>3. QED
      BY <3>1, <3>2
  <2>3. DayOf(worker[s].at) \in 0..DayOf(MaxNow)
    BY <2>2, DaysInOrder
  <2>4. dayCount[DayOf(worker[s].at)] >= 1
    BY <2>1 DEF DaysAreSet
  <2>5. QED
    BY <2>1, <2>3, <2>4
<1>5. QED
  BY <1>3, <1>4

\* A worker reads or gives up: it only learns what is so.
LEMMA ReadingKeeps ==
  ASSUME AlipayInvariant, NEW t \in Thread, NEW u \in Marketer, NEW w \in CheckRow,
         worker[t].pc \in {"length", "oldest", "known", "transfer"}, worker[t].user = u,
         worker' = [worker EXCEPT ![t] = w],
         \/ w = Resting
         \/ /\ w \in TransferRow /\ w.user = u /\ w.at = worker[t].at
            /\ w.pc \in {"length", "oldest", "known", "transfer"}
            /\ w.pc = "transfer" => ~Known(u, w.account),
         paid' = paid, times' = times, overlapped' = overlapped, crashes' = crashes,
         dayCount' = dayCount, now' = now,
         u \notin overlapped /\ crashes = 0 => ReadOf(times[u], w)
  PROVE  AlipayInvariant'
<1>1. worker \in [Thread -> CheckRow] /\ InTransfer(t)
  BY DEF AlipayInvariant, AlipayTypeOK, InTransfer
<1>2. w \in CheckRow /\ Resting.pc = "idle"
  BY DEF CheckRow, Resting
<1>3. MarketersInTurn'
  <2>1. /\ worker[t].pc \notin {"count", "pop", "push"} /\ w.pc \notin {"count", "pop", "push"}
        /\ w.pc \in TransferPc \/ w = Resting
    BY <1>2 DEF TransferPc
  <2>2. QED
    BY <1>1, <1>2, <2>1, SmallStep
<1>4. DaysAreCounted'
  <2>1. w.pc # "count"
    BY <1>2
  <2>2. QED
    BY <1>2, <2>1, DaysStep DEF AlipayInvariant
<1>5. ListsAreCounted'
  <2>1. w.pc \notin {"count", "pop", "push"}
    BY <1>2
  <2>2. QED
    BY <1>2, <2>1, ListsStep DEF AlipayInvariant
<1>6. worker[t] \in TransferRow /\ worker[t].at <= now
  BY <1>1, CheckTypes DEF AlipayInvariant, AlipayTypeOK
<1>7. DaysAreSet'
  <2>1. worker[t].pc # "set" => dayCount[DayOf(worker[t].at)] >= 1
    BY <1>1 DEF AlipayInvariant, DaysAreSet
  <2>2. w.pc \in TransferPc \ {"set"} => dayCount'[DayOf(w.at)] >= 1
    BY <1>2, <2>1 DEF TransferPc
  <2>3. \A d \in 0..DayOf(MaxNow) : dayCount[d] >= 1 => dayCount'[d] >= 1
    OBVIOUS
  <2>4. QED
    BY <1>2, <2>2, <2>3, SetStep DEF AlipayInvariant
<1>8. AlipayTypeOK'
  <2>1. w.pc \in TransferPc => w.at <= now
    BY <1>2, <1>6 DEF TransferPc
  <2>2. /\ crashes' \in Nat /\ paid' \in Seq(PaidRow) /\ \A i \in DOMAIN paid' : paid'[i].at <= now
        /\ dayCount' \in [0..DayOf(MaxNow) -> Nat] /\ times' \in [Marketer -> Seq(Nat)]
        /\ \A v \in Marketer : \A j \in DOMAIN times'[v] : times'[v][j] <= now
    BY DEF AlipayInvariant, AlipayTypeOK
  <2>3. QED
    BY <1>2, <2>1, <2>2, TypesStep DEF AlipayInvariant
<1>9. QED
  BY <1>3, <1>4, <1>5, <1>7, <1>8 DEF AlipayInvariant

\* What a worker that checks an Alipay account knows
LEMMA AtTransfer ==
  ASSUME AlipayInvariant, NEW t \in Thread, InTransfer(t)
  PROVE  /\ worker[t] \in TransferRow /\ worker[t].user \in Marketer
         /\ worker[t].at \in Nat /\ worker[t].at <= now
         /\ now \in Nat /\ now <= MaxNow
         /\ DayOf(worker[t].at) \in 0..DayOf(MaxNow)
         /\ times[worker[t].user] \in Seq(Nat)
         /\ worker[t].user \notin overlapped /\ crashes = 0 =>
              ReadOf(times[worker[t].user], worker[t])
<1>1. /\ worker[t] \in TransferRow /\ worker[t].at <= now /\ now \in 0..MaxNow
      /\ times \in [Marketer -> Seq(Nat)] /\ MaxNow \in Nat
  BY CheckTypes DEF AlipayInvariant, AlipayTypeOK
<1>2. worker[t].user \in Marketer /\ worker[t].at \in Nat
  BY <1>1 DEF TransferRow
<1>3. now \in Nat /\ now <= MaxNow /\ worker[t].at <= MaxNow
  BY <1>1, <1>2
<1>4. DayOf(worker[t].at) \in 0..DayOf(MaxNow)
  BY <1>1, <1>2, <1>3, DaysInOrder
<1>5. worker[t].user \notin overlapped /\ crashes = 0 => ReadOf(times[worker[t].user], worker[t])
  BY <1>2 DEF AlipayInvariant, MarketersInTurn, ReadIsTrue, AtWorkFor
<1>6. QED
  BY <1>1, <1>2, <1>3, <1>4, <1>5

LEMMA ReadLengthKeeps ==
  ASSUME AlipayInvariant, NEW t \in Thread, ReadLength(t)
  PROVE  AlipayInvariant'
<1> DEFINE u == worker[t].user
           n == Len(times[u])
           w == [worker[t] EXCEPT !.pc = IF n >= MaxTimes THEN "oldest" ELSE "known",
                                  !.length = n]
<1>1. /\ worker[t].pc = "length" /\ worker' = [worker EXCEPT ![t] = w]
      /\ paid' = paid /\ times' = times /\ overlapped' = overlapped /\ crashes' = crashes
      /\ dayCount' = dayCount /\ now' = now
  BY DEF ReadLength, Goes, alipay
<1>2. InTransfer(t)
  BY <1>1 DEF InTransfer
<1>3. /\ worker[t] \in TransferRow /\ u \in Marketer /\ n \in Nat
  BY <1>2, AtTransfer
<1>4. /\ w \in TransferRow /\ w.user = u /\ w.at = worker[t].at /\ w.length = n
      /\ w.pc = IF n >= MaxTimes THEN "oldest" ELSE "known"
  BY <1>3 DEF TransferRow, TransferPc
<1>5. ReadOf(times[u], w)
  BY <1>4 DEF ReadOf
<1> HIDE DEF u, n, w
<1>6. worker[t].pc \in {"length", "oldest", "known", "transfer"} /\ worker[t].user = u
  BY <1>1 DEF u
<1>7. \/ w = Resting
      \/ /\ w \in TransferRow /\ w.user = u /\ w.at = worker[t].at
         /\ w.pc \in {"length", "oldest", "known", "transfer"}
         /\ w.pc = "transfer" => ~Known(u, w.account)
  BY <1>4
<1>8. u \in Marketer /\ (u \notin overlapped /\ crashes = 0 => ReadOf(times[u], w))
  BY <1>3, <1>5
<1>9. w \in CheckRow
  BY <1>4 DEF CheckRow
<1>10. QED
  BY <1>1, <1>6, <1>7, <1>8, <1>9, ReadingKeeps

LEMMA ReadOldestKeeps ==
  ASSUME AlipayInvariant, NEW t \in Thread, ReadOldest(t)
  PROVE  AlipayInvariant'
<1> DEFINE u == worker[t].user
           list == times[u]
           w == IF list = << >> \/ worker[t].at < list[1] + LimitHours
                THEN Resting ELSE [worker[t] EXCEPT !.pc = "known"]
<1>1. /\ worker[t].pc = "oldest" /\ worker' = [worker EXCEPT ![t] = w]
      /\ paid' = paid /\ times' = times /\ overlapped' = overlapped /\ crashes' = crashes
      /\ dayCount' = dayCount /\ now' = now
  BY DEF ReadOldest, Returns, To, Goes, alipay
<1>2. InTransfer(t)
  BY <1>1 DEF InTransfer
<1>3. /\ worker[t] \in TransferRow /\ u \in Marketer /\ list \in Seq(Nat)
      /\ worker[t].at \in Nat
      /\ u \notin overlapped /\ crashes = 0 => ReadOf(list, worker[t])
  BY <1>2, AtTransfer
<1>4. w # Resting =>
        /\ w \in TransferRow /\ w.user = u /\ w.at = worker[t].at
        /\ w.length = worker[t].length /\ w.pc = "known"
        /\ list # << >> /\ ~(worker[t].at < list[1] + LimitHours)
  BY <1>3 DEF TransferRow, TransferPc
<1>5. w # Resting => list[1] \in Nat /\ list[1] + LimitHours <= w.at
  <2>1. list # << >> => list[1] \in Nat
    <3> HIDE DEF list
    <3>1. QED
      BY <1>3
  <2>2. LimitHours \in Nat
    OBVIOUS
  <2> HIDE DEF list
  <2>3. QED
    BY <1>3, <1>4, <2>1, <2>2
<1>6. u \notin overlapped /\ crashes = 0 => ReadOf(list, w)
  <2>1. CASE w = Resting
    BY <2>1 DEF ReadOf, Resting
  <2>2. CASE w # Resting
    BY <1>1, <1>3, <1>4, <1>5, <2>2 DEF ReadOf
  <2>3. QED
    BY <2>1, <2>2
<1>7. u \in Marketer /\ (u \notin overlapped /\ crashes = 0 => ReadOf(times[u], w))
  BY <1>3, <1>6
<1> HIDE DEF u, list, w
<1>8. worker[t].pc \in {"length", "oldest", "known", "transfer"} /\ worker[t].user = u
  BY <1>1 DEF u
<1>9. \/ w = Resting
      \/ /\ w \in TransferRow /\ w.user = u /\ w.at = worker[t].at
         /\ w.pc \in {"length", "oldest", "known", "transfer"}
         /\ w.pc = "transfer" => ~Known(u, w.account)
  BY <1>4
<1>10. w \in CheckRow
  BY <1>4 DEF CheckRow
<1>11. QED
  BY <1>1, <1>7, <1>8, <1>9, <1>10, ReadingKeeps

LEMMA CheckKnownKeeps ==
  ASSUME AlipayInvariant, NEW t \in Thread, CheckKnown(t)
  PROVE  AlipayInvariant'
<1> DEFINE u == worker[t].user
           list == times[u]
           w == IF Known(u, worker[t].account) THEN Resting
                ELSE [worker[t] EXCEPT !.pc = "transfer"]
<1>1. /\ worker[t].pc = "known" /\ worker' = [worker EXCEPT ![t] = w]
      /\ paid' = paid /\ times' = times /\ overlapped' = overlapped /\ crashes' = crashes
      /\ dayCount' = dayCount /\ now' = now
  BY DEF CheckKnown, Returns, To, Goes, alipay
<1>2. InTransfer(t)
  BY <1>1 DEF InTransfer
<1>3. /\ worker[t] \in TransferRow /\ u \in Marketer /\ list \in Seq(Nat)
      /\ u \notin overlapped /\ crashes = 0 => ReadOf(list, worker[t])
  BY <1>2, AtTransfer
<1>4. w # Resting =>
        /\ w \in TransferRow /\ w.user = u /\ w.at = worker[t].at
        /\ w.length = worker[t].length /\ w.pc = "transfer" /\ ~Known(u, w.account)
  BY <1>3 DEF TransferRow, TransferPc
<1>6. u \notin overlapped /\ crashes = 0 => ReadOf(list, w)
  <2>1. CASE w = Resting
    BY <2>1 DEF ReadOf, Resting
  <2>2. CASE w # Resting
    BY <1>1, <1>3, <1>4, <2>2 DEF ReadOf
  <2>3. QED
    BY <2>1, <2>2
<1>7. u \in Marketer /\ (u \notin overlapped /\ crashes = 0 => ReadOf(times[u], w))
  BY <1>3, <1>6
<1> HIDE DEF u, list, w
<1>8. worker[t].pc \in {"length", "oldest", "known", "transfer"} /\ worker[t].user = u
  BY <1>1 DEF u
<1>9. \/ w = Resting
      \/ /\ w \in TransferRow /\ w.user = u /\ w.at = worker[t].at
         /\ w.pc \in {"length", "oldest", "known", "transfer"}
         /\ w.pc = "transfer" => ~Known(u, w.account)
  BY <1>4
<1>10. w \in CheckRow
  BY <1>4 DEF CheckRow
<1>11. QED
  BY <1>1, <1>7, <1>8, <1>9, <1>10, ReadingKeeps

LEMMA SetDayKeeps ==
  ASSUME AlipayInvariant, NEW t \in Thread, SetDay(t)
  PROVE  AlipayInvariant'
<1>1. InTransfer(t)
  BY DEF SetDay, InTransfer
<1>2. PICK u \in Marketer, d \in 0..DayOf(MaxNow) : worker[t].user = u /\ DayOf(worker[t].at) = d
  BY <1>1, AtTransfer
<1>3. PICK w \in TransferRow :
        w = [worker[t] EXCEPT !.pc = "length"]
  BY <1>1, AtTransfer DEF TransferRow, TransferPc
<1>4. /\ worker[t].pc = "set" /\ worker' = [worker EXCEPT ![t] = w]
      /\ dayCount' = [dayCount EXCEPT ![d] = 1]
      /\ paid' = paid /\ times' = times /\ overlapped' = overlapped /\ crashes' = crashes
      /\ now' = now
  BY <1>2, <1>3 DEF SetDay, To, Goes
<1>5. /\ worker[t] \in TransferRow /\ worker[t].at <= now
      /\ w \in CheckRow /\ w.pc = "length" /\ w.pc \in TransferPc /\ w.user = u
      /\ w.at = worker[t].at
  BY <1>1, <1>2, <1>3, AtTransfer DEF TransferRow, CheckRow, TransferPc
<1>6. /\ AlipayTypeOK /\ DaysAreSet /\ DaysAreCounted /\ ListsAreCounted
      /\ worker \in [Thread -> CheckRow] /\ dayCount \in [0..DayOf(MaxNow) -> Nat]
  BY DEF AlipayInvariant, AlipayTypeOK
<1>7. dayCount' \in [0..DayOf(MaxNow) -> Nat] /\ dayCount'[d] = 1
  BY <1>4, <1>6
<1>8. AlipayTypeOK'
  <2>1. /\ crashes' \in Nat /\ paid' \in Seq(PaidRow) /\ \A i \in DOMAIN paid' : paid'[i].at <= now
        /\ times' \in [Marketer -> Seq(Nat)]
        /\ \A v \in Marketer : \A j \in DOMAIN times'[v] : times'[v][j] <= now
    BY <1>4 DEF AlipayInvariant, AlipayTypeOK
  <2>2. QED
    BY <1>4, <1>5, <1>6, <1>7, <2>1, TypesStep
<1>9. DaysAreSet'
  <2>1. w.pc \in TransferPc \ {"set"} => dayCount'[DayOf(w.at)] >= 1
    BY <1>2, <1>5, <1>7
  <2>2. \A e \in 0..DayOf(MaxNow) : dayCount[e] >= 1 => dayCount'[e] >= 1
    BY <1>4, <1>6
  <2>3. QED
    BY <1>4, <1>5, <1>6, <2>1, <2>2, SetStep
<1>10. DaysAreCounted'
  <2>1. SUFFICES ASSUME NEW e \in 0..DayOf(MaxNow)
                 PROVE  /\ Cardinality(Counting(e)') <= Cardinality(PaidOn(e)')
                        /\ dayCount'[e] + Cardinality(Counting(e)') <= 1 + Cardinality(PaidOn(e)')
    BY DEF DaysAreCounted
  <2>2. Counting(e)' \subseteq Counting(e)
    <3>1. Counting(e)' = (Counting(e) \ {t})
                           \cup (IF w.pc = "count" /\ DayOf(w.at) = e THEN {t} ELSE {})
      BY <1>4, <1>5, <1>6, WorkersStep
    <3>2. QED
      BY <1>5, <3>1
  <2>3. Counting(e) \subseteq Thread /\ Cardinality(Counting(e)) \in Nat
        /\ Cardinality(PaidOn(e)) \in Nat
    BY <1>6, CountedTypes
  <2>4. Cardinality(Counting(e)') <= Cardinality(Counting(e)) /\ Cardinality(Counting(e)') \in Nat
    BY <2>2, <2>3, FewerWorkers, WorkersFinite
  <2>5. PaidOn(e)' = PaidOn(e)
    BY <1>4 DEF PaidOn
  <2>6. dayCount'[e] = dayCount[e] \/ dayCount'[e] = 1
    BY <1>4, <1>6
  <2>7. /\ Cardinality(Counting(e)) <= Cardinality(PaidOn(e))
        /\ dayCount[e] + Cardinality(Counting(e)) <= 1 + Cardinality(PaidOn(e))
    BY <1>6 DEF DaysAreCounted
  <2>8. dayCount[e] \in Nat
    BY <1>6
  <2>9. QED
    BY <2>3, <2>4, <2>5, <2>6, <2>7, <2>8
<1>11. ListsAreCounted'
  <2>1. w.pc \in {"count", "pop", "push"} => t \in Pushing(w.user)
    BY <1>5
  <2>2. QED
    BY <1>4, <1>5, <1>6, <2>1, ListsStep
<1>12. MarketersInTurn'
  <2>1. ReadOf(times[u], w)
    BY <1>5 DEF ReadOf
  <2>2. /\ worker[t].pc \in {"count", "pop", "push"} <=> w.pc \in {"count", "pop", "push"}
        /\ worker[t].pc # "push"
        /\ w.pc = "transfer" => ~Known(u, w.account)
    BY <1>4, <1>5
  <2>3. QED
    BY <1>1, <1>2, <1>4, <1>5, <2>1, <2>2, SmallStep
<1>13. QED
  BY <1>8, <1>9, <1>10, <1>11, <1>12 DEF AlipayInvariant

\* A worker that returns is no longer at work for its marketer.
LEMMA Leaves ==
  ASSUME NEW u \in Marketer, NEW t \in AtWorkFor(u), worker \in [Thread -> CheckRow],
         worker' = [worker EXCEPT ![t] = Resting], paid' = paid, OneByOne(u)
  PROVE  /\ OneByOne(u)' /\ ReadIsTrue(u)'
         /\ Unlisted(u)' = 0 /\ ~Popped(u)'
<1>1. PICK w \in CheckRow : w = Resting
  BY DEF CheckRow
<1>2. w.pc \notin TransferPc
  BY <1>1 DEF Resting, TransferPc
<1>3. worker' = [worker EXCEPT ![t] = w]
  BY <1>1
<1>4. AtWorkFor(u)' = {} /\ Unlisted(u)' = 0 /\ ~Popped(u)'
  BY <1>2, <1>3, Alone
<1>5. PaidTo(u)' = PaidTo(u)
  BY DEF PaidTo
<1>6. \A i, j \in PaidTo(u)' : paid'[i].account = paid'[j].account => i = j
  BY <1>5 DEF OneByOne
<1>7. OneByOne(u)'
  BY <1>4, <1>6 DEF OneByOne
<1>8. ReadIsTrue(u)'
  BY <1>4 DEF ReadIsTrue
<1>9. QED
  BY <1>4, <1>7, <1>8

\* What a step that has nothing to do with Alipay accounts keeps
LEMMA OutsideKeeps ==
  ASSUME AlipayInvariant, NEW t \in Thread, NEW w \in CheckRow,
         worker' = [worker EXCEPT ![t] = w], ~InTransfer(t), w.pc \notin TransferPc,
         UNCHANGED <<now, alipay>>, crashes' \in Nat, crashes' = 0 => crashes = 0
  PROVE  AlipayInvariant'
<1>1. /\ now' = now /\ paid' = paid /\ overlapped' = overlapped /\ dayCount' = dayCount
      /\ times' = times
  BY DEF alipay
<1>2. /\ AlipayTypeOK /\ DaysAreSet /\ DaysAreCounted /\ ListsAreCounted /\ MarketersInTurn
      /\ worker \in [Thread -> CheckRow]
  BY DEF AlipayInvariant, AlipayTypeOK
<1>3. w.pc \notin {"count", "pop", "push"} /\ w.pc # "count"
  BY DEF TransferPc
<1>4. AlipayTypeOK'
  <2>1. /\ paid' \in Seq(PaidRow) /\ \A i \in DOMAIN paid' : paid'[i].at <= now
        /\ times' \in [Marketer -> Seq(Nat)] /\ dayCount' \in [0..DayOf(MaxNow) -> Nat]
        /\ \A v \in Marketer : \A j \in DOMAIN times'[v] : times'[v][j] <= now
    BY <1>1, <1>2 DEF AlipayTypeOK
  <2>2. QED
    BY <1>1, <1>2, <2>1, TypesStep
<1>5. DaysAreSet'
  <2>1. \A e \in 0..DayOf(MaxNow) : dayCount[e] >= 1 => dayCount'[e] >= 1
    BY <1>1
  <2>2. QED
    BY <1>2, <2>1, SetStep
<1>6. DaysAreCounted'
  BY <1>1, <1>2, <1>3, DaysStep
<1>7. ListsAreCounted'
  BY <1>1, <1>2, <1>3, ListsStep
<1>8. MarketersInTurn'
  <2> SUFFICES ASSUME NEW v \in Marketer, v \notin overlapped
               PROVE  /\ OneByOne(v)'
                      /\ crashes' = 0 => ReadIsTrue(v)' /\ ListIsLatest(v)' /\ FewWithin(v)'
    BY <1>1 DEF MarketersInTurn
  <2>1. AtWorkFor(v)' = AtWorkFor(v) /\ \A s \in AtWorkFor(v) : worker'[s] = worker[s]
    BY <1>2, OthersAtWork
  <2>2. times'[v] = times[v] /\ PaidTo(v)' = PaidTo(v) /\ \A i \in PaidTo(v) : paid'[i] = paid[i]
    BY <1>1 DEF PaidTo
  <2>3. /\ OneByOne(v) => OneByOne(v)'
        /\ ReadIsTrue(v) => ReadIsTrue(v)'
        /\ ListIsLatest(v) => ListIsLatest(v)'
        /\ FewWithin(v) => FewWithin(v)'
    BY <2>1, <2>2, MarketerSame
  <2>4. /\ OneByOne(v)
        /\ crashes = 0 => ReadIsTrue(v) /\ ListIsLatest(v) /\ FewWithin(v)
    BY <1>2 DEF MarketersInTurn
  <2>5. QED
    BY <2>3, <2>4
<1>9. QED
  BY <1>4, <1>5, <1>6, <1>7, <1>8 DEF AlipayInvariant

LEMMA DiesKeeps ==
  ASSUME AlipayInvariant, NEW t \in Thread, WorkerDies(t)
  PROVE  AlipayInvariant'
<1>1. PICK w \in CheckRow : w = Resting
  BY DEF CheckRow
<1>2. w.pc \notin TransferPc /\ w.pc \notin {"count", "pop", "push"} /\ w.pc # "count"
  BY <1>1 DEF Resting, TransferPc
<1>3. /\ worker' = [worker EXCEPT ![t] = w]
      /\ now' = now /\ paid' = paid /\ overlapped' = overlapped /\ dayCount' = dayCount
      /\ times' = times /\ crashes' = crashes + 1
  BY <1>1 DEF WorkerDies, Returns, Goes, alipay
<1>4. /\ AlipayTypeOK /\ DaysAreSet /\ DaysAreCounted /\ ListsAreCounted /\ MarketersInTurn
      /\ worker \in [Thread -> CheckRow] /\ crashes \in Nat
  BY DEF AlipayInvariant, AlipayTypeOK
<1>5. crashes' \in Nat /\ crashes' # 0
  BY <1>3, <1>4
<1>6. CASE ~InTransfer(t)
  <2>1. UNCHANGED <<now, alipay>>
    BY <1>3 DEF alipay
  <2>2. QED
    BY <1>2, <1>3, <1>5, <1>6, <2>1, OutsideKeeps
<1>7. CASE InTransfer(t)
  <2>1. PICK u \in Marketer : worker[t].user = u
    BY <1>7, AtTransfer
  <2>2. MarketersInTurn'
    <3>1. t \in AtWorkFor(u)
      BY <1>7, <2>1 DEF AtWorkFor
    <3>2. \A v \in Marketer \ {u} :
            times'[v] = times[v] /\ PaidTo(v)' = PaidTo(v) /\ \A i \in PaidTo(v) : paid'[i] = paid[i]
      BY <1>3 DEF PaidTo
    <3>3. u \notin overlapped' => OneByOne(u)'
      <4>1. u \notin overlapped' => OneByOne(u)
        BY <1>3, <1>4 DEF MarketersInTurn
      <4>2. worker' = [worker EXCEPT ![t] = Resting]
        BY <1>1, <1>3
      <4>3. QED
        BY <1>3, <1>4, <3>1, <4>1, <4>2, Leaves
    <3>4. overlapped \subseteq overlapped' /\ (crashes' = 0 => crashes = 0)
      BY <1>3, <1>5
    <3>5. QED
      BY <1>2, <1>3, <1>5, <2>1, <3>2, <3>3, <3>4, InTurn
  <2>3. AlipayTypeOK'
    <3>1. /\ paid' \in Seq(PaidRow) /\ \A i \in DOMAIN paid' : paid'[i].at <= now
          /\ times' \in [Marketer -> Seq(Nat)] /\ dayCount' \in [0..DayOf(MaxNow) -> Nat]
          /\ \A v \in Marketer : \A j \in DOMAIN times'[v] : times'[v][j] <= now
      BY <1>3, <1>4 DEF AlipayTypeOK
    <3>2. QED
      BY <1>2, <1>3, <1>4, <1>5, <3>1, TypesStep
  <2>4. DaysAreSet'
    <3>1. \A e \in 0..DayOf(MaxNow) : dayCount[e] >= 1 => dayCount'[e] >= 1
      BY <1>3
    <3>2. QED
      BY <1>2, <1>3, <1>4, <3>1, SetStep
  <2>5. DaysAreCounted'
    BY <1>2, <1>3, <1>4, DaysStep
  <2>6. ListsAreCounted'
    BY <1>2, <1>3, <1>4, ListsStep
  <2>7. QED
    BY <2>2, <2>3, <2>4, <2>5, <2>6 DEF AlipayInvariant
<1>8. QED
  BY <1>6, <1>7

\* One payment more
LEMMA PaidAppend ==
  ASSUME paid \in Seq(PaidRow), NEW r \in PaidRow, paid' = Append(paid, r)
  PROVE  /\ paid' \in Seq(PaidRow) /\ Len(paid) + 1 \notin DOMAIN paid
         /\ \A i \in DOMAIN paid' : i \in DOMAIN paid \/ i = Len(paid) + 1
         /\ Len(paid) + 1 \in DOMAIN paid' /\ paid'[Len(paid) + 1] = r
         /\ \A i \in DOMAIN paid : i \in DOMAIN paid' /\ paid'[i] = paid[i]
  OBVIOUS

\* ... of one marketer on one day
LEMMA PaidSets ==
  ASSUME paid \in Seq(PaidRow), NEW r \in PaidRow, paid' = Append(paid, r)
  PROVE  /\ \A u : PaidTo(u)' = PaidTo(u) \cup (IF r.user = u THEN {Len(paid) + 1} ELSE {})
         /\ \A d : PaidOn(d)' = PaidOn(d) \cup (IF DayOf(r.at) = d THEN {Len(paid) + 1} ELSE {})
         /\ \A u : PaidTo(u) \subseteq DOMAIN paid
         /\ \A d : PaidOn(d) \subseteq DOMAIN paid
<1>1. PICK n : n = Len(paid) + 1
  OBVIOUS
<1>2. /\ n \notin DOMAIN paid
      /\ \A i \in DOMAIN paid' : i \in DOMAIN paid \/ i = n
      /\ n \in DOMAIN paid' /\ paid'[n] = r
      /\ \A i \in DOMAIN paid : i \in DOMAIN paid' /\ paid'[i] = paid[i]
  BY <1>1, PaidAppend
<1>3. ASSUME NEW u
      PROVE  PaidTo(u)' = PaidTo(u) \cup (IF r.user = u THEN {n} ELSE {})
  BY <1>2 DEF PaidTo
<1>4. ASSUME NEW d
      PROVE  PaidOn(d)' = PaidOn(d) \cup (IF DayOf(r.at) = d THEN {n} ELSE {})
  BY <1>2 DEF PaidOn, DayOf
<1>5. \A u : PaidTo(u) \subseteq DOMAIN paid
  BY DEF PaidTo
<1>6. \A d : PaidOn(d) \subseteq DOMAIN paid
  BY DEF PaidOn
<1>7. QED
  BY <1>1, <1>3, <1>4, <1>5, <1>6

LEMMA OneMorePayment ==
  ASSUME NEW s \in Seq(PaidRow), NEW S \in SUBSET (DOMAIN s), NEW n, n \notin DOMAIN s
  PROVE  Cardinality(S \cup {n}) = Cardinality(S) + 1
  BY PaymentsFinite, FS_AddElement

LEMMA OneMoreWorker ==
  ASSUME NEW S \in SUBSET Thread, NEW t, t \notin S
  PROVE  Cardinality(S \cup {t}) = Cardinality(S) + 1
  BY WorkersFinite, FS_AddElement

LEMMA OneWorkerLess ==
  ASSUME NEW S \in SUBSET Thread, NEW t \in S
  PROVE  Cardinality(S \ {t}) = Cardinality(S) - 1
  BY WorkersFinite, FS_RemoveElement

\* The payment of a marketer whose requests do not overlap: no window of the
\* limit gets more than max_times, since the list holds all payments or the
\* last max_times, the oldest of which has left the window.
LEMMA PaidInTurn ==
  ASSUME NEW u \in Marketer, NEW t \in AtWorkFor(u), NEW w \in TransferRow,
         AlipayTypeOK, OneByOne(u), ReadIsTrue(u), ListIsLatest(u), FewWithin(u),
         worker[t].pc = "transfer", worker' = [worker EXCEPT ![t] = w],
         w.pc = "count", w.user = u, w.at = worker[t].at, w.length = worker[t].length,
         NEW r \in PaidRow, r.user = u, r.at = w.at,
         paid' = Append(paid, r), times' = times
  PROVE  ReadIsTrue(u)' /\ ListIsLatest(u)' /\ FewWithin(u)'
<1>1. PICK n : n = Len(paid) + 1
  OBVIOUS
<1>2. PICK list \in Seq(Nat) : list = times[u] /\ times'[u] = list
  BY DEF AlipayTypeOK
<1>3. /\ worker \in [Thread -> CheckRow] /\ w \in CheckRow /\ w.pc \in TransferPc
      /\ paid \in Seq(PaidRow) /\ w.at \in Nat /\ w.length \in Nat
  BY DEF AlipayTypeOK, CheckRow, TransferRow
<1>4. /\ AtWorkFor(u)' = {t} /\ Unlisted(u) = 0 /\ Unlisted(u)' = 1
      /\ ~Popped(u) /\ ~Popped(u)'
  <2>1. /\ Unlisted(u) = IF worker[t].pc \in {"count", "pop", "push"} THEN 1 ELSE 0
        /\ Popped(u) <=> worker[t].pc = "push" /\ worker[t].length >= MaxTimes
        /\ w.pc \in TransferPc /\ w.user = u =>
             /\ AtWorkFor(u)' = {t}
             /\ Unlisted(u)' = IF w.pc \in {"count", "pop", "push"} THEN 1 ELSE 0
             /\ Popped(u)' <=> w.pc = "push" /\ w.length >= MaxTimes
    BY <1>3, Alone
  <2>2. QED
    BY <1>3, <2>1
<1>5. /\ w.length = Len(list)
      /\ w.length >= MaxTimes => list[1] + LimitHours <= w.at
  BY <1>2 DEF ReadIsTrue, ReadOf
<1>6. /\ Len(list) \in Nat /\ MaxTimes \in Nat \ {0} /\ LimitHours \in Nat \ {0}
      /\ DOMAIN list = 1..Len(list) /\ \A j \in DOMAIN list : list[j] \in Nat
  OBVIOUS
<1>7. /\ n \notin DOMAIN paid
      /\ \A i \in DOMAIN paid' : i \in DOMAIN paid \/ i = n
      /\ n \in DOMAIN paid' /\ paid'[n] = r
      /\ \A i \in DOMAIN paid : i \in DOMAIN paid' /\ paid'[i] = paid[i]
  BY <1>1, <1>3, PaidAppend
<1>8. PaidTo(u)' = PaidTo(u) \cup {n} /\ PaidTo(u) \subseteq DOMAIN paid
  BY <1>1, <1>3, PaidSets
<1>9. ReadIsTrue(u)'
  <2>1. worker'[t] = w
    BY <1>3, WorkerMoves DEF AtWorkFor
  <2>2. ReadOf(list, w)
    BY <1>5 DEF ReadOf
  <2>3. ReadOf(times'[u], worker'[t])
    BY <1>2, <2>1, <2>2
  <2>4. QED
    BY <1>4, <2>3 DEF ReadIsTrue, ReadOf
<1>10. /\ Len(list) <= MaxTimes
       /\ \A j \in DOMAIN list : Cardinality(PaidAfter(u, list[j])) <= Len(list) - j
       /\ Len(list) < MaxTimes => Cardinality(PaidTo(u)) <= Len(list)
  <2>1. /\ Len(list) <= MaxTimes
        /\ \A j \in DOMAIN list : Cardinality(PaidAfter(u, list[j])) <= Len(list) - j + 0
        /\ Len(list) < MaxTimes => Cardinality(PaidTo(u)) <= Len(list) + 0
    BY <1>2, <1>4 DEF ListIsLatest
  <2>2. \A j \in DOMAIN list : Len(list) - j + 0 = Len(list) - j
    BY <1>6
  <2>3. QED
    BY <1>6, <2>1, <2>2
<1>11. Cardinality(PaidTo(u)) \in Nat /\ Cardinality(PaidTo(u)') = Cardinality(PaidTo(u)) + 1
  BY <1>3, <1>7, <1>8, OneMorePayment, PaymentsFinite
<1>12. ListIsLatest(u)'
  <2>1. ASSUME NEW j \in DOMAIN list
        PROVE  Cardinality(PaidAfter(u, list[j])') <= Len(list) - j + 1
    <3>1. PICK a \in Nat : a = list[j]
      BY <1>6
    <3>2. PaidAfter(u, a) \subseteq DOMAIN paid
      BY DEF PaidAfter, PaidTo
    <3>3. PaidAfter(u, a)' \subseteq PaidAfter(u, a) \cup {n}
      BY <1>7, <1>8 DEF PaidAfter
    <3>4. /\ Cardinality(PaidAfter(u, a)) \in Nat
          /\ Cardinality(PaidAfter(u, a) \cup {n}) = Cardinality(PaidAfter(u, a)) + 1
          /\ IsFiniteSet(PaidAfter(u, a) \cup {n})
      BY <1>3, <1>7, <3>2, OneMorePayment, PaymentsFinite, FS_AddElement
    <3>5. Cardinality(PaidAfter(u, a)') <= Cardinality(PaidAfter(u, a)) + 1
          /\ Cardinality(PaidAfter(u, a)') \in Nat
      BY <3>3, <3>4, FS_Subset, FS_CardinalityType
    <3>6. Cardinality(PaidAfter(u, a)) <= Len(list) - j
      BY <1>10, <3>1
    <3>7. j \in Nat
      BY <1>6
    <3>8. Cardinality(PaidAfter(u, a)') <= Len(list) - j + 1
      BY <1>6, <3>4, <3>5, <3>6, <3>7
    <3>9. QED
      BY <3>1, <3>8
  <2>2. Len(list) < MaxTimes => Cardinality(PaidTo(u)') <= Len(list) + 1
    BY <1>6, <1>10, <1>11
  <2>3. QED
    BY <1>2, <1>4, <1>10, <2>1, <2>2 DEF ListIsLatest
<1>13. FewWithin(u)'
  <2> SUFFICES ASSUME NEW start \in Nat
               PROVE  Cardinality(PaidWithin(u, start)') <= MaxTimes
    BY DEF FewWithin
  <2>1. PaidWithin(u, start) \subseteq PaidTo(u) /\ PaidWithin(u, start)' \subseteq PaidTo(u)'
    BY DEF PaidWithin
  <2>2. \A i \in PaidTo(u) : paid'[i] = paid[i] /\ paid[i].at \in Nat /\ paid[i].at <= w.at
    <3>1. \A i \in PaidTo(u) : paid[i] \in PaidRow
      BY <1>3, <1>8
    <3>2. QED
      BY <1>7, <1>8, <3>1 DEF OneByOne, PaidRow
  <2>3. PaidWithin(u, start)' \subseteq PaidWithin(u, start) \cup {n}
    BY <1>8, <2>2 DEF PaidWithin
  <2>4. CASE n \notin PaidWithin(u, start)'
    <3>1. PaidWithin(u, start)' = PaidWithin(u, start)
      BY <1>8, <2>2, <2>3, <2>4 DEF PaidWithin
    <3>2. QED
      BY <3>1 DEF FewWithin
  <2>5. CASE n \in PaidWithin(u, start)'
    <3>1. w.at \in start..(start + LimitHours - 1)
      BY <1>7, <2>5 DEF PaidWithin
    <3>2. CASE Len(list) < MaxTimes
      <4>1. IsFiniteSet(PaidTo(u)')
        <5>1. IsFiniteSet(PaidTo(u))
          BY <1>3, <1>8, PaymentsFinite
        <5>2. IsFiniteSet(PaidTo(u) \cup {n})
          BY <5>1, FS_AddElement
        <5>3. QED
          BY <1>8, <5>2
      <4>2. /\ Cardinality(PaidWithin(u, start)') <= Cardinality(PaidTo(u)')
            /\ Cardinality(PaidWithin(u, start)') \in Nat
        BY <2>1, <4>1, FS_Subset, FS_CardinalityType
      <4>3. Cardinality(PaidTo(u)') <= MaxTimes
        BY <1>6, <1>10, <1>11, <3>2
      <4>4. QED
        BY <1>6, <1>11, <4>2, <4>3
    <3>3. CASE Len(list) >= MaxTimes
      <4>1. PICK a \in Nat : a = list[1]
        BY <1>6, <3>3
      <4>2. 1 \in DOMAIN list /\ Len(list) = MaxTimes
        <5>1. Len(list) <= MaxTimes
          BY <1>10
        <5>2. Len(list) = MaxTimes
          BY <1>6, <3>3, <5>1
        <5>3. 1 \in 1..Len(list)
          BY <1>6, <5>2
        <5>4. QED
          BY <1>6, <5>2, <5>3
      <4>3. a < start
        <5>1. PICK at \in Nat : at = w.at
          BY <1>3
        <5>2. a + LimitHours <= at
          BY <1>5, <3>3, <4>1, <5>1
        <5>3. at \in start..(start + LimitHours - 1)
          BY <3>1, <5>1
        <5>4. LimitHours \in Nat
          OBVIOUS
        <5>5. QED
          BY <5>2, <5>3, <5>4
      <4>4. PaidWithin(u, start) \subseteq PaidAfter(u, a)
        BY <2>2, <4>3 DEF PaidWithin, PaidAfter
      <4>5. Cardinality(PaidAfter(u, a)) <= MaxTimes - 1
        BY <1>10, <4>1, <4>2
      <4>6. PaidAfter(u, a) \subseteq DOMAIN paid
        BY <1>8 DEF PaidAfter
      <4>7. IsFiniteSet(PaidAfter(u, a)) /\ Cardinality(PaidAfter(u, a)) \in Nat
        BY <1>3, <4>6, PaymentsFinite
      <4>8. /\ Cardinality(PaidAfter(u, a) \cup {n}) = Cardinality(PaidAfter(u, a)) + 1
            /\ IsFiniteSet(PaidAfter(u, a) \cup {n})
        BY <1>3, <1>7, <4>6, <4>7, OneMorePayment, FS_AddElement
      <4>9. PaidWithin(u, start)' \subseteq PaidAfter(u, a) \cup {n}
        BY <2>3, <4>4
      <4>10. /\ Cardinality(PaidWithin(u, start)') <= Cardinality(PaidAfter(u, a)) + 1
             /\ Cardinality(PaidWithin(u, start)') \in Nat
        BY <4>8, <4>9, FS_Subset, FS_CardinalityType
      <4>11. QED
        BY <1>6, <4>5, <4>7, <4>10
    <3>4. QED
      BY <1>6, <3>2, <3>3
  <2>6. QED
    BY <2>4, <2>5
<1>14. QED
  BY <1>9, <1>12, <1>13

LEMMA TransferKeeps ==
  ASSUME AlipayInvariant, NEW t \in Thread, Transfer(t)
  PROVE  AlipayInvariant'
<1>1. InTransfer(t) /\ worker[t].pc = "transfer"
  BY DEF Transfer, InTransfer
<1>2. PICK u \in Marketer, d \in 0..DayOf(MaxNow) :
        worker[t].user = u /\ DayOf(worker[t].at) = d
  BY <1>1, AtTransfer
<1>3. /\ worker[t] \in TransferRow /\ worker[t].at \in Nat /\ worker[t].at <= now /\ now \in Nat
      /\ AlipayTypeOK /\ DaysAreSet /\ DaysAreCounted /\ ListsAreCounted /\ MarketersInTurn
      /\ worker \in [Thread -> CheckRow] /\ paid \in Seq(PaidRow)
  BY <1>1, AtTransfer DEF AlipayInvariant, AlipayTypeOK
<1>4. /\ times' = times /\ overlapped' = overlapped /\ crashes' = crashes
      /\ dayCount' = dayCount /\ now' = now
  BY DEF Transfer
<1>5. CASE Returns(t) /\ UNCHANGED paid
  <2>1. PICK w \in CheckRow : w = Resting
    BY DEF CheckRow
  <2>2. worker' = [worker EXCEPT ![t] = w] /\ paid' = paid
    BY <1>5, <2>1 DEF Returns, Goes
  <2>3. ReadOf(times[u], w)
    BY <2>1 DEF ReadOf, Resting
  <2>4. worker[t].pc \in {"length", "oldest", "known", "transfer"}
    BY <1>1
  <2>5. QED
    BY <1>2, <1>4, <2>1, <2>2, <2>3, <2>4, ReadingKeeps
<1>6. CASE /\ paid' = Append(paid, [user |-> worker[t].user, account |-> worker[t].account,
                                    at |-> worker[t].at])
           /\ To(t, "count")
  <2>1. PICK w \in TransferRow : w = [worker[t] EXCEPT !.pc = "count"]
    BY <1>3 DEF TransferRow, TransferPc
  <2>2. /\ worker' = [worker EXCEPT ![t] = w] /\ w \in CheckRow
        /\ w.pc = "count" /\ w.pc \in TransferPc /\ w.user = u /\ w.at = worker[t].at
        /\ w.length = worker[t].length /\ w.account = worker[t].account
    BY <1>2, <1>3, <1>6, <2>1 DEF To, Goes, CheckRow, TransferRow, TransferPc
  <2>3. PICK r \in PaidRow : r = [user |-> u, account |-> w.account, at |-> w.at]
    BY DEF PaidRow, TransferRow
  <2>4. /\ r.user = u /\ r.account = w.account /\ r.at = w.at
        /\ paid' = Append(paid, r)
    BY <1>2, <1>6, <2>2, <2>3
  <2>5. PICK n : n = Len(paid) + 1
    OBVIOUS
  <2>6. /\ n \notin DOMAIN paid
        /\ \A i \in DOMAIN paid' : i \in DOMAIN paid \/ i = n
        /\ n \in DOMAIN paid' /\ paid'[n] = r /\ paid' \in Seq(PaidRow)
        /\ \A i \in DOMAIN paid : i \in DOMAIN paid' /\ paid'[i] = paid[i]
    BY <1>3, <2>4, <2>5, PaidAppend
  <2>7. /\ \A v : PaidTo(v)' = PaidTo(v) \cup (IF r.user = v THEN {n} ELSE {})
        /\ \A e : PaidOn(e)' = PaidOn(e) \cup (IF DayOf(r.at) = e THEN {n} ELSE {})
        /\ \A v : PaidTo(v) \subseteq DOMAIN paid
        /\ \A e : PaidOn(e) \subseteq DOMAIN paid
    BY <1>3, <2>4, <2>5, PaidSets
  <2>8. /\ \A e : Counting(e)' = (Counting(e) \ {t})
                     \cup (IF w.pc = "count" /\ DayOf(w.at) = e THEN {t} ELSE {})
        /\ \A v : Pushing(v)' = (Pushing(v) \ {t})
                     \cup (IF w.pc \in {"count", "pop", "push"} /\ w.user = v THEN {t} ELSE {})
    BY <1>3, <2>2, WorkersStep
  <2>9. \A e, v : t \notin Counting(e) /\ t \notin Pushing(v)
    BY <1>1 DEF Counting, Pushing
  <2>10. /\ \A e : Counting(e) \subseteq Thread
         /\ \A v : Pushing(v) \subseteq Thread
         /\ \A e : Cardinality(Counting(e)) \in Nat /\ Cardinality(PaidOn(e)) \in Nat
         /\ \A v : Cardinality(Pushing(v)) \in Nat /\ Cardinality(PaidTo(v)) \in Nat
    BY <1>3, CountedTypes
  <2>11. AlipayTypeOK'
    <3>1. \A i \in DOMAIN paid' : paid'[i].at <= now
      BY <1>3, <2>2, <2>4, <2>6 DEF AlipayTypeOK
    <3>2. /\ crashes' \in Nat /\ dayCount' \in [0..DayOf(MaxNow) -> Nat]
          /\ times' \in [Marketer -> Seq(Nat)]
          /\ \A v \in Marketer : \A j \in DOMAIN times'[v] : times'[v][j] <= now
      BY <1>3, <1>4 DEF AlipayTypeOK
    <3>3. w.pc \in TransferPc => w.at <= now
      BY <1>3, <2>2
    <3>4. QED
      BY <1>3, <1>4, <2>2, <2>6, <3>1, <3>2, <3>3, TypesStep
  <2>12. DaysAreSet'
    <3>1. dayCount[DayOf(worker[t].at)] >= 1
      BY <1>1, <1>3 DEF DaysAreSet
    <3>2. w.pc \in TransferPc \ {"set"} => dayCount'[DayOf(w.at)] >= 1
      BY <1>4, <2>2, <3>1
    <3>3. \A e \in 0..DayOf(MaxNow) : dayCount[e] >= 1 => dayCount'[e] >= 1
      BY <1>4
    <3>4. QED
      BY <1>3, <2>2, <3>2, <3>3, SetStep
  <2>13. DaysAreCounted'
    <3>1. ASSUME NEW e \in 0..DayOf(MaxNow)
          PROVE  /\ Cardinality(Counting(e)') <= Cardinality(PaidOn(e)')
                 /\ dayCount'[e] + Cardinality(Counting(e)') <= 1 + Cardinality(PaidOn(e)')
      <4>1. /\ Cardinality(Counting(e)) <= Cardinality(PaidOn(e))
            /\ dayCount[e] + Cardinality(Counting(e)) <= 1 + Cardinality(PaidOn(e))
            /\ dayCount[e] \in Nat /\ dayCount'[e] = dayCount[e]
        BY <1>3, <1>4 DEF DaysAreCounted, AlipayTypeOK
      <4>2. CASE DayOf(w.at) = e
        <5>1. Counting(e)' = Counting(e) \cup {t} /\ PaidOn(e)' = PaidOn(e) \cup {n}
          BY <2>2, <2>4, <2>7, <2>8, <2>9, <4>2
        <5>2. Cardinality(Counting(e) \cup {t}) = Cardinality(Counting(e)) + 1
          BY <2>9, <2>10, OneMoreWorker
        <5>3. Cardinality(PaidOn(e) \cup {n}) = Cardinality(PaidOn(e)) + 1
          BY <1>3, <2>6, <2>7, OneMorePayment
        <5>4. QED
          BY <2>10, <4>1, <5>1, <5>2, <5>3
      <4>3. CASE DayOf(w.at) # e
        <5>1. Counting(e)' = Counting(e) /\ PaidOn(e)' = PaidOn(e)
          BY <2>4, <2>7, <2>8, <2>9, <4>3
        <5>2. QED
          BY <4>1, <5>1
      <4>4. QED
        BY <4>2, <4>3
    <3>2. QED
      BY <3>1 DEF DaysAreCounted
  <2>14. ListsAreCounted'
    <3>1. ASSUME NEW v \in Marketer
          PROVE  Len(times'[v]) + Cardinality(Pushing(v)') <= Cardinality(PaidTo(v)')
      <4>1. /\ Len(times[v]) + Cardinality(Pushing(v)) <= Cardinality(PaidTo(v))
            /\ times'[v] = times[v] /\ times[v] \in Seq(Nat)
        BY <1>3, <1>4 DEF ListsAreCounted, AlipayTypeOK
      <4>2. Len(times[v]) \in Nat
        BY <4>1
      <4>3. CASE v = u
        <5>1. Pushing(u)' = Pushing(u) \cup {t} /\ PaidTo(u)' = PaidTo(u) \cup {n}
          BY <2>2, <2>4, <2>7, <2>8, <2>9
        <5>2. Cardinality(Pushing(u) \cup {t}) = Cardinality(Pushing(u)) + 1
          BY <2>9, <2>10, OneMoreWorker
        <5>3. Cardinality(PaidTo(u) \cup {n}) = Cardinality(PaidTo(u)) + 1
          BY <1>3, <2>6, <2>7, OneMorePayment
        <5>4. QED
          BY <2>10, <4>1, <4>2, <4>3, <5>1, <5>2, <5>3
      <4>4. CASE v # u
        <5>1. Pushing(v)' = Pushing(v) /\ PaidTo(v)' = PaidTo(v)
          BY <2>2, <2>4, <2>7, <2>8, <2>9, <4>4
        <5>2. QED
          BY <4>1, <5>1
      <4>5. QED
        BY <4>3, <4>4
    <3>2. QED
      BY <3>1 DEF ListsAreCounted
  <2>15. MarketersInTurn'
    <3>1. t \in AtWorkFor(u)
      BY <1>1, <1>2 DEF AtWorkFor
    <3>2. \A v \in Marketer \ {u} :
            times'[v] = times[v] /\ PaidTo(v)' = PaidTo(v) /\ \A i \in PaidTo(v) : paid'[i] = paid[i]
      <4>1. \A v \in Marketer \ {u} : PaidTo(v)' = PaidTo(v)
        BY <2>4, <2>7
      <4>2. \A v : \A i \in PaidTo(v) : paid'[i] = paid[i]
        BY <2>6, <2>7
      <4>3. QED
        BY <1>4, <4>1, <4>2
    <3>3. u \notin overlapped => OneByOne(u)
      BY <1>3 DEF MarketersInTurn
    <3>4. ASSUME u \notin overlapped' PROVE OneByOne(u)'
      <4>1. OneByOne(u)
        BY <1>4, <3>3, <3>4
      <4>2. AtWorkFor(u)' = {t}
        BY <1>3, <2>2, <3>1, <4>1, Alone
      <4>3. worker'[t] = w
        BY <1>3, <2>2, WorkerMoves
      <4>4. PaidTo(u)' = PaidTo(u) \cup {n}
        BY <2>4, <2>7
      <4>5. \A i \in PaidTo(u) : paid'[i] = paid[i] /\ paid[i].at <= w.at
        BY <2>2, <2>6, <2>7, <3>1, <4>1 DEF OneByOne
      <4>6. \A i \in PaidTo(u) : paid[i].account # w.account
        <5>1. ~Known(u, worker[t].account)
          BY <1>1, <3>1, <4>1 DEF OneByOne
        <5>2. QED
          BY <2>2, <5>1 DEF Known, PaidTo
      <4>7. \A i \in PaidTo(u)' : paid'[i].at <= w.at
        <5>1. w.at <= w.at
          BY <1>3, <2>2
        <5>2. QED
          BY <2>4, <2>6, <4>4, <4>5, <5>1
      <4>8. \A i, j \in PaidTo(u)' : paid'[i].account = paid'[j].account => i = j
        <5>1. \A i, j \in PaidTo(u) : paid[i].account = paid[j].account => i = j
          BY <4>1 DEF OneByOne
        <5>2. /\ paid'[n].account = w.account
              /\ \A i \in PaidTo(u) : paid'[i].account = paid[i].account
          BY <2>4, <2>6, <4>5
        <5>3. QED
          BY <4>4, <4>6, <5>1, <5>2
      <4>9. QED
        BY <2>2, <4>2, <4>3, <4>7, <4>8 DEF OneByOne
    <3>5. u \notin overlapped' /\ crashes' = 0 => ReadIsTrue(u)' /\ ListIsLatest(u)' /\ FewWithin(u)'
      <4>1. ASSUME u \notin overlapped', crashes' = 0
            PROVE  OneByOne(u) /\ ReadIsTrue(u) /\ ListIsLatest(u) /\ FewWithin(u)
        BY <1>3, <1>4, <4>1 DEF MarketersInTurn
      <4>2. QED
        BY <1>1, <1>3, <1>4, <2>2, <2>4, <3>1, <4>1, PaidInTurn
    <3>6. InTransfer(t) => worker[t].user = u
      BY <1>2
    <3>7. overlapped \subseteq overlapped' /\ (crashes' = 0 => crashes = 0)
      BY <1>4
    <3>8. QED
      BY <2>2, <3>2, <3>4, <3>5, <3>6, <3>7, InTurn
  <2>16. QED
    BY <2>11, <2>12, <2>13, <2>14, <2>15 DEF AlipayInvariant
<1>7. QED
  BY <1>5, <1>6 DEF Transfer

LEMMA CountKeeps ==
  ASSUME AlipayInvariant, NEW t \in Thread, Count(t)
  PROVE  AlipayInvariant'
<1>1. InTransfer(t) /\ worker[t].pc = "count"
  BY DEF Count, InTransfer
<1>2. PICK u \in Marketer, d \in 0..DayOf(MaxNow) :
        worker[t].user = u /\ DayOf(worker[t].at) = d
  BY <1>1, AtTransfer
<1>3. /\ worker[t] \in TransferRow /\ worker[t].at \in Nat /\ worker[t].at <= now /\ now \in Nat
      /\ AlipayTypeOK /\ DaysAreSet /\ DaysAreCounted /\ ListsAreCounted /\ MarketersInTurn
      /\ worker \in [Thread -> CheckRow] /\ dayCount \in [0..DayOf(MaxNow) -> Nat]
  BY <1>1, AtTransfer DEF AlipayInvariant, AlipayTypeOK
<1>4. PICK w \in TransferRow :
        w = [worker[t] EXCEPT !.pc = IF worker[t].length + 1 > MaxTimes THEN "pop" ELSE "push"]
  BY <1>3 DEF TransferRow, TransferPc
<1>5. /\ worker' = [worker EXCEPT ![t] = w] /\ w \in CheckRow
      /\ w.pc \in TransferPc /\ w.user = u /\ w.at = worker[t].at
      /\ w.length = worker[t].length /\ w.length \in Nat /\ worker[t].length \in Nat
      /\ w.pc = IF worker[t].length + 1 > MaxTimes THEN "pop" ELSE "push"
      /\ w.pc # "count"
  BY <1>2, <1>3, <1>4 DEF Count, To, Goes, CheckRow, TransferRow, TransferPc
<1>6. /\ times' = times /\ overlapped' = overlapped /\ crashes' = crashes
      /\ paid' = paid /\ now' = now /\ dayCount' = [dayCount EXCEPT ![d] = @ + 1]
  BY <1>2 DEF Count
<1>7. /\ dayCount' \in [0..DayOf(MaxNow) -> Nat] /\ dayCount'[d] = dayCount[d] + 1
      /\ dayCount[d] \in Nat /\ \A e \in 0..DayOf(MaxNow) : e # d => dayCount'[e] = dayCount[e]
  BY <1>3, <1>6
<1>8. AlipayTypeOK'
  <2>1. /\ crashes' \in Nat /\ paid' \in Seq(PaidRow) /\ \A i \in DOMAIN paid' : paid'[i].at <= now
        /\ times' \in [Marketer -> Seq(Nat)]
        /\ \A v \in Marketer : \A j \in DOMAIN times'[v] : times'[v][j] <= now
    BY <1>3, <1>6 DEF AlipayTypeOK
  <2>2. w.pc \in TransferPc => w.at <= now
    BY <1>3, <1>5
  <2>3. QED
    BY <1>3, <1>5, <1>6, <1>7, <2>1, <2>2, TypesStep
<1>9. DaysAreSet'
  <2>1. w.pc \in TransferPc \ {"set"} => dayCount'[DayOf(w.at)] >= 1
    BY <1>2, <1>5, <1>7
  <2>2. \A e \in 0..DayOf(MaxNow) : dayCount[e] >= 1 => dayCount'[e] >= 1
    BY <1>7
  <2>3. QED
    BY <1>3, <1>5, <2>1, <2>2, SetStep
<1>10. DaysAreCounted'
  <2>1. ASSUME NEW e \in 0..DayOf(MaxNow)
        PROVE  /\ Cardinality(Counting(e)') <= Cardinality(PaidOn(e)')
               /\ dayCount'[e] + Cardinality(Counting(e)') <= 1 + Cardinality(PaidOn(e)')
    <3>1. /\ Cardinality(Counting(e)) <= Cardinality(PaidOn(e))
          /\ dayCount[e] + Cardinality(Counting(e)) <= 1 + Cardinality(PaidOn(e))
          /\ dayCount[e] \in Nat
      BY <1>3 DEF DaysAreCounted
    <3>2. PaidOn(e)' = PaidOn(e)
      BY <1>6 DEF PaidOn
    <3>3. Counting(e)' = Counting(e) \ {t}
      <4>1. Counting(e)' = (Counting(e) \ {t})
                             \cup (IF w.pc = "count" /\ DayOf(w.at) = e THEN {t} ELSE {})
        BY <1>3, <1>5, WorkersStep
      <4>2. QED
        BY <1>5, <4>1
    <3>4. /\ Counting(e) \subseteq Thread /\ Cardinality(Counting(e)) \in Nat
          /\ Cardinality(PaidOn(e)) \in Nat
      BY <1>3, CountedTypes
    <3>5. t \in Counting(e) <=> e = d
      BY <1>1, <1>2 DEF Counting
    <3>6. CASE e = d
      <4>1. Cardinality(Counting(e) \ {t}) = Cardinality(Counting(e)) - 1
        BY <3>4, <3>5, <3>6, OneWorkerLess
      <4>2. dayCount'[e] = dayCount[e] + 1
        BY <1>7, <3>6
      <4>3. QED
        BY <3>1, <3>2, <3>3, <3>4, <4>1, <4>2
    <3>7. CASE e # d
      <4>1. Counting(e)' = Counting(e)
        BY <3>3, <3>5, <3>7
      <4>2. QED
        BY <1>7, <3>1, <3>2, <3>7, <4>1
    <3>8. QED
      BY <3>6, <3>7
  <2>2. QED
    BY <2>1 DEF DaysAreCounted
<1>11. ListsAreCounted'
  <2>1. w.pc \in {"count", "pop", "push"} => t \in Pushing(w.user)
    BY <1>1, <1>2, <1>5 DEF Pushing, AtWorkFor
  <2>2. QED
    BY <1>3, <1>5, <1>6, <2>1, ListsStep
<1>12. MarketersInTurn'
  <2>1. ASSUME u \notin overlapped, crashes = 0
        PROVE  ReadOf(times[u], w)
    <3>1. ReadOf(times[u], worker[t])
      BY <1>1, <1>2, <2>1, AtTransfer
    <3>2. worker[t].length = Len(times[u])
      BY <1>1, <3>1 DEF ReadOf
    <3>3. MaxTimes \in Nat
      OBVIOUS
    <3>4. QED
      BY <1>5, <3>2, <3>3 DEF ReadOf
  <2>2. /\ worker[t].pc \in {"count", "pop", "push"} <=> w.pc \in {"count", "pop", "push"}
        /\ worker[t].pc # "push"
        /\ w.pc = "transfer" => ~Known(u, w.account)
    BY <1>1, <1>5
  <2>3. QED
    BY <1>1, <1>2, <1>5, <1>6, <2>1, <2>2, SmallStep
<1>13. QED
  BY <1>8, <1>9, <1>10, <1>11, <1>12 DEF AlipayInvariant

LEMMA TailOf ==
  ASSUME NEW s \in Seq(Nat), s # << >>
  PROVE  /\ Tail(s) \in Seq(Nat) /\ Len(Tail(s)) = Len(s) - 1 /\ Len(s) \in Nat
         /\ Len(s) - 1 \in Nat /\ Len(s) - 1 <= Len(s)
         /\ \A j \in 1..(Len(s) - 1) : j + 1 \in 1..Len(s) /\ Tail(s)[j] = s[j + 1]
  OBVIOUS

LEMMA PopKeeps ==
  ASSUME AlipayInvariant, NEW t \in Thread, Pop(t)
  PROVE  AlipayInvariant'
<1>1. InTransfer(t) /\ worker[t].pc = "pop"
  BY DEF Pop, InTransfer
<1>2. PICK u \in Marketer : worker[t].user = u
  BY <1>1, AtTransfer
<1>3. /\ worker[t] \in TransferRow /\ worker[t].at \in Nat /\ worker[t].at <= now /\ now \in Nat
      /\ AlipayTypeOK /\ DaysAreSet /\ DaysAreCounted /\ ListsAreCounted /\ MarketersInTurn
      /\ worker \in [Thread -> CheckRow] /\ times \in [Marketer -> Seq(Nat)]
  BY <1>1, AtTransfer DEF AlipayInvariant, AlipayTypeOK
<1>4. PICK list \in Seq(Nat) : list = times[u]
  BY <1>3
<1>5. /\ overlapped' = overlapped /\ crashes' = crashes /\ paid' = paid /\ now' = now
      /\ dayCount' = dayCount
  BY DEF Pop
<1>6. \A v : PaidTo(v)' = PaidTo(v)
  BY <1>5 DEF PaidTo
<1>7. t \in AtWorkFor(u) /\ t \in Pushing(u)
  BY <1>1, <1>2 DEF AtWorkFor, Pushing
<1>8. PICK w \in CheckRow, rest \in Seq(Nat) :
        /\ worker' = [worker EXCEPT ![t] = w]
        /\ times' = [times EXCEPT ![u] = rest]
        /\ \/ /\ list # << >> /\ rest = Tail(list) /\ w = [worker[t] EXCEPT !.pc = "push"]
           \/ list = << >> /\ rest = list /\ w = Resting
  <2>1. CASE times[u] # << >> /\ times' = [times EXCEPT ![u] = Tail(@)] /\ To(t, "push")
    <3>1. Tail(list) \in Seq(Nat)
      BY <1>4, <2>1
    <3>2. [worker[t] EXCEPT !.pc = "push"] \in CheckRow
      BY <1>3 DEF CheckRow, TransferRow, TransferPc
    <3>3. /\ worker' = [worker EXCEPT ![t] = [worker[t] EXCEPT !.pc = "push"]]
          /\ times' = [times EXCEPT ![u] = Tail(list)]
      BY <1>4, <2>1 DEF To, Goes
    <3>4. QED
      BY <1>4, <2>1, <3>1, <3>2, <3>3
  <2>2. CASE times[u] = << >> /\ UNCHANGED times /\ Returns(t)
    <3>1. times' = [times EXCEPT ![u] = list]
      BY <1>3, <1>4, <2>2
    <3>2. worker' = [worker EXCEPT ![t] = Resting] /\ Resting \in CheckRow
      BY <2>2 DEF Returns, Goes, CheckRow
    <3>3. QED
      BY <1>4, <2>2, <3>1, <3>2
  <2>3. QED
    BY <1>2, <2>1, <2>2 DEF Pop
<1>9. /\ times' \in [Marketer -> Seq(Nat)] /\ times'[u] = rest
      /\ \A v \in Marketer : v # u => times'[v] = times[v]
  BY <1>3, <1>8
<1>10. /\ Len(rest) \in Nat /\ Len(list) \in Nat /\ Len(rest) <= Len(list)
       /\ list # << >> => /\ Len(rest) = Len(list) - 1
                          /\ \A j \in DOMAIN rest : j + 1 \in DOMAIN list /\ rest[j] = list[j + 1]
       /\ DOMAIN rest = 1..Len(rest) /\ DOMAIN list = 1..Len(list)
       /\ list = << >> => DOMAIN rest = {}
  <2>1. /\ Len(rest) \in Nat /\ Len(list) \in Nat
        /\ DOMAIN rest = 1..Len(rest) /\ DOMAIN list = 1..Len(list)
    OBVIOUS
  <2>2. CASE list = << >>
    <3>1. rest = << >> /\ Len(rest) = 0
      BY <1>8, <2>2
    <3>2. QED
      BY <2>1, <2>2, <3>1
  <2>3. CASE list # << >>
    <3>1. rest = Tail(list)
      BY <1>8, <2>3
    <3>2. /\ Len(rest) = Len(list) - 1 /\ Len(list) - 1 <= Len(list)
          /\ \A j \in 1..(Len(list) - 1) : j + 1 \in 1..Len(list) /\ rest[j] = list[j + 1]
      BY <2>3, <3>1, TailOf
    <3>3. QED
      BY <2>1, <2>3, <3>2
  <2>4. QED
    BY <2>2, <2>3
<1>11. /\ \/ w = Resting
          \/ /\ w.pc = "push" /\ w.user = u /\ w.at = worker[t].at
                         /\ w.length = worker[t].length /\ w.pc \in TransferPc
       /\ w.pc # "count" /\ (w.pc \in TransferPc => w.user = u /\ w.pc = "push")
       /\ list = << >> <=> w = Resting
  <2>1. Resting.pc = "idle"
    BY DEF Resting
  <2>2. CASE list = << >>
    BY <1>8, <2>1, <2>2 DEF TransferPc
  <2>3. CASE list # << >>
    <3>1. w = [worker[t] EXCEPT !.pc = "push"]
      BY <1>8, <2>3
    <3>2. /\ w.pc = "push" /\ w.user = u /\ w.at = worker[t].at
          /\ w.length = worker[t].length /\ w.pc \in TransferPc
      BY <1>2, <1>3, <3>1 DEF TransferRow, TransferPc
    <3>3. QED
      BY <2>1, <2>3, <3>2
  <2>4. QED
    BY <2>2, <2>3
<1>12. AlipayTypeOK'
  <2>1. ASSUME NEW v \in Marketer, NEW j \in DOMAIN times'[v]
        PROVE  times'[v][j] <= now
    <3>1. CASE v = u
      <4>1. \A k \in DOMAIN list : list[k] <= now
        BY <1>3, <1>4 DEF AlipayTypeOK
      <4>2. j \in DOMAIN rest /\ list # << >>
        BY <1>9, <1>10, <2>1, <3>1
      <4>3. j + 1 \in DOMAIN list /\ rest[j] = list[j + 1]
        BY <1>10, <4>2
      <4>4. QED
        BY <1>9, <3>1, <4>1, <4>3
    <3>2. CASE v # u
      BY <1>3, <1>9, <3>2 DEF AlipayTypeOK
    <3>3. QED
      BY <3>1, <3>2
  <2>2. /\ crashes' \in Nat /\ paid' \in Seq(PaidRow) /\ \A i \in DOMAIN paid' : paid'[i].at <= now
        /\ dayCount' \in [0..DayOf(MaxNow) -> Nat]
    BY <1>3, <1>5 DEF AlipayTypeOK
  <2>3. w.pc \in TransferPc => w.at <= now
    BY <1>3, <1>11 DEF Resting, TransferPc
  <2>4. QED
    BY <1>3, <1>5, <1>8, <1>9, <2>1, <2>2, <2>3, TypesStep
<1>13. DaysAreSet'
  <2>1. dayCount[DayOf(worker[t].at)] >= 1
    BY <1>1, <1>3 DEF DaysAreSet
  <2>2. w.pc \in TransferPc \ {"set"} => dayCount'[DayOf(w.at)] >= 1
    BY <1>5, <1>11, <2>1 DEF Resting, TransferPc
  <2>3. \A e \in 0..DayOf(MaxNow) : dayCount[e] >= 1 => dayCount'[e] >= 1
    BY <1>5
  <2>4. QED
    BY <1>3, <1>8, <2>2, <2>3, SetStep
<1>14. DaysAreCounted'
  BY <1>3, <1>5, <1>8, <1>11, DaysStep
<1>15. ListsAreCounted'
  <2>1. ASSUME NEW v \in Marketer
        PROVE  Len(times'[v]) + Cardinality(Pushing(v)') <= Cardinality(PaidTo(v)')
    <3>1. Pushing(v)' = (Pushing(v) \ {t})
                  \cup (IF w.pc \in {"count", "pop", "push"} /\ w.user = v THEN {t} ELSE {})
      BY <1>3, <1>8, WorkersStep
    <3>2. Pushing(v)' \subseteq Pushing(v)
      BY <1>7, <1>11, <3>1 DEF Resting, TransferPc
    <3>3. /\ Pushing(v) \subseteq Thread /\ Cardinality(Pushing(v)) \in Nat
          /\ Cardinality(PaidTo(v)) \in Nat
      BY <1>3, CountedTypes
    <3>4. Cardinality(Pushing(v)') <= Cardinality(Pushing(v)) /\ Cardinality(Pushing(v)') \in Nat
      BY <3>2, <3>3, FewerWorkers, WorkersFinite
    <3>5. Len(times'[v]) <= Len(times[v]) /\ Len(times'[v]) \in Nat /\ Len(times[v]) \in Nat
      <4>1. CASE v = u
        BY <1>4, <1>9, <1>10, <4>1
      <4>2. CASE v # u
        <5>1. times'[v] = times[v] /\ times[v] \in Seq(Nat)
          BY <1>3, <1>9, <4>2
        <5>2. Len(times[v]) \in Nat
          BY <5>1
        <5>3. QED
          BY <5>1, <5>2
      <4>3. QED
        BY <4>1, <4>2
    <3>6. Len(times[v]) + Cardinality(Pushing(v)) <= Cardinality(PaidTo(v))
      BY <1>3 DEF ListsAreCounted
    <3>7. Cardinality(PaidTo(v)') = Cardinality(PaidTo(v))
      BY <1>6
    <3>8. PICK a \in Nat, b \in Nat, c \in Nat, m \in Nat, n \in Nat :
            /\ a = Len(times[v]) /\ b = Len(times'[v]) /\ c = Cardinality(PaidTo(v))
            /\ m = Cardinality(Pushing(v)) /\ n = Cardinality(Pushing(v)')
      BY <3>3, <3>4, <3>5
    <3>9. b <= a /\ n <= m /\ a + m <= c
      BY <3>4, <3>5, <3>6, <3>8
    <3>10. b + n <= c
      BY <3>9
    <3>11. QED
      BY <3>7, <3>8, <3>10
  <2>2. QED
    BY <2>1 DEF ListsAreCounted
<1>16. MarketersInTurn'
  <2>1. ASSUME u \notin overlapped'
        PROVE  OneByOne(u) /\ (crashes' = 0 => ReadIsTrue(u) /\ ListIsLatest(u) /\ FewWithin(u))
    BY <1>3, <1>5, <2>1 DEF MarketersInTurn
  <2>2. ASSUME u \notin overlapped', list = << >>
        PROVE  OneByOne(u)' /\ ReadIsTrue(u)'
    <3>1. worker' = [worker EXCEPT ![t] = Resting]
      BY <1>8, <1>11, <2>2
    <3>2. QED
      BY <1>3, <1>5, <1>7, <2>1, <2>2, <3>1, Leaves
  <2>3. ASSUME u \notin overlapped', crashes' = 0
        PROVE  list # << >>
    <3>1. ReadOf(list, worker[t])
      BY <1>4, <1>7, <2>1, <2>3 DEF ReadIsTrue
    <3>2. worker[t].length = Len(list) /\ worker[t].length >= MaxTimes
      BY <1>1, <3>1 DEF ReadOf
    <3>3. MaxTimes \in Nat \ {0}
      OBVIOUS
    <3>4. QED
      BY <3>2, <3>3
  <2>4. ASSUME u \notin overlapped', list # << >>
        PROVE  /\ AtWorkFor(u)' = {t} /\ worker'[t] = w
               /\ Unlisted(u) = 1 /\ Unlisted(u)' = 1
    <3>1. w.pc = "push" /\ w.user = u /\ w.pc \in TransferPc
      BY <1>11, <2>4
    <3>2. /\ Unlisted(u) = IF worker[t].pc \in {"count", "pop", "push"} THEN 1 ELSE 0
          /\ w.pc \in TransferPc /\ w.user = u =>
               /\ AtWorkFor(u)' = {t}
               /\ Unlisted(u)' = IF w.pc \in {"count", "pop", "push"} THEN 1 ELSE 0
      BY <1>3, <1>7, <1>8, <2>1, <2>4, Alone
    <3>3. worker'[t] = w
      BY <1>3, <1>8
    <3>4. QED
      BY <1>1, <3>1, <3>2, <3>3
  <2>5. ASSUME u \notin overlapped', list # << >>
        PROVE  OneByOne(u)'
    <3>1. \A i \in PaidTo(u)' : paid'[i].at <= w.at
      BY <1>5, <1>6, <1>7, <1>11, <2>1, <2>5 DEF OneByOne
    <3>2. \A i, j \in PaidTo(u)' : paid'[i].account = paid'[j].account => i = j
      BY <1>5, <1>6, <2>1, <2>5 DEF OneByOne
    <3>3. w.pc # "transfer"
      BY <1>11, <2>5
    <3>4. QED
      BY <2>4, <2>5, <3>1, <3>2, <3>3 DEF OneByOne
  <2>6. ASSUME u \notin overlapped', crashes' = 0
        PROVE  ReadIsTrue(u)' /\ ListIsLatest(u)' /\ FewWithin(u)'
    <3>1. /\ ReadOf(list, worker[t]) /\ ListIsLatest(u) /\ FewWithin(u)
          /\ list # << >> /\ w # Resting
      BY <1>4, <1>7, <1>11, <2>1, <2>3, <2>6 DEF ReadIsTrue
    <3>2. /\ worker[t].length = Len(list) /\ worker[t].length >= MaxTimes
          /\ Len(list) <= MaxTimes /\ MaxTimes \in Nat \ {0}
      BY <1>1, <1>4, <3>1 DEF ReadOf, ListIsLatest
    <3>3. Len(rest) = MaxTimes - 1 /\ w.length >= MaxTimes
      BY <1>10, <1>11, <3>1, <3>2
    <3>4. ReadOf(rest, w)
      BY <1>11, <3>1, <3>3 DEF ReadOf
    <3>5. ReadIsTrue(u)'
      BY <1>9, <2>4, <2>6, <3>1, <3>4 DEF ReadIsTrue, ReadOf
    <3>6. \A time : PaidAfter(u, time)' = PaidAfter(u, time)
      BY <1>5, <1>6 DEF PaidAfter
    <3>7. ASSUME NEW j \in DOMAIN rest
          PROVE  Cardinality(PaidAfter(u, rest[j])') <= Len(rest) - j + 1
      <4>1. j + 1 \in DOMAIN list /\ rest[j] = list[j + 1] /\ j \in Nat
        <5>1. j \in Nat
          <6>1. j \in 1..Len(rest) /\ Len(rest) \in Nat
            BY <1>10, <3>7
          <6>2. QED
            BY ONLY <6>1
        <5>2. j + 1 \in DOMAIN list /\ rest[j] = list[j + 1]
          BY <1>10, <3>1, <3>7
        <5>3. QED
          BY <5>1, <5>2
      <4>2. Cardinality(PaidAfter(u, list[j + 1])) <= Len(list) - (j + 1) + 1
        BY <1>4, <2>4, <2>6, <3>1, <4>1 DEF ListIsLatest
      <4>3. Len(list) - (j + 1) + 1 = Len(rest) - j + 1
        BY <1>10, <3>1, <4>1
      <4>4. QED
        BY <3>6, <4>1, <4>2, <4>3
    <3>8. Popped(u)'
      BY <1>11, <2>4, <2>6, <3>1, <3>3 DEF Popped
    <3>9. ListIsLatest(u)'
      <4>1. Len(rest) <= MaxTimes
        BY <3>2, <3>3
      <4>2. QED
        BY <1>9, <2>4, <2>6, <3>1, <3>7, <3>8, <4>1 DEF ListIsLatest
    <3>10. FewWithin(u)'
      <4>1. \A start : PaidWithin(u, start)' = PaidWithin(u, start)
        BY <1>5, <1>6 DEF PaidWithin
      <4>2. QED
        BY <3>1, <4>1 DEF FewWithin
    <3>11. QED
      BY <3>5, <3>9, <3>10
  <2>7. u \notin overlapped' => OneByOne(u)'
    BY <2>2, <2>5
  <2>8. \A v \in Marketer \ {u} :
          times'[v] = times[v] /\ PaidTo(v)' = PaidTo(v) /\ \A i \in PaidTo(v) : paid'[i] = paid[i]
    BY <1>5, <1>6, <1>9
  <2>9. /\ InTransfer(t) => worker[t].user = u
        /\ w.pc \in TransferPc => w.user = u
        /\ overlapped \subseteq overlapped' /\ (crashes' = 0 => crashes = 0)
    BY <1>2, <1>5, <1>11
  <2>10. QED
    BY <1>8, <2>6, <2>7, <2>8, <2>9, InTurn
<1>17. QED
  BY <1>12, <1>13, <1>14, <1>15, <1>16 DEF AlipayInvariant

LEMMA AppendOf ==
  ASSUME NEW s \in Seq(Nat), NEW a \in Nat
  PROVE  /\ Append(s, a) \in Seq(Nat) /\ Len(Append(s, a)) = Len(s) + 1 /\ Len(s) \in Nat
         /\ DOMAIN s = 1..Len(s) /\ DOMAIN Append(s, a) = 1..(Len(s) + 1)
         /\ Append(s, a)[Len(s) + 1] = a
         /\ \A j \in DOMAIN Append(s, a) :
              j = Len(s) + 1 \/ (j \in DOMAIN s /\ Append(s, a)[j] = s[j])
<1>1. /\ Append(s, a) \in Seq(Nat) /\ Len(Append(s, a)) = Len(s) + 1 /\ Len(s) \in Nat
      /\ DOMAIN s = 1..Len(s)
  OBVIOUS
<1>2. DOMAIN Append(s, a) = 1..(Len(s) + 1)
  BY <1>1
<1>3. Append(s, a)[Len(s) + 1] = a /\ \A j \in 1..Len(s) : Append(s, a)[j] = s[j]
  BY <1>1
<1>4. \A j \in 1..(Len(s) + 1) : j = Len(s) + 1 \/ j \in 1..Len(s)
  BY <1>1
<1>5. ASSUME NEW j \in DOMAIN Append(s, a)
      PROVE  j = Len(s) + 1 \/ (j \in DOMAIN s /\ Append(s, a)[j] = s[j])
  <2>1. j \in 1..(Len(s) + 1)
    BY <1>2
  <2>2. j = Len(s) + 1 \/ j \in 1..Len(s)
    BY <1>4, <2>1
  <2>3. CASE j \in 1..Len(s)
    <3>1. Append(s, a)[j] = s[j]
      BY <1>3, <2>3
    <3>2. j \in DOMAIN s
      BY <1>1, <2>3
    <3>3. QED
      BY <3>1, <3>2
  <2>4. QED
    BY <2>2, <2>3
<1>6. QED
  BY <1>1, <1>2, <1>3, <1>5

LEMMA PushKeeps ==
  ASSUME AlipayInvariant, NEW t \in Thread, Push(t)
  PROVE  AlipayInvariant'
<1>1. InTransfer(t) /\ worker[t].pc = "push"
  BY DEF Push, InTransfer
<1>2. PICK u \in Marketer, at \in Nat : worker[t].user = u /\ worker[t].at = at
  BY <1>1, AtTransfer
<1>3. /\ worker[t] \in TransferRow /\ at <= now /\ now \in Nat
      /\ AlipayTypeOK /\ DaysAreSet /\ DaysAreCounted /\ ListsAreCounted /\ MarketersInTurn
      /\ worker \in [Thread -> CheckRow] /\ times \in [Marketer -> Seq(Nat)]
  BY <1>1, <1>2, AtTransfer DEF AlipayInvariant, AlipayTypeOK
<1>4. PICK list \in Seq(Nat), longer \in Seq(Nat) : list = times[u] /\ longer = Append(list, at)
  BY <1>2, <1>3, AppendOf
<1>5. /\ overlapped' = overlapped /\ crashes' = crashes /\ paid' = paid /\ now' = now
      /\ dayCount' = dayCount
      /\ worker' = [worker EXCEPT ![t] = Resting]
      /\ times' = [times EXCEPT ![u] = longer]
  BY <1>2, <1>4 DEF Push, Returns, Goes
<1>6. /\ Len(longer) = Len(list) + 1 /\ Len(list) \in Nat /\ Len(longer) \in Nat
      /\ DOMAIN list = 1..Len(list) /\ DOMAIN longer = 1..(Len(list) + 1)
      /\ longer[Len(list) + 1] = at
      /\ \A j \in DOMAIN longer :
           j = Len(list) + 1 \/ (j \in DOMAIN list /\ longer[j] = list[j])
  BY <1>2, <1>4, AppendOf
<1>7. PICK w \in CheckRow : w = Resting
  BY DEF CheckRow
<1>8. w.pc \notin TransferPc /\ w.pc \notin {"count", "pop", "push"} /\ w.pc # "count"
  BY <1>7 DEF Resting, TransferPc
<1>9. worker' = [worker EXCEPT ![t] = w]
  BY <1>5, <1>7
<1>10. /\ times' \in [Marketer -> Seq(Nat)] /\ times'[u] = longer
       /\ \A v \in Marketer : v # u => times'[v] = times[v]
  BY <1>3, <1>4, <1>5
<1>11. \A v : PaidTo(v)' = PaidTo(v)
  BY <1>5 DEF PaidTo
<1>12. t \in AtWorkFor(u) /\ t \in Pushing(u)
  BY <1>1, <1>2 DEF AtWorkFor, Pushing
<1>13. AlipayTypeOK'
  <2>1. ASSUME NEW v \in Marketer, NEW j \in DOMAIN times'[v]
        PROVE  times'[v][j] <= now
    <3>1. CASE v = u
      <4>1. \A k \in DOMAIN list : list[k] <= now
        BY <1>3, <1>4 DEF AlipayTypeOK
      <4>2. j \in DOMAIN longer /\ times'[v] = longer
        BY <1>10, <2>1, <3>1
      <4>3. longer[j] <= now
        BY <1>3, <1>6, <4>1, <4>2
      <4>4. QED
        BY <4>2, <4>3
    <3>2. CASE v # u
      BY <1>3, <1>10, <2>1, <3>2 DEF AlipayTypeOK
    <3>3. QED
      BY <3>1, <3>2
  <2>2. /\ crashes' \in Nat /\ paid' \in Seq(PaidRow) /\ \A i \in DOMAIN paid' : paid'[i].at <= now
        /\ dayCount' \in [0..DayOf(MaxNow) -> Nat]
    BY <1>3, <1>5 DEF AlipayTypeOK
  <2>3. QED
    BY <1>3, <1>5, <1>8, <1>9, <1>10, <2>1, <2>2, TypesStep
<1>14. DaysAreSet'
  <2>1. \A e \in 0..DayOf(MaxNow) : dayCount[e] >= 1 => dayCount'[e] >= 1
    BY <1>5
  <2>2. QED
    BY <1>3, <1>8, <1>9, <2>1, SetStep
<1>15. DaysAreCounted'
  BY <1>3, <1>5, <1>8, <1>9, DaysStep
<1>16. ListsAreCounted'
  <2>1. ASSUME NEW v \in Marketer
        PROVE  Len(times'[v]) + Cardinality(Pushing(v)') <= Cardinality(PaidTo(v)')
    <3>1. Pushing(v)' = Pushing(v) \ {t}
      <4>1. Pushing(v)' = (Pushing(v) \ {t})
                    \cup (IF w.pc \in {"count", "pop", "push"} /\ w.user = v THEN {t} ELSE {})
        BY <1>3, <1>9, WorkersStep
      <4>2. QED
        BY <1>8, <4>1
    <3>2. /\ Pushing(v) \subseteq Thread /\ Cardinality(Pushing(v)) \in Nat
          /\ Cardinality(PaidTo(v)) \in Nat
      BY <1>3, CountedTypes
    <3>3. Len(times[v]) + Cardinality(Pushing(v)) <= Cardinality(PaidTo(v))
      BY <1>3 DEF ListsAreCounted
    <3>4. Cardinality(PaidTo(v)') = Cardinality(PaidTo(v))
      BY <1>11
    <3>5. CASE v = u
      <4>1. Cardinality(Pushing(u)') = Cardinality(Pushing(u)) - 1
        BY <1>12, <3>1, <3>2, <3>5, OneWorkerLess
      <4>2. Len(times[u]) = Len(list) /\ Len(times'[u]) = Len(list) + 1
        BY <1>4, <1>6, <1>10
      <4>3. QED
        BY <1>6, <3>2, <3>3, <3>4, <3>5, <4>1, <4>2
    <3>6. CASE v # u
      <4>1. t \notin Pushing(v)
        BY <1>2, <3>6 DEF Pushing, AtWorkFor
      <4>2. Pushing(v)' = Pushing(v) /\ times'[v] = times[v]
        BY <1>10, <3>1, <3>6, <4>1
      <4>3. QED
        BY <3>3, <3>4, <4>2
    <3>7. QED
      BY <3>5, <3>6
  <2>2. QED
    BY <2>1 DEF ListsAreCounted
<1>17. MarketersInTurn'
  <2>1. ASSUME u \notin overlapped'
        PROVE  OneByOne(u) /\ (crashes' = 0 => ReadIsTrue(u) /\ ListIsLatest(u) /\ FewWithin(u))
    BY <1>3, <1>5, <2>1 DEF MarketersInTurn
  <2>2. ASSUME u \notin overlapped'
        PROVE  OneByOne(u)' /\ ReadIsTrue(u)' /\ Unlisted(u)' = 0 /\ ~Popped(u)'
    BY <1>3, <1>5, <1>12, <2>1, <2>2, Leaves
  <2>3. ASSUME u \notin overlapped'
        PROVE  Unlisted(u) = 1 /\ (Popped(u) <=> worker[t].length >= MaxTimes)
    <3>1. /\ Unlisted(u) = IF worker[t].pc \in {"count", "pop", "push"} THEN 1 ELSE 0
          /\ Popped(u) <=> worker[t].pc = "push" /\ worker[t].length >= MaxTimes
      BY <1>3, <1>9, <1>12, <2>1, <2>3, Alone
    <3>2. QED
      BY <1>1, <3>1
  <2>4. ASSUME u \notin overlapped', crashes' = 0
        PROVE  ListIsLatest(u)' /\ FewWithin(u)'
    <3>1. /\ ReadOf(list, worker[t]) /\ ListIsLatest(u) /\ FewWithin(u)
          /\ worker[t].length \in Nat /\ MaxTimes \in Nat \ {0}
      BY <1>3, <1>4, <1>12, <2>1, <2>4 DEF ReadIsTrue, TransferRow
    <3>2. Len(list) = IF worker[t].length >= MaxTimes THEN MaxTimes - 1 ELSE worker[t].length
      BY <1>1, <3>1 DEF ReadOf
    <3>3. Len(longer) <= MaxTimes
      BY <1>6, <3>1, <3>2
    <3>4. /\ \A j \in DOMAIN list :
               Cardinality(PaidAfter(u, list[j])) <= Len(list) - j + 1
          /\ Len(list) < MaxTimes /\ ~Popped(u) => Cardinality(PaidTo(u)) <= Len(list) + 1
      BY <1>4, <2>3, <2>4, <3>1 DEF ListIsLatest
    <3>5. \A time : PaidAfter(u, time)' = PaidAfter(u, time)
      BY <1>5, <1>11 DEF PaidAfter
    <3>6. ASSUME NEW j \in DOMAIN longer
          PROVE  Cardinality(PaidAfter(u, longer[j])') <= Len(longer) - j + 0
      <4>1. CASE j = Len(list) + 1
        <5>1. \A i \in PaidTo(u) : paid[i].at <= at
          BY <1>2, <1>12, <2>1, <2>4 DEF OneByOne
        <5>2. \A i \in PaidTo(u) : paid[i].at \in Nat
          <6>1. \A i \in PaidTo(u) : paid[i] \in PaidRow
            BY <1>3 DEF AlipayTypeOK, PaidTo
          <6>2. QED
            BY <6>1 DEF PaidRow
        <5>3. PaidAfter(u, at) = {}
          BY <1>2, <5>1, <5>2 DEF PaidAfter
        <5>4. Cardinality(PaidAfter(u, longer[j])') = 0
          BY <1>6, <3>5, <4>1, <5>3, FS_EmptySet
        <5>5. Len(longer) - j + 0 = 0
          BY <1>6, <4>1
        <5>6. QED
          BY <5>4, <5>5
      <4>2. CASE j # Len(list) + 1
        <5>1. j \in DOMAIN list /\ longer[j] = list[j]
          BY <1>6, <3>6, <4>2
        <5>2. Cardinality(PaidAfter(u, list[j])) <= Len(list) - j + 1
          BY <3>4, <5>1
        <5>3. j \in Nat
          <6>1. j \in 1..Len(list) /\ Len(list) \in Nat
            BY <1>6, <5>1
          <6>2. QED
            BY ONLY <6>1
        <5>4. Len(longer) - j + 0 = Len(list) - j + 1
          BY <1>6, <5>3
        <5>5. QED
          BY <3>5, <5>1, <5>2, <5>4
      <4>3. QED
        BY <4>1, <4>2
    <3>7. Len(longer) < MaxTimes => Cardinality(PaidTo(u)') <= Len(longer) + 0
      <4>1. SUFFICES ASSUME Len(longer) < MaxTimes
                     PROVE  Cardinality(PaidTo(u)') <= Len(longer) + 0
        OBVIOUS
      <4>2. ~(worker[t].length >= MaxTimes) /\ Len(list) < MaxTimes
        BY <1>6, <3>1, <3>2, <4>1
      <4>3. Cardinality(PaidTo(u)) <= Len(list) + 1
        BY <2>3, <2>4, <3>4, <4>2
      <4>4. Len(longer) + 0 = Len(list) + 1
        BY <1>6
      <4>5. QED
        BY <1>11, <4>3, <4>4
    <3>8. ListIsLatest(u)'
      BY <1>10, <2>2, <2>4, <3>3, <3>6, <3>7 DEF ListIsLatest
    <3>9. FewWithin(u)'
      <4>1. \A start : PaidWithin(u, start)' = PaidWithin(u, start)
        BY <1>5, <1>11 DEF PaidWithin
      <4>2. QED
        BY <3>1, <4>1 DEF FewWithin
    <3>10. QED
      BY <3>8, <3>9
  <2>5. \A v \in Marketer \ {u} :
          times'[v] = times[v] /\ PaidTo(v)' = PaidTo(v) /\ \A i \in PaidTo(v) : paid'[i] = paid[i]
    BY <1>5, <1>10, <1>11
  <2>6. /\ InTransfer(t) => worker[t].user = u
        /\ w.pc \in TransferPc => w.user = u
        /\ overlapped \subseteq overlapped' /\ (crashes' = 0 => crashes = 0)
    BY <1>2, <1>5, <1>8
  <2>7. QED
    BY <1>9, <2>2, <2>4, <2>5, <2>6, InTurn
<1>18. QED
  BY <1>13, <1>14, <1>15, <1>16, <1>17 DEF AlipayInvariant

LEMMA BeginAlipayKeeps ==
  ASSUME AlipayInvariant, NEW t \in Thread, NEW u \in Marketer, NEW a \in AlipayAccount,
         BeginAlipay(t, u, a)
  PROVE  AlipayInvariant'
<1>1. /\ AlipayTypeOK /\ DaysAreSet /\ DaysAreCounted /\ ListsAreCounted /\ MarketersInTurn
      /\ worker \in [Thread -> CheckRow] /\ now \in Nat /\ now <= MaxNow /\ MaxNow \in Nat
  BY DEF AlipayInvariant, AlipayTypeOK
<1>2. worker[t].pc = "idle" /\ ~InTransfer(t)
  BY DEF BeginAlipay, Starts, Resting, InTransfer
<1>3. /\ paid' = paid /\ times' = times /\ crashes' = crashes /\ dayCount' = dayCount
      /\ now' = now
  BY DEF BeginAlipay
<1>4. PICK d \in 0..DayOf(MaxNow) : d = DayOf(now)
  BY <1>1, DaysInOrder
<1>5. PICK w \in TransferRow :
        w = [pc |-> IF dayCount[d] = 0 THEN "set" ELSE "length",
             user |-> u, account |-> a, at |-> now, length |-> 0]
  <2>1. PICK pc \in TransferPc : pc = IF dayCount[d] = 0 THEN "set" ELSE "length"
    BY DEF TransferPc
  <2>2. [pc |-> pc, user |-> u, account |-> a, at |-> now, length |-> 0] \in TransferRow
    BY <1>1 DEF TransferRow
  <2>3. QED
    BY <2>1, <2>2
<1>6. /\ worker' = [worker EXCEPT ![t] = w] /\ w \in CheckRow /\ w.user = u /\ w.at = now
      /\ w.pc = IF dayCount[d] = 0 THEN "set" ELSE "length"
      /\ w.pc \in TransferPc /\ w.pc \in {"set", "length"}
  BY <1>4, <1>5 DEF BeginAlipay, Goes, CheckRow, TransferPc
<1>7. w.pc \notin {"count", "pop", "push"} /\ w.pc # "count" /\ w.pc # "transfer"
  BY <1>6
<1>8. AlipayTypeOK'
  <2>1. /\ crashes' \in Nat /\ paid' \in Seq(PaidRow) /\ \A i \in DOMAIN paid' : paid'[i].at <= now
        /\ times' \in [Marketer -> Seq(Nat)] /\ dayCount' \in [0..DayOf(MaxNow) -> Nat]
        /\ \A v \in Marketer : \A j \in DOMAIN times'[v] : times'[v][j] <= now
    BY <1>1, <1>3 DEF AlipayTypeOK
  <2>2. w.pc \in TransferPc => w.at <= now
    BY <1>1, <1>6
  <2>3. QED
    BY <1>1, <1>3, <1>6, <2>1, <2>2, TypesStep
<1>9. DaysAreSet'
  <2>1. dayCount[d] \in Nat
    BY <1>1 DEF AlipayTypeOK
  <2>2. w.pc \in TransferPc \ {"set"} => dayCount'[DayOf(w.at)] >= 1
    BY <1>3, <1>4, <1>6, <2>1
  <2>3. \A e \in 0..DayOf(MaxNow) : dayCount[e] >= 1 => dayCount'[e] >= 1
    BY <1>3
  <2>4. QED
    BY <1>1, <1>6, <2>2, <2>3, SetStep
<1>10. DaysAreCounted'
  BY <1>1, <1>3, <1>6, <1>7, DaysStep
<1>11. ListsAreCounted'
  BY <1>1, <1>3, <1>6, <1>7, ListsStep
<1>12. MarketersInTurn'
  <2>1. /\ overlapped \subseteq overlapped'
        /\ u \notin overlapped' => AtWorkFor(u) = {}
    BY DEF BeginAlipay, AtWorkFor
  <2>2. ASSUME u \notin overlapped'
        PROVE  /\ AtWorkFor(u)' = {t} /\ worker'[t] = w
               /\ Unlisted(u)' = 0 /\ Unlisted(u) = 0 /\ ~Popped(u)
    <3>1. /\ worker'[t] = w
          /\ \A s \in Thread : s # t => worker'[s] = worker[s]
          /\ InTransfer(t)' <=> w.pc \in TransferPc
          /\ \A s \in Thread : s # t => (InTransfer(s)' <=> InTransfer(s))
      BY <1>1, <1>6, WorkerMoves
    <3>2. \A s \in Thread : s # t => s \notin AtWorkFor(u)'
      BY <2>1, <2>2, <3>1 DEF AtWorkFor
    <3>3. t \in AtWorkFor(u)'
      BY <1>6, <3>1 DEF AtWorkFor
    <3>4. AtWorkFor(u)' \subseteq Thread
      BY DEF AtWorkFor
    <3>5. AtWorkFor(u)' = {t}
      BY <3>2, <3>3, <3>4
    <3>6. Pushing(u) = {} /\ Pushing(u)' = {}
      BY <1>7, <2>1, <2>2, <3>1, <3>5 DEF Pushing
    <3>7. ~Popped(u)
      BY <2>1, <2>2 DEF Popped
    <3>8. QED
      BY <3>1, <3>5, <3>6, <3>7 DEF Unlisted
  <2>3. PaidTo(u)' = PaidTo(u) /\ \A i : paid'[i] = paid[i]
    BY <1>3 DEF PaidTo
  <2>4. ASSUME u \notin overlapped'
        PROVE  OneByOne(u) /\ (crashes' = 0 => ReadIsTrue(u) /\ ListIsLatest(u) /\ FewWithin(u))
    BY <1>1, <1>3, <2>1, <2>4 DEF MarketersInTurn
  <2>5. ASSUME u \notin overlapped'
        PROVE  OneByOne(u)'
    <3>1. \A i \in PaidTo(u)' : paid'[i].at <= w.at
      BY <1>1, <1>6, <2>3 DEF AlipayTypeOK, PaidTo
    <3>2. \A i, j \in PaidTo(u)' : paid'[i].account = paid'[j].account => i = j
      BY <2>3, <2>4, <2>5 DEF OneByOne
    <3>3. QED
      BY <1>7, <2>2, <2>5, <3>1, <3>2 DEF OneByOne
  <2>6. ASSUME u \notin overlapped', crashes' = 0
        PROVE  ReadIsTrue(u)' /\ ListIsLatest(u)' /\ FewWithin(u)'
    <3>1. ReadOf(times'[u], w)
      BY <1>6 DEF ReadOf
    <3>2. ReadIsTrue(u)'
      BY <2>2, <2>6, <3>1 DEF ReadIsTrue, ReadOf
    <3>3. ListIsLatest(u)' /\ FewWithin(u)'
      <4>1. times'[u] = times[u] /\ Unlisted(u)' = Unlisted(u) /\ (Popped(u) => Popped(u)')
        BY <1>3, <2>2, <2>6
      <4>2. ListIsLatest(u) /\ FewWithin(u)
        BY <2>4, <2>6
      <4>3. QED
        BY <1>3, <4>1, <4>2, ListSame
    <3>4. QED
      BY <3>2, <3>3
  <2>7. \A v \in Marketer \ {u} :
          times'[v] = times[v] /\ PaidTo(v)' = PaidTo(v) /\ \A i \in PaidTo(v) : paid'[i] = paid[i]
    BY <1>3 DEF PaidTo
  <2>8. /\ InTransfer(t) => worker[t].user = u
        /\ w.pc \in TransferPc => w.user = u
        /\ crashes' = 0 => crashes = 0
    BY <1>2, <1>3, <1>6
  <2>9. QED
    BY <1>6, <2>1, <2>5, <2>6, <2>7, <2>8, InTurn
<1>13. QED
  BY <1>8, <1>9, <1>10, <1>11, <1>12 DEF AlipayInvariant

\* A step of a worker other than these keeps what is known of bank accounts.
LEMMA BankSame ==
  ASSUME BankInvariant, worker' \in [Thread -> CheckRow], UNCHANGED <<now, bank>>
  PROVE  BankInvariant'
<1>1. /\ now' = now /\ limit' = limit /\ rows' = rows /\ admitted' = admitted
      /\ refused' = refused /\ created' = created /\ behind' = behind
  BY DEF bank
<1>2. BankTypeOK'
  BY <1>1 DEF BankInvariant, BankTypeOK
<1>3. VerdictIsRecorded'
  BY <1>1 DEF BankInvariant, VerdictIsRecorded, VerdictOn
<1>4. \A u \in Marketer : HourIsCounted(u)'
  BY <1>1 DEF BankInvariant, HourIsCounted, Live
<1>5. QED
  BY <1>2, <1>3, <1>4 DEF BankInvariant

\* What INCR and DECR leave
LEMMA SteppedIs ==
  ASSUME BankTypeOK, NEW u \in Marketer, NEW d \in Int
  PROVE  /\ Stepped(u, d) \in [value : Int, lasts : Int]
         /\ Live(u) => /\ Stepped(u, d).value = limit[u].value + d
                       /\ Stepped(u, d).lasts = limit[u].lasts
         /\ ~Live(u) => Stepped(u, d).value = d /\ Stepped(u, d).lasts = Never
<1>1. limit[u] \in [value : Int, lasts : Int]
  BY DEF BankTypeOK
<1>2. CASE Live(u)
  BY <1>1, <1>2 DEF Stepped
<1>3. CASE ~Live(u)
  BY <1>3 DEF Stepped, Never
<1>4. QED
  BY <1>2, <1>3

\* The counter of one marketer is stepped or set, and the others' are not.
LEMMA CounterStep ==
  ASSUME BankInvariant, NEW u \in Marketer, worker' \in [Thread -> CheckRow],
         now' = now, rows' = rows, behind' = behind,
         NEW key \in [value : Int, lasts : Int],
         NEW a \in Nat, NEW r \in Nat, NEW c \in Nat,
         limit' = [limit EXCEPT ![u] = key], admitted' = [admitted EXCEPT ![u] = a],
         refused' = [refused EXCEPT ![u] = r], created' = [created EXCEPT ![u] = c],
         key.lasts = Never \/ key.lasts = now,
         a <= 1 + key.value + c + behind[u], a <= MaxAnHour + c + behind[u],
         key.lasts = now => a > 0
  PROVE  BankInvariant'
<1>1. BankTypeOK /\ now \in Nat /\ limit \in [Marketer -> [value : Int, lasts : Int]]
  BY DEF BankInvariant, BankTypeOK
<1>2. BankTypeOK'
  BY <1>1 DEF BankTypeOK
<1>3. VerdictIsRecorded'
  BY DEF BankInvariant, VerdictIsRecorded, VerdictOn
<1>4. ASSUME NEW v \in Marketer
      PROVE  HourIsCounted(v)'
  <2>1. HourIsCounted(v)
    BY DEF BankInvariant
  <2>2. CASE v # u
    <3>1. /\ limit'[v] = limit[v] /\ admitted'[v] = admitted[v] /\ refused'[v] = refused[v]
          /\ created'[v] = created[v]
      BY <1>1, <2>2 DEF BankTypeOK
    <3>2. QED
      BY <2>1, <3>1 DEF HourIsCounted, Live
  <2>3. CASE v = u
    <3>1. /\ limit'[u] = key /\ admitted'[u] = a /\ refused'[u] = r /\ created'[u] = c
      BY <1>1 DEF BankTypeOK
    <3>2. key # NoKey
      BY <1>1 DEF NoKey, Never
    <3>3. Live(u)'
      BY <1>1, <3>1, <3>2 DEF Live, Never
    <3>4. key.lasts <= now
      BY <1>1 DEF Never
    <3>5. r > 0 /\ a = 0 => key.lasts = Never
      OBVIOUS
    <3>6. QED
      BY <2>3, <3>1, <3>3, <3>4, <3>5 DEF HourIsCounted
  <2>4. QED
    BY <2>2, <2>3
<1>5. QED
  BY <1>2, <1>3, <1>4 DEF BankInvariant

\* A counter that is stepped is this hour's, or has no expiry.
LEMMA SteppedCounts ==
  ASSUME BankInvariant, NEW u \in Marketer, NEW d \in {1, -1}
  PROVE  /\ Stepped(u, d) \in [value : Int, lasts : Int]
         /\ Stepped(u, d).lasts = Never \/ Stepped(u, d).lasts = now
         /\ Stepped(u, d).lasts = now => admitted[u] > 0
         /\ admitted[u] <= 1 + Stepped(u, d).value - d + created[u] + behind[u]
         /\ admitted[u] <= MaxAnHour + created[u] + behind[u]
         /\ {admitted[u], created[u], behind[u], refused[u], now} \subseteq Nat
<1>1. /\ BankTypeOK /\ HourIsCounted(u) /\ now \in Nat /\ limit[u].lasts \in Int
      /\ limit[u].value \in Int
      /\ admitted[u] \in Nat /\ created[u] \in Nat /\ behind[u] \in Nat /\ refused[u] \in Nat
  BY DEF BankInvariant, BankTypeOK
<1>2. /\ Stepped(u, d) \in [value : Int, lasts : Int]
      /\ Live(u) => /\ Stepped(u, d).value = limit[u].value + d
                    /\ Stepped(u, d).lasts = limit[u].lasts
      /\ ~Live(u) => Stepped(u, d).value = d /\ Stepped(u, d).lasts = Never
  <2>1. d \in Int
    OBVIOUS
  <2>2. QED
    BY <1>1, <2>1, SteppedIs
<1>3. /\ Live(u) => limit[u].lasts = Never \/ limit[u].lasts = now
      /\ Live(u) => admitted[u] <= 1 + limit[u].value + created[u] + behind[u]
      /\ ~Live(u) => admitted[u] = 0
      /\ limit[u].lasts = now => admitted[u] > 0
      /\ admitted[u] <= MaxAnHour + created[u] + behind[u]
  BY <1>1 DEF HourIsCounted, Live
<1> DEFINE v == Stepped(u, d).value
           e == Stepped(u, d).lasts
           f == limit[u].value
<1>4. Never # now
  BY <1>1 DEF Never
<1>5. /\ e = Never \/ e = now
      /\ e = now => admitted[u] > 0
  BY <1>2, <1>3, <1>4
<1>6. v \in Int /\ f \in Int /\ (Live(u) => v = f + d) /\ (~Live(u) => v = d)
  BY <1>1, <1>2
<1> HIDE DEF v, e, f
<1>7. admitted[u] <= 1 + v - d + created[u] + behind[u]
  <2>1. CASE Live(u)
    <3>1. admitted[u] <= 1 + f + created[u] + behind[u] /\ v = f + d
      BY <1>3, <1>6, <2>1 DEF f
    <3>2. QED
      BY <1>1, <1>6, <3>1
  <2>2. CASE ~Live(u)
    BY <1>1, <1>3, <1>6, <2>2
  <2>3. QED
    BY <2>1, <2>2
<1>8. QED
  BY <1>1, <1>2, <1>3, <1>5, <1>7 DEF v, e

\* Verdicts are saved as they are given.
LEMMA SaveStep ==
  ASSUME BankInvariant, NEW b \in BankAccount, NEW read \in RowStatus, NEW status \in Recorded(b),
         Save(b, read, status), worker' \in [Thread -> CheckRow],
         UNCHANGED <<now, limit, admitted, refused, created, behind>>
  PROVE  BankInvariant'
<1>1. status \in RowStatus /\ (status \in {"SUCCESS", "FAIL"} => status = VerdictOn(b))
  BY DEF Recorded, VerdictOn, RowStatus
<1>2. BankTypeOK /\ now \in Nat /\ rows \in [BankAccount -> [status : RowStatus, since : 0..now]]
  BY DEF BankInvariant, BankTypeOK
<1>3. PICK row \in [status : RowStatus, since : 0..now] :
        /\ row = rows[b] \/ row.status = status
        /\ rows' = [rows EXCEPT ![b] = row]
  <2>1. CASE rows' = [rows EXCEPT ![b] = [status |-> status, since |-> now]]
    <3>1. [status |-> status, since |-> now] \in [status : RowStatus, since : 0..now]
      BY <1>1, <1>2
    <3>2. QED
      BY <2>1, <3>1
  <2>2. CASE rows' = rows
    <3>1. rows' = [rows EXCEPT ![b] = rows[b]] /\ rows[b] \in [status : RowStatus, since : 0..now]
      BY <1>2, <2>2
    <3>2. QED
      BY <3>1
  <2>3. CASE rows' = [rows EXCEPT ![b].status = status]
    <3>1. rows' = [rows EXCEPT ![b] = [rows[b] EXCEPT !.status = status]]
      BY <2>3
    <3>2. /\ [rows[b] EXCEPT !.status = status] \in [status : RowStatus, since : 0..now]
          /\ [rows[b] EXCEPT !.status = status].status = status
      BY <1>1, <1>2
    <3>3. QED
      BY <3>1, <3>2
  <2>4. QED
    BY <2>1, <2>2, <2>3 DEF Save
<1>4. rows' \in [BankAccount -> [status : RowStatus, since : 0..now]]
      /\ rows'[b] = row /\ \A c \in BankAccount : c # b => rows'[c] = rows[c]
  BY <1>2, <1>3
<1>5. BankTypeOK'
  BY <1>2, <1>4 DEF BankTypeOK
<1>6. VerdictIsRecorded'
  <2>1. ASSUME NEW c \in BankAccount, rows'[c].status \in {"SUCCESS", "FAIL"}
        PROVE  rows'[c].status = VerdictOn(c)
    <3>1. rows[c].status \in {"SUCCESS", "FAIL"} => rows[c].status = VerdictOn(c)
      BY DEF BankInvariant, VerdictIsRecorded
    <3>2. rows'[c] = rows[c] \/ (c = b /\ rows'[c].status = status)
      BY <1>3, <1>4
    <3>3. QED
      BY <1>1, <2>1, <3>1, <3>2
  <2>2. QED
    BY <2>1 DEF VerdictIsRecorded, VerdictOn
<1>7. \A u \in Marketer : HourIsCounted(u)'
  BY DEF BankInvariant, HourIsCounted, Live
<1>8. QED
  BY <1>5, <1>6, <1>7 DEF BankInvariant

\* A worker that does not check an Alipay account goes on with a bank account.
LEMMA BankMoves ==
  ASSUME ChecksInvariant, NEW t \in Thread, NEW w \in CheckRow,
         worker' = [worker EXCEPT ![t] = w],
         worker[t].pc \notin TransferPc, w.pc \notin TransferPc,
         UNCHANGED <<now, crashes, alipay>>
  PROVE  AlipayInvariant' /\ worker' \in [Thread -> CheckRow]
<1>1. AlipayInvariant /\ crashes' = crashes /\ crashes \in Nat /\ now' = now
      /\ worker \in [Thread -> CheckRow]
  BY DEF ChecksInvariant, AlipayInvariant, AlipayTypeOK
<1>2. ~InTransfer(t)
  BY DEF InTransfer, TransferPc
<1>3. QED
  BY <1>1, <1>2, OutsideKeeps

LEMMA BeginVerifyKeeps ==
  ASSUME ChecksInvariant, NEW t \in Thread, NEW u \in Marketer, NEW b \in BankAccount,
         BeginVerify(t, u, b)
  PROVE  ChecksInvariant'
<1>1. rows[b].status \in RowStatus
  BY DEF ChecksInvariant, BankInvariant, BankTypeOK
<1>2. PICK w \in VerifyRow :
        w = [pc |-> "setnx", user |-> u, account |-> b, read |-> rows[b].status]
  BY <1>1 DEF VerifyRow
<1>3. /\ worker' = [worker EXCEPT ![t] = w] /\ w \in CheckRow
      /\ worker[t].pc \notin TransferPc /\ w.pc \notin TransferPc
      /\ UNCHANGED <<now, crashes, alipay>> /\ UNCHANGED <<now, bank>>
  BY <1>2 DEF BeginVerify, Starts, Goes, Resting, CheckRow, TransferPc
<1>4. AlipayInvariant' /\ worker' \in [Thread -> CheckRow]
  BY <1>3, BankMoves
<1>5. QED
  BY <1>3, <1>4, BankSame DEF ChecksInvariant

LEMMA BeginQueryKeeps ==
  ASSUME ChecksInvariant, NEW t \in Thread, NEW b \in BankAccount, BeginQuery(t, b)
  PROVE  ChecksInvariant'
<1>1. rows[b].status \in RowStatus
  BY DEF ChecksInvariant, BankInvariant, BankTypeOK
<1>2. PICK w \in QueryRow : w = [pc |-> "query", account |-> b, read |-> rows[b].status]
  BY <1>1 DEF QueryRow
<1>3. /\ worker' = [worker EXCEPT ![t] = w] /\ w \in CheckRow
      /\ worker[t].pc \notin TransferPc /\ w.pc \notin TransferPc
      /\ UNCHANGED <<now, crashes, alipay>> /\ UNCHANGED <<now, bank>>
  BY <1>2 DEF BeginQuery, Starts, Goes, Resting, CheckRow, TransferPc
<1>4. AlipayInvariant' /\ worker' \in [Thread -> CheckRow]
  BY <1>3, BankMoves
<1>5. QED
  BY <1>3, <1>4, BankSame DEF ChecksInvariant

\* The answer of the service is saved, or is an error, and the worker returns.
LEMMA AnswerKeeps ==
  ASSUME ChecksInvariant, NEW t \in Thread, Ask(t) \/ Query(t)
  PROVE  ChecksInvariant'
<1>1. PICK w \in CheckRow : w = Resting
  BY DEF CheckRow
<1>2. /\ worker' = [worker EXCEPT ![t] = w]
      /\ worker[t].pc \notin TransferPc /\ w.pc \notin TransferPc
      /\ worker[t].pc \in {"ask", "query"}
      /\ UNCHANGED <<now, crashes, alipay>>
      /\ UNCHANGED <<now, limit, admitted, refused, created, behind>>
  BY <1>1 DEF Ask, Query, Returns, Goes, Resting, TransferPc
<1>3. AlipayInvariant' /\ worker' \in [Thread -> CheckRow]
  BY <1>2, BankMoves
<1>4. worker[t] \in VerifyRow \/ worker[t] \in QueryRow
  BY <1>2, CheckTypes DEF ChecksInvariant, BankInvariant, BankTypeOK
<1>5. PICK b \in BankAccount, read \in RowStatus :
        worker[t].account = b /\ worker[t].read = read
  BY <1>4 DEF VerifyRow, QueryRow
<1>6. \/ UNCHANGED rows
      \/ \E status \in Recorded(b) : Save(b, read, status)
  BY <1>5 DEF Ask, Query
<1>7. CASE UNCHANGED rows
  <2>1. UNCHANGED <<now, bank>>
    BY <1>2, <1>7 DEF bank
  <2>2. QED
    BY <1>3, <2>1, BankSame DEF ChecksInvariant
<1>8. CASE \E status \in Recorded(b) : Save(b, read, status)
  <2>1. PICK status \in Recorded(b) : Save(b, read, status)
    BY <1>8
  <2>2. QED
    BY <1>2, <1>3, <2>1, SaveStep DEF ChecksInvariant
<1>9. QED
  BY <1>6, <1>7, <1>8

LEMMA FirstOfHourKeeps ==
  ASSUME ChecksInvariant, NEW t \in Thread, FirstOfHour(t)
  PROVE  ChecksInvariant'
<1>1. /\ BankInvariant /\ BankTypeOK /\ worker \in [Thread -> CheckRow] /\ now \in Nat
      /\ worker[t].pc = "setnx"
  BY DEF ChecksInvariant, BankInvariant, BankTypeOK, FirstOfHour
<1>2. worker[t] \in VerifyRow
  BY <1>1, CheckTypes
<1>3. PICK u \in Marketer : worker[t].user = u
  BY <1>2 DEF VerifyRow
<1>4. PICK w \in VerifyRow :
        /\ worker' = [worker EXCEPT ![t] = w]
        /\ \/ ~Live(u) /\ w = [worker[t] EXCEPT !.pc = "ask"]
           \/ Live(u) /\ w = [worker[t] EXCEPT !.pc = "incr"]
  <2>1. /\ [worker[t] EXCEPT !.pc = "ask"] \in VerifyRow
        /\ [worker[t] EXCEPT !.pc = "incr"] \in VerifyRow
    BY <1>2 DEF VerifyRow
  <2>2. \/ ~Live(u) /\ worker' = [worker EXCEPT ![t] = [worker[t] EXCEPT !.pc = "ask"]]
        \/ Live(u) /\ worker' = [worker EXCEPT ![t] = [worker[t] EXCEPT !.pc = "incr"]]
    BY <1>3 DEF FirstOfHour, Admit, To, Goes
  <2>3. QED
    BY <2>1, <2>2
<1>5. w \in CheckRow /\ w.pc \notin TransferPc /\ worker[t].pc \notin TransferPc
  BY <1>1, <1>4 DEF CheckRow, VerifyRow, TransferPc
<1>6. now' = now /\ rows' = rows /\ behind' = behind /\ refused' = refused /\ created' = created
      /\ UNCHANGED <<now, crashes, alipay>>
  BY DEF FirstOfHour
<1>7. AlipayInvariant' /\ worker' \in [Thread -> CheckRow]
  BY <1>4, <1>5, <1>6, BankMoves
<1>8. BankInvariant'
  <2>1. CASE Live(u)
    <3>1. limit' = limit /\ admitted' = admitted
      BY <1>3, <2>1 DEF FirstOfHour
    <3>2. UNCHANGED <<now, bank>>
      BY <1>6, <3>1 DEF bank
    <3>3. QED
      BY <1>1, <1>7, <3>2, BankSame
  <2>2. CASE ~Live(u)
    <3>1. /\ limit' = [limit EXCEPT ![u] = [value |-> 0, lasts |-> now]]
          /\ admitted' = [admitted EXCEPT ![u] = @ + 1]
      BY <1>3, <2>2 DEF FirstOfHour, Admit
    <3>2. /\ admitted[u] = 0 /\ refused[u] \in Nat /\ created[u] \in Nat /\ behind[u] \in Nat
          /\ admitted \in [Marketer -> Nat]
      BY <1>1, <2>2 DEF BankInvariant, BankTypeOK, HourIsCounted
    <3>3. PICK key \in [value : Int, lasts : Int] : key = [value |-> 0, lasts |-> now]
      <4>1. 0 \in Int /\ now \in Int
        BY <1>1
      <4>2. [value |-> 0, lasts |-> now] \in [value : Int, lasts : Int]
        BY <4>1
      <4>3. QED
        BY <4>2
    <3>4. /\ limit' = [limit EXCEPT ![u] = key] /\ key.lasts = now /\ key.value = 0
          /\ admitted' = [admitted EXCEPT ![u] = 1]
      BY <3>1, <3>2, <3>3
    <3>5. PICK r \in Nat, c \in Nat : r = refused[u] /\ c = created[u]
      BY <3>2
    <3>6. refused' = [refused EXCEPT ![u] = r] /\ created' = [created EXCEPT ![u] = c]
      BY <1>1, <1>6, <3>5 DEF BankTypeOK
    <3>7. /\ 1 <= 1 + key.value + c + behind[u] /\ 1 <= MaxAnHour + c + behind[u]
          /\ key.lasts = Never \/ key.lasts = now
          /\ key.lasts = now => 1 > 0 /\ 1 \in Nat
      <4>1. MaxAnHour \in Nat \ {0}
        OBVIOUS
      <4>2. QED
        BY <3>2, <3>4, <4>1
    <3>8. 1 \in Nat /\ (key.lasts = now => 1 > 0)
      OBVIOUS
    <3>9. QED
      BY <1>1, <1>6, <1>7, <3>4, <3>6, <3>7, <3>8, CounterStep
  <2>3. QED
    BY <2>1, <2>2
<1>9. QED
  BY <1>7, <1>8 DEF ChecksInvariant

LEMMA NextOfHourKeeps ==
  ASSUME ChecksInvariant, NEW t \in Thread, NextOfHour(t)
  PROVE  ChecksInvariant'
<1>1. /\ BankInvariant /\ BankTypeOK /\ worker \in [Thread -> CheckRow]
      /\ worker[t].pc = "incr"
  BY DEF ChecksInvariant, BankInvariant, BankTypeOK, NextOfHour
<1>2. worker[t] \in VerifyRow
  BY <1>1, CheckTypes
<1>3. PICK u \in Marketer : worker[t].user = u
  BY <1>2 DEF VerifyRow
<1>4. /\ Stepped(u, 1) \in [value : Int, lasts : Int]
      /\ Stepped(u, 1).lasts = Never \/ Stepped(u, 1).lasts = now
      /\ Stepped(u, 1).lasts = now => admitted[u] > 0
      /\ admitted[u] <= 1 + Stepped(u, 1).value - 1 + created[u] + behind[u]
      /\ admitted[u] <= MaxAnHour + created[u] + behind[u]
      /\ {admitted[u], created[u], behind[u], refused[u], now} \subseteq Nat
  BY <1>1, SteppedCounts
<1>5. PICK key \in [value : Int, lasts : Int] : key = Stepped(u, 1)
  BY <1>4
<1>6. PICK a \in Nat, r \in Nat, c \in Nat, n \in Nat :
        a = admitted[u] /\ r = refused[u] /\ c = created[u] /\ n = behind[u]
  BY <1>4
<1>7. /\ key.lasts = Never \/ key.lasts = now
      /\ key.lasts = now => a > 0
      /\ a <= key.value + c + n /\ a <= MaxAnHour + c + n /\ key.value \in Int
      /\ MaxAnHour \in Nat
  <2>1. a <= 1 + key.value - 1 + c + n /\ key.value \in Int
    BY <1>4, <1>5, <1>6
  <2>2. a <= key.value + c + n
    BY <2>1
  <2>3. QED
    BY <1>4, <1>5, <1>6, <2>1, <2>2
<1>8. /\ now' = now /\ rows' = rows /\ behind' = behind /\ created' = created
      /\ UNCHANGED <<now, crashes, alipay>> /\ limit' = [limit EXCEPT ![u] = key]
  BY <1>3, <1>5 DEF NextOfHour
<1>9. created' = [created EXCEPT ![u] = c]
  BY <1>1, <1>6, <1>8 DEF BankTypeOK
<1>10. CASE Within(key.value) /\ Admit(t) /\ UNCHANGED refused
  <2>1. PICK w \in VerifyRow : w = [worker[t] EXCEPT !.pc = "ask"]
    BY <1>2 DEF VerifyRow
  <2>2. /\ worker' = [worker EXCEPT ![t] = w] /\ w \in CheckRow
        /\ w.pc \notin TransferPc /\ worker[t].pc \notin TransferPc
    BY <1>1, <1>2, <1>10, <2>1 DEF Admit, To, Goes, CheckRow, VerifyRow, TransferPc
  <2>3. AlipayInvariant' /\ worker' \in [Thread -> CheckRow]
    BY <1>8, <2>2, BankMoves
  <2>4. /\ admitted' = [admitted EXCEPT ![u] = a + 1] /\ refused' = [refused EXCEPT ![u] = r]
        /\ key.value < MaxAnHour
    BY <1>1, <1>3, <1>6, <1>10 DEF Admit, Within, BankTypeOK
  <2>5. /\ a + 1 \in Nat /\ a + 1 <= 1 + key.value + c + n /\ a + 1 <= MaxAnHour + c + n
        /\ a + 1 > 0
    BY <1>7, <2>4
  <2>6. /\ a + 1 <= 1 + key.value + c + behind[u] /\ a + 1 <= MaxAnHour + c + behind[u]
        /\ key.lasts = now => a + 1 > 0
    BY <1>6, <2>5
  <2>7. PICK m \in Nat : m = a + 1
    BY <2>5
  <2>8. QED
    BY <1>1, <1>7, <1>8, <1>9, <2>3, <2>4, <2>6, <2>7, CounterStep DEF ChecksInvariant
<1>11. CASE /\ refused' = [refused EXCEPT ![u] = @ + 1]
            /\ Returns(t)
            /\ UNCHANGED admitted
  <2>1. PICK w \in CheckRow : w = Resting
    BY DEF CheckRow
  <2>2. /\ worker' = [worker EXCEPT ![t] = w]
        /\ w.pc \notin TransferPc /\ worker[t].pc \notin TransferPc
    BY <1>1, <1>11, <2>1 DEF Returns, Goes, Resting, TransferPc
  <2>3. AlipayInvariant' /\ worker' \in [Thread -> CheckRow]
    BY <1>8, <2>2, BankMoves
  <2>4. PICK m \in Nat : m = r + 1
    OBVIOUS
  <2>5. admitted' = [admitted EXCEPT ![u] = a] /\ refused' = [refused EXCEPT ![u] = m]
    BY <1>1, <1>6, <1>11, <2>4 DEF BankTypeOK
  <2>6. a <= 1 + key.value + c + behind[u] /\ a <= MaxAnHour + c + behind[u]
    <3>1. a <= 1 + key.value + c + n
      BY <1>7
    <3>2. QED
      BY <1>6, <1>7, <3>1
  <2>7. QED
    BY <1>1, <1>7, <1>8, <1>9, <2>3, <2>5, <2>6, CounterStep DEF ChecksInvariant
<1>12. QED
  BY <1>3, <1>5, <1>10, <1>11 DEF NextOfHour

LEMMA DecrRecordKeeps ==
  ASSUME ChecksInvariant, NEW t \in Thread, NEW u \in Marketer, DecrRecord(t, u)
  PROVE  ChecksInvariant'
<1>1. BankInvariant /\ BankTypeOK
  BY DEF ChecksInvariant, BankInvariant
<1>2. /\ Stepped(u, -1) \in [value : Int, lasts : Int]
      /\ Stepped(u, -1).lasts = Never \/ Stepped(u, -1).lasts = now
      /\ Stepped(u, -1).lasts = now => admitted[u] > 0
      /\ admitted[u] <= 1 + Stepped(u, -1).value - (-1) + created[u] + behind[u]
      /\ admitted[u] <= MaxAnHour + created[u] + behind[u]
      /\ {admitted[u], created[u], behind[u], refused[u], now} \subseteq Nat
  BY <1>1, SteppedCounts
<1>3. PICK key \in [value : Int, lasts : Int] : key = Stepped(u, -1)
  BY <1>2
<1>4. PICK a \in Nat, r \in Nat, c \in Nat, n \in Nat :
        a = admitted[u] /\ r = refused[u] /\ c = created[u] /\ n = behind[u]
  BY <1>2
<1>5. PICK m \in Nat : m = c + 1
  OBVIOUS
<1>6. /\ key.lasts = Never \/ key.lasts = now
      /\ key.lasts = now => a > 0
      /\ a <= 1 + key.value + m + behind[u] /\ a <= MaxAnHour + m + behind[u]
  <2>1. a <= 1 + key.value - (-1) + c + n /\ a <= MaxAnHour + c + n /\ key.value \in Int
        /\ MaxAnHour \in Nat
    BY <1>2, <1>3, <1>4
  <2>2. a <= 1 + key.value + m + n /\ a <= MaxAnHour + m + n
    BY <1>5, <2>1
  <2>3. QED
    BY <1>2, <1>3, <1>4, <2>2
<1>7. /\ now' = now /\ rows' = rows /\ behind' = behind /\ UNCHANGED <<now, crashes, alipay>>
      /\ limit' = [limit EXCEPT ![u] = key]
      /\ admitted' = [admitted EXCEPT ![u] = a] /\ refused' = [refused EXCEPT ![u] = r]
      /\ created' = [created EXCEPT ![u] = m]
  BY <1>1, <1>3, <1>4, <1>5 DEF DecrRecord, BankTypeOK
<1>8. PICK w \in CheckRow :
        worker' = [worker EXCEPT ![t] = w] /\ w.pc \in {"idle", "undo"}
  <2>1. [pc |-> "undo", user |-> u] \in CheckRow /\ Resting \in CheckRow /\ Resting.pc = "idle"
    BY DEF CheckRow, UndoRow, Resting
  <2>2. \/ worker' = [worker EXCEPT ![t] = [pc |-> "undo", user |-> u]]
        \/ worker' = [worker EXCEPT ![t] = Resting]
    BY DEF DecrRecord, Goes, Returns
  <2>3. QED
    BY <2>1, <2>2
<1>9. worker[t].pc \notin TransferPc /\ w.pc \notin TransferPc
  BY <1>8 DEF DecrRecord, Starts, Resting, TransferPc
<1>10. AlipayInvariant' /\ worker' \in [Thread -> CheckRow]
  BY <1>7, <1>8, <1>9, BankMoves
<1>11. QED
  BY <1>1, <1>6, <1>7, <1>10, CounterStep DEF ChecksInvariant

LEMMA UndoDecrementKeeps ==
  ASSUME ChecksInvariant, NEW t \in Thread, UndoDecrement(t)
  PROVE  ChecksInvariant'
<1>1. /\ BankInvariant /\ BankTypeOK /\ worker \in [Thread -> CheckRow]
      /\ worker[t].pc = "undo"
  BY DEF ChecksInvariant, BankInvariant, BankTypeOK, UndoDecrement
<1>2. PICK u \in Marketer : worker[t].user = u
  BY <1>1, CheckTypes DEF UndoRow
<1>3. /\ Stepped(u, 1) \in [value : Int, lasts : Int]
      /\ Stepped(u, 1).lasts = Never \/ Stepped(u, 1).lasts = now
      /\ Stepped(u, 1).lasts = now => admitted[u] > 0
      /\ admitted[u] <= 1 + Stepped(u, 1).value - 1 + created[u] + behind[u]
      /\ admitted[u] <= MaxAnHour + created[u] + behind[u]
      /\ {admitted[u], created[u], behind[u], refused[u], now} \subseteq Nat
  BY <1>1, SteppedCounts
<1>4. PICK key \in [value : Int, lasts : Int] : key = Stepped(u, 1)
  BY <1>3
<1>5. PICK a \in Nat, r \in Nat, c \in Nat, n \in Nat :
        a = admitted[u] /\ r = refused[u] /\ c = created[u] /\ n = behind[u]
  BY <1>3
<1>6. /\ key.lasts = Never \/ key.lasts = now
      /\ key.lasts = now => a > 0
      /\ a <= 1 + key.value + c + behind[u] /\ a <= MaxAnHour + c + behind[u]
  <2>1. a <= 1 + key.value - 1 + c + n /\ a <= MaxAnHour + c + n /\ key.value \in Int
    BY <1>3, <1>4, <1>5
  <2>2. a <= 1 + key.value + c + n
    BY <2>1
  <2>3. QED
    BY <1>3, <1>4, <1>5, <2>1, <2>2
<1>7. /\ now' = now /\ rows' = rows /\ behind' = behind /\ UNCHANGED <<now, crashes, alipay>>
      /\ limit' = [limit EXCEPT ![u] = key]
      /\ admitted' = [admitted EXCEPT ![u] = a] /\ refused' = [refused EXCEPT ![u] = r]
      /\ created' = [created EXCEPT ![u] = c]
  BY <1>1, <1>2, <1>4, <1>5 DEF UndoDecrement, BankTypeOK
<1>8. PICK w \in CheckRow : w = Resting
  BY DEF CheckRow
<1>9. /\ worker' = [worker EXCEPT ![t] = w]
      /\ w.pc \notin TransferPc /\ worker[t].pc \notin TransferPc
  BY <1>1, <1>8 DEF UndoDecrement, Returns, Goes, Resting, TransferPc
<1>10. AlipayInvariant' /\ worker' \in [Thread -> CheckRow]
  BY <1>7, <1>9, BankMoves
<1>11. QED
  BY <1>1, <1>6, <1>7, <1>10, CounterStep DEF ChecksInvariant

\* An hour passes: this hour's counters are past, and those that never expire
\* are behind by what they are below -1.
LEMMA HourKeeps ==
  ASSUME ChecksInvariant, HourPasses
  PROVE  ChecksInvariant'
<1>1. /\ now' = now + 1 /\ now' <= MaxNow /\ now \in Nat /\ MaxNow \in Nat
      /\ worker' = worker /\ crashes' = crashes /\ paid' = paid /\ overlapped' = overlapped
      /\ dayCount' = dayCount /\ times' = times /\ limit' = limit /\ rows' = rows
      /\ now' \in Nat
  BY DEF HourPasses, alipay, ChecksInvariant, BankInvariant, BankTypeOK
<1>2. /\ AlipayTypeOK /\ DaysAreSet /\ DaysAreCounted /\ ListsAreCounted /\ MarketersInTurn
      /\ BankTypeOK /\ VerdictIsRecorded
  BY DEF ChecksInvariant, AlipayInvariant, BankInvariant
<1>3. AlipayTypeOK'
  <2>1. \A t \in Thread : InTransfer(t)' => worker'[t].at <= now'
    <3>1. ASSUME NEW t \in Thread, InTransfer(t)
          PROVE  worker[t].at <= now + 1
      <4>1. worker[t].at \in Nat /\ worker[t].at <= now
        BY <3>1, AtTransfer DEF ChecksInvariant
      <4>2. QED
        BY <1>1, <4>1
    <3>2. QED
      BY <1>1, <3>1 DEF InTransfer
  <2>2. \A i \in DOMAIN paid' : paid'[i].at <= now'
    <3>1. ASSUME NEW i \in DOMAIN paid
          PROVE  paid[i].at <= now + 1
      <4>1. paid[i] \in PaidRow /\ paid[i].at <= now
        BY <1>2 DEF AlipayTypeOK
      <4>2. paid[i].at \in Nat
        BY <4>1 DEF PaidRow
      <4>3. QED
        BY <1>1, <4>1, <4>2
    <3>2. QED
      BY <1>1, <3>1
  <2>3. \A u \in Marketer : \A j \in DOMAIN times'[u] : times'[u][j] <= now'
    <3>1. ASSUME NEW u \in Marketer, NEW j \in DOMAIN times[u]
          PROVE  times[u][j] <= now + 1
      <4>1. times[u] \in Seq(Nat) /\ times[u][j] <= now
        BY <1>2 DEF AlipayTypeOK
      <4>2. times[u][j] \in Nat
        BY <4>1
      <4>3. QED
        BY <1>1, <4>1, <4>2
    <3>2. QED
      BY <1>1, <3>1
  <2>4. now' \in 0..MaxNow
    BY <1>1
  <2>5. QED
    BY <1>1, <1>2, <2>1, <2>2, <2>3, <2>4 DEF AlipayTypeOK
<1>4. DaysAreSet'
  BY <1>1, <1>2 DEF DaysAreSet, InTransfer, DayOf
<1>5. DaysAreCounted'
  <2>1. \A d : Counting(d)' = Counting(d) /\ PaidOn(d)' = PaidOn(d)
    BY <1>1 DEF Counting, PaidOn
  <2>2. QED
    BY <1>1, <1>2, <2>1 DEF DaysAreCounted
<1>6. \A u : /\ AtWorkFor(u)' = AtWorkFor(u) /\ PaidTo(u)' = PaidTo(u)
             /\ Pushing(u)' = Pushing(u)
  <2>1. \A u : AtWorkFor(u)' = AtWorkFor(u) /\ PaidTo(u)' = PaidTo(u)
    BY <1>1 DEF AtWorkFor, PaidTo, InTransfer
  <2>2. QED
    BY <1>1, <2>1 DEF Pushing
<1>7. ListsAreCounted'
  BY <1>1, <1>2, <1>6 DEF ListsAreCounted
<1>8. MarketersInTurn'
  <2> SUFFICES ASSUME NEW u \in Marketer, u \notin overlapped
               PROVE  /\ OneByOne(u)'
                      /\ crashes' = 0 => ReadIsTrue(u)' /\ ListIsLatest(u)' /\ FewWithin(u)'
    BY <1>1 DEF MarketersInTurn
  <2>1. /\ OneByOne(u) => OneByOne(u)'
        /\ ReadIsTrue(u) => ReadIsTrue(u)'
        /\ ListIsLatest(u) => ListIsLatest(u)'
        /\ FewWithin(u) => FewWithin(u)'
    BY <1>1, <1>6, MarketerSame
  <2>2. /\ OneByOne(u)
        /\ crashes = 0 => ReadIsTrue(u) /\ ListIsLatest(u) /\ FewWithin(u)
    BY <1>2 DEF MarketersInTurn
  <2>3. QED
    BY <1>1, <2>1, <2>2
<1>9. AlipayInvariant'
  BY <1>3, <1>4, <1>5, <1>7, <1>8 DEF AlipayInvariant
<1>10. BankTypeOK'
  <2>1. /\ admitted' \in [Marketer -> Nat] /\ refused' \in [Marketer -> Nat]
        /\ created' \in [Marketer -> Nat]
    BY DEF HourPasses, Zero
  <2>2. behind' \in [Marketer -> Nat]
    <3>1. ASSUME NEW u \in Marketer
          PROVE  (IF limit[u].lasts = Never /\ limit[u].value < -1
                  THEN -1 - limit[u].value ELSE 0) \in Nat
      <4>1. limit[u].value \in Int
        BY <1>2 DEF BankTypeOK
      <4>2. QED
        BY <4>1
    <3>2. QED
      BY <3>1 DEF HourPasses
  <2>3. rows' \in [BankAccount -> [status : RowStatus, since : 0..now']]
    <3>1. ASSUME NEW b \in BankAccount
          PROVE  rows[b] \in [status : RowStatus, since : 0..(now + 1)]
      <4>1. rows[b] \in [status : RowStatus, since : 0..now]
        BY <1>2 DEF BankTypeOK
      <4>2. 0..now \subseteq 0..(now + 1)
        BY <1>1
      <4>3. QED
        BY <4>1, <4>2
    <3>2. rows = [b \in BankAccount |-> rows[b]]
      BY <1>2 DEF BankTypeOK
    <3>3. QED
      BY <1>1, <3>1, <3>2
  <2>4. QED
    BY <1>1, <1>2, <2>1, <2>2, <2>3 DEF BankTypeOK
<1>11. VerdictIsRecorded'
  BY <1>1, <1>2 DEF VerdictIsRecorded, VerdictOn
<1>12. ASSUME NEW u \in Marketer
       PROVE  HourIsCounted(u)'
  <2>1. /\ admitted'[u] = 0 /\ refused'[u] = 0 /\ created'[u] = 0 /\ limit'[u] = limit[u]
        /\ behind'[u] = IF limit[u].lasts = Never /\ limit[u].value < -1
                        THEN -1 - limit[u].value ELSE 0
    BY <1>1 DEF HourPasses, Zero
  <2>2. PICK v \in Int, e \in Int, n \in Nat :
          v = limit[u].value /\ e = limit[u].lasts /\ n = behind'[u]
    BY <1>2, <1>10 DEF BankTypeOK
  <2>3. e <= now
    BY <2>2 DEF ChecksInvariant, BankInvariant, HourIsCounted
  <2>4. n = IF e = Never /\ v < -1 THEN -1 - v ELSE 0
    BY <2>1, <2>2
  <2>5. e < now' /\ e <= now' /\ e # now'
    BY <1>1, <2>2, <2>3
  <2>6. Live(u)' => e = Never
    <3>1. Live(u)' => e = Never \/ e >= now'
      BY <2>1, <2>2 DEF Live
    <3>2. QED
      BY <1>1, <2>2, <2>5, <3>1
  <2>7. e = Never => 0 <= 1 + v + 0 + n
    BY <2>2, <2>4
  <2>8. MaxAnHour \in Nat
    OBVIOUS
  <2>9. 0 <= MaxAnHour + 0 + n
    BY <2>2, <2>8
  <2>10. QED
    BY <2>1, <2>2, <2>5, <2>6, <2>7, <2>9 DEF HourIsCounted
<1>13. QED
  BY <1>9, <1>10, <1>11, <1>12 DEF ChecksInvariant, BankInvariant

LEMMA AlipayStepKeeps ==
  ASSUME ChecksInvariant, NEW t \in Thread, AlipayStep(t) \/ WorkerDies(t)
  PROVE  ChecksInvariant'
<1>1. AlipayInvariant /\ BankInvariant
  BY DEF ChecksInvariant
<1>2. UNCHANGED <<now, bank>>
  BY DEF AlipayStep, BeginAlipay, SetDay, ReadLength, ReadOldest, CheckKnown, Transfer, Count,
         Pop, Push, WorkerDies
<1>3. AlipayInvariant'
  <2>1. CASE \E u \in Marketer, a \in AlipayAccount : BeginAlipay(t, u, a)
    <3>1. PICK u \in Marketer, a \in AlipayAccount : BeginAlipay(t, u, a)
      BY <2>1
    <3>2. QED
      BY <1>1, <3>1, BeginAlipayKeeps
  <2>2. CASE SetDay(t)
    BY <1>1, <2>2, SetDayKeeps
  <2>3. CASE ReadLength(t)
    BY <1>1, <2>3, ReadLengthKeeps
  <2>4. CASE ReadOldest(t)
    BY <1>1, <2>4, ReadOldestKeeps
  <2>5. CASE CheckKnown(t)
    BY <1>1, <2>5, CheckKnownKeeps
  <2>6. CASE Transfer(t)
    BY <1>1, <2>6, TransferKeeps
  <2>7. CASE Count(t)
    BY <1>1, <2>7, CountKeeps
  <2>8. CASE Pop(t)
    BY <1>1, <2>8, PopKeeps
  <2>9. CASE Push(t)
    BY <1>1, <2>9, PushKeeps
  <2>10. CASE WorkerDies(t)
    BY <1>1, <2>10, DiesKeeps
  <2>11. QED
    BY <2>1, <2>2, <2>3, <2>4, <2>5, <2>6, <2>7, <2>8, <2>9, <2>10 DEF AlipayStep
<1>4. worker' \in [Thread -> CheckRow]
  BY <1>3 DEF AlipayInvariant, AlipayTypeOK
<1>5. QED
  BY <1>1, <1>2, <1>3, <1>4, BankSame DEF ChecksInvariant

LEMMA BankStepKeeps ==
  ASSUME ChecksInvariant, NEW t \in Thread, BankStep(t)
  PROVE  ChecksInvariant'
<1>1. CASE \E u \in Marketer, b \in BankAccount : BeginVerify(t, u, b)
  BY <1>1, BeginVerifyKeeps
<1>2. CASE FirstOfHour(t)
  BY <1>2, FirstOfHourKeeps
<1>3. CASE NextOfHour(t)
  BY <1>3, NextOfHourKeeps
<1>4. CASE Ask(t) \/ Query(t)
  BY <1>4, AnswerKeeps
<1>5. CASE \E b \in BankAccount : BeginQuery(t, b)
  BY <1>5, BeginQueryKeeps
<1>6. CASE \E u \in Marketer : DecrRecord(t, u)
  BY <1>6, DecrRecordKeeps
<1>7. CASE UndoDecrement(t)
  BY <1>7, UndoDecrementKeeps
<1>8. QED
  BY <1>1, <1>2, <1>3, <1>4, <1>5, <1>6, <1>7 DEF BankStep

LEMMA ChecksInitially ==
  ASSUME ChecksInit
  PROVE  ChecksInvariant
<1>1. /\ now = 0 /\ crashes = 0 /\ paid = << >> /\ overlapped = {}
      /\ worker = [t \in Thread |-> Resting] /\ dayCount = [d \in 0..DayOf(MaxNow) |-> 0]
      /\ times = [u \in Marketer |-> << >>] /\ MaxNow \in Nat
  BY DEF ChecksInit
<1>2. \A t \in Thread : ~InTransfer(t) /\ worker[t].pc # "count"
  BY <1>1 DEF InTransfer, Resting
<1>3. DOMAIN paid = {} /\ paid \in Seq(PaidRow)
  BY <1>1
<1>4. /\ \A u : AtWorkFor(u) = {} /\ PaidTo(u) = {}
      /\ \A d : Counting(d) = {} /\ PaidOn(d) = {}
      /\ \A u : Pushing(u) = {}
  <2>1. \A u : AtWorkFor(u) = {}
    BY <1>2 DEF AtWorkFor
  <2>2. \A d : Counting(d) = {}
    BY <1>2 DEF Counting
  <2>3. QED
    BY <1>3, <2>1, <2>2 DEF PaidTo, PaidOn, Pushing
<1>5. Cardinality({}) = 0
  BY FS_EmptySet
<1>6. worker \in [Thread -> CheckRow]
  BY <1>1 DEF CheckRow
<1>7. times \in [Marketer -> Seq(Nat)] /\ \A u \in Marketer : times[u] = << >>
  BY <1>1
<1>8. \A u \in Marketer : DOMAIN times[u] = {} /\ Len(times[u]) = 0
  BY <1>7
<1>9. AlipayTypeOK
  BY <1>1, <1>2, <1>3, <1>6, <1>7, <1>8 DEF AlipayTypeOK
<1>10. DaysAreSet
  BY <1>2 DEF DaysAreSet
<1>11. DaysAreCounted
  <2>1. ASSUME NEW d \in 0..DayOf(MaxNow)
        PROVE  /\ Cardinality(Counting(d)) <= Cardinality(PaidOn(d))
               /\ dayCount[d] + Cardinality(Counting(d)) <= 1 + Cardinality(PaidOn(d))
    <3>1. Cardinality(Counting(d)) = 0 /\ Cardinality(PaidOn(d)) = 0 /\ dayCount[d] = 0
      BY <1>1, <1>4, <1>5
    <3>2. QED
      BY <3>1
  <2>2. QED
    BY <2>1 DEF DaysAreCounted
<1>12. ListsAreCounted
  <2>1. ASSUME NEW u \in Marketer
        PROVE  Len(times[u]) + Cardinality(Pushing(u)) <= Cardinality(PaidTo(u))
    <3>1. Len(times[u]) = 0 /\ Cardinality(Pushing(u)) = 0 /\ Cardinality(PaidTo(u)) = 0
      BY <1>4, <1>5, <1>8
    <3>2. QED
      BY <3>1
  <2>2. QED
    BY <2>1 DEF ListsAreCounted
<1>13. ASSUME NEW u \in Marketer
       PROVE  OneByOne(u) /\ ReadIsTrue(u) /\ ListIsLatest(u) /\ FewWithin(u)
  <2>1. OneByOne(u) /\ ReadIsTrue(u)
    BY <1>4 DEF OneByOne, ReadIsTrue
  <2>2. MaxTimes \in Nat
    OBVIOUS
  <2>3. FewWithin(u)
    <3>1. \A start : PaidWithin(u, start) = {}
      BY <1>4 DEF PaidWithin
    <3>2. QED
      BY <1>5, <2>2, <3>1 DEF FewWithin
  <2>4. ListIsLatest(u)
    <3>1. Cardinality(PaidTo(u)) = 0 /\ Unlisted(u) = 0
      BY <1>4, <1>5 DEF Unlisted
    <3>2. QED
      BY <1>8, <2>2, <3>1 DEF ListIsLatest
  <2>5. QED
    BY <2>1, <2>3, <2>4
<1>14. AlipayInvariant
  BY <1>9, <1>10, <1>11, <1>12, <1>13 DEF AlipayInvariant, MarketersInTurn
<1>15. /\ limit = [u \in Marketer |-> NoKey] /\ rows = [b \in BankAccount |-> NotChecked]
       /\ \A u \in Marketer : /\ admitted[u] = 0 /\ refused[u] = 0 /\ created[u] = 0
                              /\ behind[u] = 0 /\ limit[u] = NoKey
       /\ {admitted, refused, created, behind} \subseteq [Marketer -> Nat]
  BY DEF ChecksInit, Zero
<1>16. BankTypeOK
  <2>1. NoKey \in [value : Int, lasts : Int]
    BY DEF NoKey
  <2>2. NotChecked \in [status : RowStatus, since : 0..now]
    BY <1>1 DEF NotChecked, RowStatus
  <2>3. QED
    BY <1>1, <1>6, <1>15, <2>1, <2>2 DEF BankTypeOK
<1>17. VerdictIsRecorded
  BY <1>15 DEF VerdictIsRecorded, NotChecked
<1>18. ASSUME NEW u \in Marketer
       PROVE  HourIsCounted(u)
  <2>1. ~Live(u) /\ limit[u].lasts = -2
    BY <1>15 DEF Live, NoKey
  <2>2. 0 <= MaxAnHour + 0 + 0 /\ ~(0 > 0)
    <3>1. MaxAnHour \in Nat
      OBVIOUS
    <3>2. QED
      BY <3>1
  <2>3. -2 <= now /\ -2 # now
    BY <1>1
  <2>4. QED
    BY <1>15, <2>1, <2>2, <2>3 DEF HourIsCounted
<1>19. QED
  BY <1>14, <1>16, <1>17, <1>18 DEF ChecksInvariant, BankInvariant

LEMMA ChecksStep ==
  ASSUME ChecksInvariant, [ChecksNext]_checks
  PROVE  ChecksInvariant'
<1>1. ASSUME NEW t \in Thread, AlipayStep(t) \/ WorkerDies(t)
      PROVE  ChecksInvariant'
  BY <1>1, AlipayStepKeeps
<1>2. ASSUME NEW t \in Thread, BankStep(t)
      PROVE  ChecksInvariant'
  BY <1>2, BankStepKeeps
<1>3. CASE HourPasses
  BY <1>3, HourKeeps
<1>4. CASE UNCHANGED checks
  <2>1. /\ now' = now /\ worker' = worker /\ crashes' = crashes
        /\ paid' = paid /\ overlapped' = overlapped /\ dayCount' = dayCount /\ times' = times
        /\ UNCHANGED <<now, bank>>
    BY <1>4 DEF checks, alipay
  <2>2. worker \in [Thread -> CheckRow]
    BY DEF ChecksInvariant, BankInvariant, BankTypeOK
  <2>3. BankInvariant'
    BY <2>1, <2>2, BankSame DEF ChecksInvariant
  <2>4. /\ AlipayTypeOK /\ DaysAreSet /\ DaysAreCounted /\ ListsAreCounted /\ MarketersInTurn
    BY DEF ChecksInvariant, AlipayInvariant
  <2>5. AlipayTypeOK' /\ DaysAreSet'
    BY <2>1, <2>4 DEF AlipayTypeOK, DaysAreSet, InTransfer, DayOf
  <2>6. \A u : AtWorkFor(u)' = AtWorkFor(u) /\ PaidTo(u)' = PaidTo(u) /\ Pushing(u)' = Pushing(u)
    <3>1. \A u : AtWorkFor(u)' = AtWorkFor(u) /\ PaidTo(u)' = PaidTo(u)
      BY <2>1 DEF AtWorkFor, PaidTo, InTransfer
    <3>2. QED
      BY <2>1, <3>1 DEF Pushing
  <2>7. DaysAreCounted'
    <3>1. \A d : Counting(d)' = Counting(d) /\ PaidOn(d)' = PaidOn(d)
      BY <2>1 DEF Counting, PaidOn
    <3>2. QED
      BY <2>1, <2>4, <3>1 DEF DaysAreCounted
  <2>8. ListsAreCounted'
    BY <2>1, <2>4, <2>6 DEF ListsAreCounted
  <2>9. MarketersInTurn'
    <3> SUFFICES ASSUME NEW u \in Marketer, u \notin overlapped
                 PROVE  /\ OneByOne(u)'
                        /\ crashes' = 0 => ReadIsTrue(u)' /\ ListIsLatest(u)' /\ FewWithin(u)'
      BY <2>1 DEF MarketersInTurn
    <3>1. /\ OneByOne(u) => OneByOne(u)'
          /\ ReadIsTrue(u) => ReadIsTrue(u)'
          /\ ListIsLatest(u) => ListIsLatest(u)'
          /\ FewWithin(u) => FewWithin(u)'
      BY <2>1, <2>6, MarketerSame
    <3>2. /\ OneByOne(u)
          /\ crashes = 0 => ReadIsTrue(u) /\ ListIsLatest(u) /\ FewWithin(u)
      BY <2>4 DEF MarketersInTurn
    <3>3. QED
      BY <2>1, <3>1, <3>2
  <2>10. QED
    BY <2>3, <2>5, <2>7, <2>8, <2>9 DEF ChecksInvariant, AlipayInvariant
<1>5. QED
  BY <1>1, <1>2, <1>3, <1>4 DEF ChecksNext

\* The invariant of the checks, for any workers, marketers, accounts and limits
THEOREM ChecksCorrect == ChecksSpec => []ChecksInvariant
<1>1. ChecksInit => ChecksInvariant
  BY ChecksInitially
<1>2. ChecksInvariant /\ [ChecksNext]_checks => ChecksInvariant'
  BY ChecksStep
<1>3. QED
  BY <1>1, <1>2, PTL DEF ChecksSpec

\* The limits of transfers and of bank checks (check_alipay_account and
\* verify_account) hold however the workers' commands on redis interleave, and
\* nothing is counted that was not done.
THEOREM ChecksLimitedCorrect == ChecksSpec => []ChecksAreLimited
<1>1. ChecksInvariant => ChecksAreLimited
  <2> SUFFICES ASSUME ChecksInvariant
               PROVE  ChecksAreLimited
    OBVIOUS
  <2>1. /\ AlipayTypeOK /\ DaysAreSet /\ DaysAreCounted /\ ListsAreCounted /\ MarketersInTurn
        /\ BankTypeOK /\ \A u \in Marketer : HourIsCounted(u)
    BY DEF ChecksInvariant, AlipayInvariant, BankInvariant
  <2>2. ChecksTypeOK
    <3>1. now \in 0..MaxNow /\ now \in Nat
      BY <2>1 DEF AlipayTypeOK
    <3>2. \A t \in Thread : worker[t].pc \in Pc
      BY <2>1, CheckTypes DEF AlipayTypeOK
    <3>3. \A i \in DOMAIN paid :
            paid[i] \in [user : Marketer, account : AlipayAccount, at : 0..now]
      <4>1. ASSUME NEW i \in DOMAIN paid
            PROVE  paid[i] \in [user : Marketer, account : AlipayAccount, at : 0..now]
        <5>1. paid[i] \in PaidRow /\ paid[i].at <= now
          BY <2>1 DEF AlipayTypeOK
        <5>2. paid[i].at \in 0..now
          BY <3>1, <5>1 DEF PaidRow
        <5>3. QED
          BY <5>1, <5>2 DEF PaidRow
      <4>2. QED
        BY <4>1
    <3>4. \A t \in Thread :
            InTransfer(t) /\ worker[t].pc # "set" => dayCount[DayOf(worker[t].at)] >= 1
      BY <2>1 DEF DaysAreSet
    <3>5. ASSUME NEW u \in Marketer
          PROVE  times[u] \in Seq(0..now) /\ limit[u].value \in Int
      <4>1. PICK list \in Seq(Nat) : list = times[u]
        BY <2>1 DEF AlipayTypeOK
      <4>2. \A j \in DOMAIN list : list[j] <= now
        BY <2>1, <4>1 DEF AlipayTypeOK
      <4>3. \A j \in 1..Len(list) : list[j] \in 0..now
        BY <3>1, <4>2
      <4>4. list \in Seq(0..now)
        <5>1. list \in [1..Len(list) -> 0..now] /\ Len(list) \in Nat
          BY <4>3
        <5>2. PICK n \in Nat : n = Len(list)
          BY <5>1
        <5>3. list \in [1..n -> 0..now]
          BY <5>1, <5>2
        <5>4. list \in UNION {[1..m -> 0..now] : m \in Nat}
          BY <5>2, <5>3, Zenon
        <5>5. Seq(0..now) = UNION {[1..m -> 0..now] : m \in Nat}
          BY SeqDef, Zenon
        <5>6. QED
          BY <5>4, <5>5, Zenon
      <4>5. QED
        BY <2>1, <4>1, <4>4 DEF BankTypeOK
    <3>6. rows \in [BankAccount ->
                      [status : {"NONE", "VERIFYING", "SUCCESS", "FAIL"}, since : 0..now]]
      BY <2>1 DEF BankTypeOK, RowStatus
    <3>7. QED
      BY <3>1, <3>2, <3>3, <3>4, <3>5, <3>6 DEF ChecksTypeOK
  <2>3. TransfersAreLimited
    <3>1. ASSUME NEW u \in Marketer \ overlapped, NEW start \in 0..now, crashes = 0
          PROVE  Cardinality({i \in PaidTo(u) : paid[i].at \in start..(start + LimitHours - 1)})
                   <= MaxTimes
      <4>1. FewWithin(u) /\ start \in Nat
        BY <2>1, <3>1 DEF MarketersInTurn, AlipayTypeOK
      <4>2. Cardinality(PaidWithin(u, start)) <= MaxTimes
        BY <4>1 DEF FewWithin
      <4>3. QED
        BY <4>2 DEF PaidWithin
    <3>2. QED
      BY <3>1 DEF TransfersAreLimited
  <2>4. CountedIsPaid
    <3>1. ASSUME NEW d \in DOMAIN dayCount
          PROVE  dayCount[d] <= 1 + Cardinality({i \in DOMAIN paid : DayOf(paid[i].at) = d})
      <4>1. d \in 0..DayOf(MaxNow) /\ dayCount[d] \in Nat
        BY <2>1 DEF AlipayTypeOK
      <4>2. /\ dayCount[d] + Cardinality(Counting(d)) <= 1 + Cardinality(PaidOn(d))
            /\ Cardinality(Counting(d)) \in Nat /\ Cardinality(PaidOn(d)) \in Nat
        BY <2>1, <4>1, CountedTypes DEF DaysAreCounted
      <4>3. dayCount[d] <= 1 + Cardinality(PaidOn(d))
        BY <4>1, <4>2
      <4>4. QED
        BY <4>3 DEF PaidOn
    <3>2. ASSUME NEW u \in Marketer
          PROVE  Len(times[u]) <= Cardinality(PaidTo(u))
      <4>1. times[u] \in Seq(Nat)
        BY <2>1 DEF AlipayTypeOK
      <4>2. Len(times[u]) \in Nat
        BY <4>1
      <4>3. /\ Len(times[u]) + Cardinality(Pushing(u)) <= Cardinality(PaidTo(u))
            /\ Cardinality(Pushing(u)) \in Nat /\ Cardinality(PaidTo(u)) \in Nat
        BY <2>1, CountedTypes DEF ListsAreCounted
      <4>4. QED
        BY <4>2, <4>3
    <3>3. QED
      BY <3>1, <3>2 DEF CountedIsPaid
  <2>5. BankChecksAreLimited /\ NextHourIsFree
    BY <2>1 DEF BankChecksAreLimited, NextHourIsFree, HourIsCounted
  <2>6. QED
    BY <2>2, <2>3, <2>4, <2>5 DEF ChecksAreLimited
<1>2. QED
  BY <1>1, ChecksCorrect, PTL

\* A marketer whose requests never overlap is paid for one account once
\* (check_transfer_success), whatever other workers do and whichever die.
THEOREM PaidOnceCorrect == ChecksSpec => []PaidOnce
<1>1. ChecksInvariant => PaidOnce
  <2> SUFFICES ASSUME ChecksInvariant, NEW u \in Marketer \ overlapped, NEW a \in AlipayAccount
               PROVE  Cardinality({i \in PaidTo(u) : paid[i].account = a}) <= 1
    BY DEF PaidOnce
  <2> DEFINE S == {i \in PaidTo(u) : paid[i].account = a}
  <2>1. \A i, j \in PaidTo(u) : paid[i].account = paid[j].account => i = j
    BY DEF ChecksInvariant, AlipayInvariant, MarketersInTurn, OneByOne
  <2>2. CASE S = {}
    <3>1. Cardinality(S) = 0
      BY <2>2, FS_EmptySet
    <3> HIDE DEF S
    <3>2. Cardinality(S) <= 1
      BY <3>1
    <3>3. QED
      BY <3>2 DEF S
  <2>3. CASE S # {}
    <3>1. PICK i : i \in S
      BY <2>3
    <3>2. S = {i}
      BY <2>1, <3>1
    <3>3. Cardinality(S) = 1
      BY <3>2, FS_Singleton
    <3> HIDE DEF S
    <3>4. Cardinality(S) <= 1
      BY <3>3
    <3>5. QED
      BY <3>4 DEF S
  <2>4. QED
    BY <2>2, <2>3
<1>2. QED
  BY <1>1, ChecksCorrect, PTL

\* A decided row holds the service's verdict (_record_verify_result), whoever
\* asked, queried or saved in between.
THEOREM VerdictRecordedCorrect == ChecksSpec => []VerdictIsRecorded
<1>1. ChecksInvariant => VerdictIsRecorded
  BY DEF ChecksInvariant, BankInvariant
<1>2. QED
  BY <1>1, ChecksCorrect, PTL

=============================================================================
