------------------------------ MODULE Merchants ------------------------------
(***************************************************************************)
(* Merchants and their staff: registration by a marketer, the audit, the   *)
(* changes a merchant's people and the platform's administrators make.  A  *)
(* request reads a row when it starts and saves all its columns when it    *)
(* ends (Model.save), so that requests overtake each other; only a         *)
(* registration locks the row it changes.                                  *)
(*                                                                         *)
(* A merchant is named by the payment code that its registration binds:    *)
(* the code is unique, as is the openid of a member of staff, who          *)
(* therefore has one row at most, whatever merchant it works for.          *)
(***************************************************************************)
EXTENDS FiniteSets

CONSTANTS
  Merchant,    \* merchants, by payment code
  Person,      \* people, by the openid and unionid of their phone
  Profile,     \* what a merchant says of itself: name, address, pictures ...
  Worker       \* the requests and the open pages of auditors at the same time

MerchantStatus == {"REVIEWING", "USING", "REJECTED", "DISABLED"}

\* An auditor's request may set any integer, also one that is no status.
AuditStatus == MerchantStatus \cup {"UNKNOWN"}
Words == {"SUBMITTED", "APPROVED", "REFUSED"}

ShopRow == [status: AuditStatus, profile: Profile]
StaffRow == [type: {"ADMIN", "CASHIER"}, status: {"USING", "DISABLED"}, work: Merchant]

NoRow == [row |-> "absent"]
Idle == [op |-> "IDLE"]

VARIABLES
  shop,        \* the row of each merchant
  staff,       \* the row of each person in the table of merchant administrators
  call,        \* the request each worker serves
  told,        \* the last push about the audit that a merchant received
  \* history, which no action reads:
  owner,       \* whom each merchant was registered for
  granted,     \* the profiles put in use by an auditor whose page showed them
               \* or by an administrator
  misled,      \* merchants about which an auditor's page told something else
  banned,      \* merchants whose status an administrator last set to DISABLED
  managed,     \* merchants an administrator of the platform has saved
  lost,        \* merchants where a save has undone one it had not read
  overtaken,   \* people whose row was saved by a request that had not read it
  crossed,     \* merchants with two pushes on their way at the same time
  missed       \* merchants whose latest push did not arrive

vars == <<shop, staff, call, told, owner, granted, misled, banned, managed, lost, overtaken,
          crossed, missed>>
history == <<owner, granted, misled, banned, managed, lost, overtaken, crossed, missed>>

Calls ==
  [op: {"LOOK"}, shop: Merchant, seen: ShopRow]
    \cup [op: {"AUDIT"}, shop: Merchant, seen: ShopRow, row: ShopRow, shown: Profile]
    \cup [op: {"MODIFY", "DAY", "MANAGE"}, shop: Merchant, seen: ShopRow, row: ShopRow]
    \cup [op: {"ADD"}, shop: Merchant, person: Person, seen: StaffRow \cup {NoRow}]
    \cup [op: {"STAFF"}, person: Person, seen: StaffRow \cup {NoRow}, row: StaffRow]
    \cup [op: {"TELL"}, shop: Merchant, word: Words]
    \cup {Idle}

\* Every row and request is of its type, and the words are about merchants
\* that exist.
MerchantsTypeOK ==
  /\ shop \in [Merchant -> ShopRow \cup {NoRow}]
  /\ staff \in [Person -> StaffRow \cup {NoRow}]
  /\ call \in [Worker -> Calls]
  /\ told \in [Merchant -> Words \cup {"NOTHING"}]
  /\ \A p \in Person : staff[p] # NoRow => shop[staff[p].work] # NoRow

Init ==
  /\ shop = [m \in Merchant |-> NoRow]
  /\ staff = [p \in Person |-> NoRow]
  /\ call = [w \in Worker |-> Idle]
  /\ told = [m \in Merchant |-> "NOTHING"]
  /\ owner = [m \in Merchant |-> NoRow]
  /\ granted = [m \in Merchant |-> {}]
  /\ banned = {} /\ managed = {} /\ lost = {} /\ overtaken = {} /\ crossed = {}
  /\ misled = {} /\ missed = {}

Admins(m) == {p \in Person : staff[p] # NoRow /\ staff[p].type = "ADMIN" /\ staff[p].work = m}

Serve(w, request) ==
  /\ call[w] = Idle
  /\ call' = [call EXCEPT ![w] = request]
  /\ UNCHANGED <<shop, staff, told, history>>

----------------------------------------------------------------------------
(* Registration                                                            *)

\* Mutant: only cashiers are turned away.
IsNoCashier(p) ==
  staff[p] # NoRow /\ staff[p].type = "CASHIER" => staff[p].status = "DISABLED"

\* MerchantAdminModelManager.can_create, and the tests of CashierViewSet.create
IsFree(p) ==
  staff[p] # NoRow => staff[p].type = "CASHIER" /\ staff[p].status = "DISABLED"

\* PaymentQRCodeModelManager.can_use
CanUse(code) == shop[code] = NoRow

\* The rows of a new merchant: CreateMerchantManager.create
NewShop(profile) == [status |-> "REVIEWING", profile |-> profile]
NewAdmin(m) == [type |-> "ADMIN", status |-> "USING", work |-> m]

Waiting(m) == {w \in Worker : call[w].op = "TELL" /\ call[w].shop = m}
Crossing(m) == IF Waiting(m) = {} THEN crossed ELSE crossed \cup {m}

\* The marketer registers merchant m for p.  A removed cashier becomes the
\* administrator, with the row it has.
CreateMerchant(w, m, p, profile) ==
  /\ call[w] = Idle
  /\ CanUse(m)
  /\ IsFree(p)
  /\ shop' = [shop EXCEPT ![m] = NewShop(profile)]
  /\ staff' = [staff EXCEPT ![p] = NewAdmin(m)]
  /\ call' = [call EXCEPT ![w] = [op |-> "TELL", shop |-> m, word |-> "SUBMITTED"]]
  /\ owner' = [owner EXCEPT ![m] = p]
  /\ UNCHANGED <<told, granted, misled, banned, managed, lost, overtaken, crossed, missed>>

----------------------------------------------------------------------------
(* Requests that save the row of a merchant                                *)

ShopCall(op, m, row) == [op |-> op, shop |-> m, seen |-> shop[m], row |-> row]

\* Mutant: auditors are given merchants of any status.
Exists(m) == shop[m] # NoRow

InReview(m) == shop[m] # NoRow /\ shop[m].status = "REVIEWING"

\* An auditor opens the page of a merchant, in whatever status it is.
Look(w, m) ==
  /\ shop[m] # NoRow
  /\ Serve(w, [op |-> "LOOK", shop |-> m, seen |-> shop[m]])

\* The auditor decides.  The request reads the merchant again and finds it if
\* it is in review, whatever the page showed.
AuditMerchant(w, verdict) ==
  LET m == call[w].shop
      page == call[w].seen
  IN  /\ call[w].op = "LOOK"
      /\ InReview(m)
      /\ call' = [call EXCEPT ![w] =
           [op |-> "AUDIT", shop |-> m, seen |-> shop[m],
            row |-> [shop[m] EXCEPT !.status = verdict], shown |-> page.profile]]
      /\ misled' = IF page.status = "REVIEWING" THEN misled ELSE misled \cup {m}
      /\ UNCHANGED <<shop, staff, told, owner, granted, banned, managed, lost, overtaken,
                     crossed, missed>>

\* MerchantAdminAuthentication: who is removed is not let in.
LetIn(p) == staff[p] # NoRow /\ staff[p].status = "USING"

\* A request of p is served: p is let in, and its merchant is in this status.
Works(p, status) == LetIn(p) /\ shop[staff[p].work].status = status
Rules(p, status) == Works(p, status) /\ staff[p].type = "ADMIN"

\* MerchantSerializer.update: a changed profile is reviewed again.
Changed(profile) == NewShop(profile)

\* The administrator of a refused merchant changes the profile.
Modify(w, p, profile) ==
  /\ Rules(p, "REJECTED")
  /\ Serve(w, ShopCall("MODIFY", staff[p].work, Changed(profile)))

\* Anyone who works for the merchant changes the minute the day begins.
DayBeginMinute(w, p) ==
  /\ Works(p, "USING")
  /\ Serve(w, ShopCall("DAY", staff[p].work, shop[staff[p].work]))

\* An administrator of the platform edits any column of a merchant.
Manage(w, m, status, profile) ==
  /\ shop[m] # NoRow
  /\ Serve(w, ShopCall("MANAGE", m, [status |-> status, profile |-> profile]))

\* Mutant: an audit saves the status alone.
StatusAlone(w) ==
  IF call[w].op = "AUDIT" THEN [shop[call[w].shop] EXCEPT !.status = call[w].row.status]
                          ELSE call[w].row

\* What a save writes: all the columns, those the request has not touched as
\* it has read them.
Columns(w) == call[w].row

\* Mutant: the word is found before the status is set.
VerdictAsRead(w) == IF call[w].seen.status = "USING" THEN "APPROVED" ELSE "REFUSED"

\* What the auditor's request tells the merchant, from the row it has saved.
Verdict(w) == IF Columns(w).status = "USING" THEN "APPROVED" ELSE "REFUSED"

\* An auditor other than w has the page of m open.
Open(w, m) == \E v \in Worker \ {w} : call[v].op = "LOOK" /\ call[v].shop = m

\* The administrator puts in use what it has typed, the auditor what the page
\* showed.
Grants(c) ==
  /\ c.row.status = "USING"
  /\ c.op = "MANAGE" \/ (c.op = "AUDIT" /\ c.shown = c.row.profile)

SaveShop(w) ==
  /\ call[w].op \in {"AUDIT", "MODIFY", "DAY", "MANAGE"}
  /\ LET c == call[w]
         m == c.shop
         manages == c.op = "MANAGE"
     IN
     /\ shop' = [shop EXCEPT ![m] = Columns(w)]
     /\ call' = [call EXCEPT ![w] = IF c.op = "AUDIT"
                                      THEN [op |-> "TELL", shop |-> m, word |-> Verdict(w)]
                                      ELSE Idle]
     /\ granted' = IF Grants(c) THEN [granted EXCEPT ![m] = @ \cup {c.row.profile}]
                                ELSE granted
     /\ misled' = IF Open(w, m) /\ (c.op \in {"AUDIT", "MANAGE"} \/ c.seen # shop[m])
                    THEN misled \cup {m} ELSE misled
     /\ banned' = IF ~manages THEN banned
                  ELSE IF c.row.status = "DISABLED" THEN banned \cup {m} ELSE banned \ {m}
     /\ managed' = IF manages THEN managed \cup {m} ELSE managed
     /\ lost' = IF manages THEN lost \ {m}
                ELSE IF c.seen # shop[m] THEN lost \cup {m} ELSE lost
     /\ crossed' = IF c.op = "AUDIT" THEN Crossing(m) ELSE crossed
     /\ UNCHANGED <<staff, told, owner, overtaken, missed>>

\* The push about the registration or the audit: a task that is queued when
\* the row is saved and sent by another process.
Tell(w) ==
  /\ call[w].op = "TELL"
  /\ told' = [told EXCEPT ![call[w].shop] = call[w].word]
  /\ call' = [call EXCEPT ![w] = Idle]
  /\ missed' = missed \ {call[w].shop}
  /\ UNCHANGED <<shop, staff, owner, granted, misled, banned, managed, lost, overtaken, crossed>>

\* A page is closed, a request fails or its process dies before it has saved;
\* or the push is never queued, or fails, and is not tried again.
Ends(w) ==
  /\ call[w] # Idle
  /\ call' = [call EXCEPT ![w] = Idle]
  /\ missed' = IF call[w].op = "TELL" THEN missed \cup {call[w].shop} ELSE missed
  /\ UNCHANGED <<shop, staff, told, owner, granted, misled, banned, managed, lost, overtaken,
                 crossed>>

----------------------------------------------------------------------------
(* Requests that save the row of a member of staff                         *)

StaffCall(p, row) == [op |-> "STAFF", person |-> p, seen |-> staff[p], row |-> row]

\* The administrator q of a merchant asks for p as a cashier.
AddCashier(w, q, p) ==
  /\ Rules(q, "USING")
  /\ IsFree(p)
  /\ Serve(w, [op |-> "ADD", shop |-> staff[q].work, person |-> p, seen |-> staff[p]])

\* The row is read again: if p has one by now, only its merchant and its
\* status are set, whatever p has become.
FindCashier(w) ==
  /\ call[w].op = "ADD"
  /\ LET p == call[w].person
         cashier == [type |-> IF staff[p] = NoRow THEN "CASHIER" ELSE staff[p].type,
                     status |-> "USING", work |-> call[w].shop]
     IN
     /\ call' = [call EXCEPT ![w] = StaffCall(p, cashier)]
     /\ overtaken' = IF call[w].seen # staff[p] THEN overtaken \cup {p} ELSE overtaken
  /\ UNCHANGED <<shop, staff, told, owner, granted, misled, banned, managed, lost, crossed,
                 missed>>

IsCashier(p, m) == staff[p] = [type |-> "CASHIER", status |-> "USING", work |-> m]

\* The administrator q removes its cashier p.
RemoveCashier(w, q, p) ==
  /\ Rules(q, "USING")
  /\ IsCashier(p, staff[q].work)
  /\ Serve(w, StaffCall(p, [staff[p] EXCEPT !.status = "DISABLED"]))

\* p turns its spoken messages on or off.
VoiceOn(w, p) ==
  /\ Works(p, "USING")
  /\ Serve(w, StaffCall(p, staff[p]))

\* A new row is inserted, and a second one for the same openid is refused; a
\* row that was found is saved with all its columns.
SaveStaff(w) ==
  /\ call[w].op = "STAFF"
  /\ LET c == call[w]
         refused == c.seen = NoRow /\ staff[c.person] # NoRow
     IN
     /\ staff' = IF refused THEN staff ELSE [staff EXCEPT ![c.person] = c.row]
     /\ overtaken' = IF ~refused /\ c.seen # staff[c.person]
                       THEN overtaken \cup {c.person} ELSE overtaken
  /\ call' = [call EXCEPT ![w] = Idle]
  /\ UNCHANGED <<shop, told, owner, granted, misled, banned, managed, lost, crossed, missed>>

----------------------------------------------------------------------------
MerchantRequest(w) ==
  \E m \in Merchant, p \in Person, profile \in Profile :
    \/ CreateMerchant(w, m, p, profile)
    \/ Look(w, m)
    \/ \E verdict \in AuditStatus : AuditMerchant(w, verdict)
    \/ Modify(w, p, profile)
    \/ DayBeginMinute(w, p)
    \/ \E status \in MerchantStatus : Manage(w, m, status, profile)

StaffRequest(w) ==
  \E q, p \in Person : AddCashier(w, q, p) \/ RemoveCashier(w, q, p) \/ VoiceOn(w, p)

Next ==
  \E w \in Worker :
    MerchantRequest(w) \/ StaffRequest(w)
      \/ SaveShop(w) \/ Tell(w) \/ Ends(w) \/ FindCashier(w) \/ SaveStaff(w)

Spec == Init /\ [][Next]_vars

----------------------------------------------------------------------------
\* A merchant that takes payments shows a profile that an auditor approved with
\* just that profile on the page, or that an administrator of the platform
\* typed.  The request of the auditor reads the merchant again and does not
\* compare it with the page, so that a profile nobody read may be put in use:
\* but only when the page showed a merchant that was not in review, or when,
\* while the page was open, somebody else decided about the merchant or a
\* request saved it that had read it before another save.
UsedIsApproved ==
  \A m \in Merchant \ misled :
    shop[m] # NoRow /\ shop[m].status = "USING" => shop[m].profile \in granted[m]

\* A merchant has one administrator, the one it was registered for, which
\* MerchantManager.merchant_admin and every request of the app take for granted;
\* only requests that saved the row of somebody without having read it as it
\* was (a registration overtook a cashier's, or a switch of the voice) may
\* have left another merchant's cashier, or none.
OneAdminEach ==
  \A m \in Merchant :
    shop[m] # NoRow /\ owner[m] \notin overtaken => Admins(m) \ overtaken = {owner[m]}

\* A merchant that the platform disabled stays so until the platform enables it
\* again: neither an auditor nor its own people bring it back, unless a request
\* that had read the row before saves it afterwards.
DisabledStays ==
  \A m \in banned : m \notin lost => shop[m].status = "DISABLED"

\* Once no request is under way, what a merchant was told last about its audit
\* is what its row says: it is approved if and only if it was told so, and
\* before its first audit it is in review.  Only an administrator of the
\* platform, an overlapping save, two pushes under way at the same time or a
\* push that did not arrive can leave it with a word that is not true, and the
\* last of these only until the next push arrives.
LastWordIsTrue ==
  \A m \in Merchant \ (managed \cup lost \cup crossed \cup missed) :
    (\A w \in Worker : call[w] = Idle) =>
      CASE told[m] = "NOTHING" -> shop[m] = NoRow
        [] told[m] = "SUBMITTED" -> shop[m].status = "REVIEWING"
        [] told[m] = "APPROVED" -> shop[m].status = "USING"
        [] OTHER -> shop[m].status # "USING"
=============================================================================
