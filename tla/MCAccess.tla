------------------------------ MODULE MCAccess ------------------------------
(* Who gets in and who is told what, side by side: sign-in of administrators *)
(* and of clients, numbers of phones, access tokens, replies and notices.    *)
(* They share no state, so that one of them moves in each behaviour.         *)
EXTENDS SignIn, Phones, Subscription, Notices, TLC

CONSTANTS
  phrase, keyword,   \* a message and a key that it contains
  plat, m1, m2, none,
  MaxFailures        \* bound: wrong passwords in a row

MCParts(w) == IF w = phrase THEN {phrase, keyword} ELSE {w}

\* Two merchants without inviters, and no coupons
MCMerchant == {m1, m2}
MCInviter  == [m \in Merchant |-> none]
MCCoupons  == << >>

VARIABLE mover  \* the component that moves

allNotices == <<vars, noticeVars>>
movers == <<adminVars, clientVars, phonesVars, tokenVars, replyVars, allNotices>>

\* Passwords are alike: one is the first.
AccessInit ==
  /\ mover \in 1..6
  /\ AdminsInit /\ \A x \in Admin : admin[x].password = CHOOSE p \in Password : TRUE
  /\ ClientsInit /\ PhonesInit /\ TokensInit /\ RepliesInit /\ NoticesInit
  \* Only the notices begin in several ways.
  /\ mover # 6 => staff = CHOOSE f \in [Person -> [work : Merchant, status : {"USING"}]] : TRUE

AccessNext ==
  /\ UNCHANGED mover
  /\ \/ mover = 1 /\ AdminsNext /\ UNCHANGED <<clientVars, phonesVars, tokenVars, replyVars, allNotices>>
     \/ mover = 2 /\ ClientsNext /\ UNCHANGED <<adminVars, phonesVars, tokenVars, replyVars, allNotices>>
     \/ mover = 3 /\ PhonesNext /\ UNCHANGED <<adminVars, clientVars, tokenVars, replyVars, allNotices>>
     \/ mover = 4 /\ TokensNext /\ UNCHANGED <<adminVars, clientVars, phonesVars, replyVars, allNotices>>
     \/ mover = 5 /\ RepliesNext /\ UNCHANGED <<adminVars, clientVars, phonesVars, tokenVars, allNotices>>
     \/ mover = 6 /\ NoticesNext
        /\ UNCHANGED <<adminVars, clientVars, phonesVars, tokenVars, replyVars>>

AccessSpec == AccessInit /\ [][AccessNext]_<<mover, movers>>

FewFailures == \A x \in Admin : failed[x] <= MaxFailures

\* Two requests at a time for a code or about a number
TwoAtATime ==
  Cardinality({u \in User : sending[u] # Nothing})
    + Cardinality({u \in User : ask[u] # Nothing}) <= 2

\* Of the numbers of two users, one is still as it was proven.
OneIsProven == Cardinality(typed \cup stale) <= 1

\* Two administrators edit the same row at a time, until one overtakes the other.
OvertakenOnce ==
  \A d, e \in Desk : d # e /\ desk[d] # Done /\ desk[e] # Done =>
    desk[d].id = desk[e].id /\ reply[desk[d].id] = desk[d].seen /\ undone = {}

\* Users are alike, and so are numbers and administrators of replies.
Alike == Permutations(User) \cup Permutations(Number) \cup Permutations(Desk)
=============================================================================
