------------------------------- MODULE Phones -------------------------------
(***************************************************************************)
(* Marketers and the numbers of their phones.  A number is proven by a     *)
(* code, which a text message brings to it: to register, and to change it. *)
(* The code of a number is a key of redis, which the next code replaces.   *)
(***************************************************************************)
EXTENDS Naturals, FiniteSets

CONSTANTS
  User,        \* people, by unionid and openid
  Number,      \* telephone numbers
  MaxCodes     \* codes generated

ASSUME CodesAssumption == MaxCodes \in Nat

NoCode == 0
NoNumber == "none"
Unregistered == [status |-> "NONE", phone |-> NoNumber]
Nothing == [op |-> "NOTHING"]

VARIABLES
  code,        \* the code stored for each number
  codes,       \* how many were generated
  arrived,     \* the codes that text messages brought
  recent,      \* who was sent a code within the last minute
  marketer,    \* the row of each user
  sending,     \* each user's request for a code
  ask,         \* each user's request to register or to change the number
  \* history:
  spent,       \* how many changes each code has proven
  raced,       \* codes that two requests read before one deleted them
  stale,       \* users whose number was taken after it was found free, or whose
               \* row was saved as it no longer was
  typed        \* users whose number the platform typed

phonesVars == <<code, codes, arrived, recent, marketer, sending, ask, spent, raced, stale, typed>>

PhonesInit ==
  /\ code = [n \in Number |-> NoCode]
  /\ codes = 0
  /\ arrived = {} /\ recent = {}
  /\ marketer = [u \in User |-> Unregistered]
  /\ sending = [u \in User |-> Nothing]
  /\ ask = [u \in User |-> Nothing]
  /\ spent = [c \in 1..MaxCodes |-> 0]
  /\ raced = {} /\ stale = {} /\ typed = {}

----------------------------------------------------------------------------
(* Sending a code                                                          *)

\* One code a minute for each user, which is looked up before the code is made.
AskCode(u, n) ==
  /\ sending[u] = Nothing
  /\ u \notin recent
  /\ sending' = [sending EXCEPT ![u] = [op |-> "STORE", number |-> n]]
  /\ UNCHANGED <<code, codes, arrived, recent, marketer, ask, spent, raced, stale, typed>>

\* The code is stored before it is sent.
StoreCode(u) ==
  /\ sending[u].op = "STORE"
  /\ codes < MaxCodes
  /\ codes' = codes + 1
  /\ code' = [code EXCEPT ![sending[u].number] = codes + 1]
  /\ sending' = [sending EXCEPT ![u] = [op |-> "SEND", code |-> codes + 1, tries |-> 2]]
  /\ UNCHANGED <<arrived, recent, marketer, ask, spent, raced, stale, typed>>

\* The provider is asked twice at most.  It may deliver the message whatever it
\* answers; what it refuses for a reason it names is not tried again.
SendMessage(u, delivers, answer) ==
  /\ sending[u].op = "SEND"
  /\ arrived' = IF delivers THEN arrived \cup {sending[u].code} ELSE arrived
  /\ recent' = IF answer = "OK" THEN recent \cup {u} ELSE recent
  /\ sending' = [sending EXCEPT ![u] =
       IF answer = "NONE" /\ @.tries > 1 THEN [@ EXCEPT !.tries = 1] ELSE Nothing]
  /\ UNCHANGED <<code, codes, marketer, ask, spent, raced, stale, typed>>

MinutePasses(u) ==
  /\ u \in recent
  /\ recent' = recent \ {u}
  /\ UNCHANGED <<code, codes, arrived, marketer, sending, ask, spent, raced, stale, typed>>

CodeExpires(n) ==
  /\ code[n] # NoCode
  /\ code' = [code EXCEPT ![n] = NoCode]
  /\ UNCHANGED <<codes, arrived, recent, marketer, sending, ask, spent, raced, stale, typed>>

----------------------------------------------------------------------------
(* Proving a number                                                        *)

Has(u, n) == marketer[u].phone = n

\* Mutant: only the codes are checked.
NobodyLooks(n) == TRUE

\* MarketerModelManager.check_phone_exist
IsUnused(n) == \A u \in User : ~Has(u, n)

\* The request is one to register, whoever sends it, or the change of a marketer
\* who is not disabled, with the row that was found.
Asks(u, seen) ==
  /\ ask[u] = Nothing
  /\ seen \in {Unregistered, marketer[u]}
  /\ seen.status # "DISABLED"

\* The number is looked up before the code.
AskNumber(u, n, c, seen) ==
  /\ Asks(u, seen)
  /\ IsUnused(n)
  /\ c \in arrived
  /\ ask' = [ask EXCEPT ![u] = [op |-> "VERIFY", number |-> n, code |-> c, seen |-> seen,
                                free |-> \A v \in User : ~Has(v, n)]]
  /\ UNCHANGED <<code, codes, arrived, recent, marketer, sending, spent, raced, stale, typed>>

\* A marketer's row is saved whatever was wrong, without the number: is_valid()
\* is not heeded.
SaveUnchanged(seen) == [op |-> "SAVE", seen |-> seen, row |-> seen, free |-> FALSE]

AskUsedNumber(u, n) ==
  /\ Asks(u, marketer[u])
  /\ marketer[u] # Unregistered
  /\ ~IsUnused(n)
  /\ ask' = [ask EXCEPT ![u] = SaveUnchanged(marketer[u])]
  /\ UNCHANGED <<code, codes, arrived, recent, marketer, sending, spent, raced, stale, typed>>

\* A code that is not the stored one ends a registration.
VerifyCode(u) ==
  /\ ask[u].op = "VERIFY"
  /\ LET q == ask[u]
         right == code[q.number] = q.code
     IN
     /\ ask' = [ask EXCEPT ![u] =
          IF right THEN [q EXCEPT !.op = "DELETE"]
          ELSE IF q.seen = Unregistered THEN Nothing
          ELSE SaveUnchanged(q.seen)]
     /\ raced' = IF right /\ \E v \in User \ {u} :
                      ask[v].op = "DELETE" /\ ask[v].code = q.code
                   THEN raced \cup {q.code} ELSE raced
  /\ UNCHANGED <<code, codes, arrived, recent, marketer, sending, spent, stale, typed>>

\* Mutant: the code stays.
CodeKept(u) == code

\* The key is deleted, which by now may hold another code.
CodeDeleted(u) == [code EXCEPT ![ask[u].number] = NoCode]

DeleteCode(u) ==
  /\ ask[u].op = "DELETE"
  /\ LET q == ask[u]
     IN
     /\ code' = CodeDeleted(u)
     /\ spent' = [spent EXCEPT ![q.code] = @ + 1]
     /\ ask' = [ask EXCEPT ![u] =
          [op |-> "SAVE", seen |-> q.seen, free |-> q.free,
           row |-> [status |-> IF q.seen = Unregistered THEN "USING" ELSE q.seen.status,
                    phone |-> q.number]]]
  /\ UNCHANGED <<codes, arrived, recent, marketer, sending, raced, stale, typed>>

\* A row is inserted, once for an openid; or all the columns are saved, by the
\* marketer's request or by an edit of the platform.
Save(u, q) ==
  LET refused == q.seen = Unregistered /\ marketer[u] # Unregistered
      taken == q.free /\ \E v \in User \ {u} : Has(v, q.row.phone)
      kept == refused \/ q.row.phone = q.seen.phone
  IN
  /\ marketer' = IF refused THEN marketer ELSE [marketer EXCEPT ![u] = q.row]
  /\ stale' = IF ~refused /\ (q.seen # marketer[u] \/ taken)
                THEN stale \cup {u} ELSE stale
  /\ typed' = IF kept THEN typed
              ELSE IF q.op = "EDIT" THEN typed \cup {u} ELSE typed \ {u}

SaveNumber(u) ==
  /\ ask[u].op = "SAVE"
  /\ Save(u, ask[u])
  /\ ask' = [ask EXCEPT ![u] = Nothing]
  /\ UNCHANGED <<code, codes, arrived, recent, sending, spent, raced>>

\* The redis key with the openid, name and picture may be missing: the
\* registration fails after its code was deleted.
RegistrationFails(u) ==
  /\ ask[u].op = "SAVE"
  /\ ask[u].seen = Unregistered
  /\ ask' = [ask EXCEPT ![u] = Nothing]
  /\ UNCHANGED <<code, codes, arrived, recent, marketer, sending, spent, raced, stale, typed>>

\* The platform disables or enables a marketer, or types another number, which
\* nobody proves and which need not be free: the row is read in a request of its
\* own, which the sending slot of the user stands for.
EditMarketer(u, status, n) ==
  /\ sending[u] = Nothing
  /\ marketer[u] # Unregistered
  /\ sending' = [sending EXCEPT ![u] = [op |-> "EDIT", seen |-> marketer[u], free |-> FALSE,
                                        row |-> [status |-> status, phone |-> n]]]
  /\ UNCHANGED <<code, codes, arrived, recent, marketer, ask, spent, raced, stale, typed>>

SaveMarketer(u) ==
  /\ sending[u].op = "EDIT"
  /\ Save(u, sending[u])
  /\ sending' = [sending EXCEPT ![u] = Nothing]
  /\ UNCHANGED <<code, codes, arrived, recent, ask, spent, raced>>

PhonesNext ==
  \E u \in User, n \in Number :
    \/ AskCode(u, n) \/ StoreCode(u) \/ MinutePasses(u) \/ CodeExpires(n)
    \/ \E delivers \in BOOLEAN, answer \in {"OK", "REFUSED", "NONE"} :
         SendMessage(u, delivers, answer)
    \/ \E c \in 1..MaxCodes, seen \in {Unregistered, marketer[u]} : AskNumber(u, n, c, seen)
    \/ AskUsedNumber(u, n)
    \/ VerifyCode(u) \/ DeleteCode(u) \/ SaveNumber(u) \/ RegistrationFails(u)
    \/ \E status \in {"USING", "DISABLED"} : EditMarketer(u, status, n)
    \/ SaveMarketer(u)

----------------------------------------------------------------------------
\* Marketers who proved their numbers with codes have different ones, except after
\* two requests that overlapped: one took the number while the other was proving
\* it, or an edit gave a number back that its owner had changed meanwhile.  The
\* platform may type any number for a marketer, one that another has proven
\* included; that lasts until the marketer proves a number again.
NumbersAreDistinct ==
  \A u, v \in User \ (stale \cup typed) :
    u # v /\ Has(u, marketer[v].phone) => Has(u, NoNumber)

\* A code proves one change, unless a second request read it before the first
\* deleted it; and what it proves is the number it was sent to.
CodeSpentOnce == \A c \in 1..MaxCodes : spent[c] > 1 => c \in raced

\* Both: a number that was proven belongs to the one who proved it.
NumbersAreProven == NumbersAreDistinct /\ CodeSpentOnce
=============================================================================
