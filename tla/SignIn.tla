------------------------------- MODULE SignIn -------------------------------
(***************************************************************************)
(* Signing in: the administrators of the platform by password, with a      *)
(* count of their failures; the clients of the mini programs by a code of  *)
(* WeChat or Alipay, which buys a token; the people of merchants and the   *)
(* marketers by a code of WeChat.  Passwords are checked and codes are     *)
(* exchanged while other requests run.                                     *)
(***************************************************************************)
EXTENDS Naturals

CONSTANTS
  Admin,       \* administrators of the platform
  Password,    \* what they may type
  Browser,     \* where they type it
  Handset,     \* phones of clients, each with an openid of its own
  StaffPhone,  \* phones of merchants' people and of marketers
  Token        \* keys of the cache, each handed out once

NoOne == "nobody"
Gone == [session |-> "gone"]

\* A token is a key that was generated, never the absence of one.
ASSUME TokenAssumption == NoOne \notin Token

VARIABLES
  admin,       \* the row of each administrator
  failed,      \* login_stats.failed_login_count of each
  session,     \* the copy of a row that the session of a browser holds
  task,        \* the request of each browser
  cache,       \* the session stored under each token
  used,        \* the tokens ever handed out
  held,        \* the token that each handset sends
  login,       \* the request of each handset
  \* history:
  missed,      \* wrong passwords of each administrator since the last right one
  shut,        \* administrators whose status an edit last set to DISABLED
  overtaken,   \* administrators whose row was saved as it no longer was
  intruder,    \* administrators let in by a request that began when shut
  revoked      \* tokens that a login gave up

adminVars == <<admin, failed, session, task, missed, shut, overtaken, intruder>>
clientVars == <<cache, used, held, login, revoked>>

AdminRow == [status: {"USING", "DISABLED"}, password: Password]
Quiet == [op |-> "QUIET"]

AdminsInit ==
  /\ admin \in [Admin -> {r \in AdminRow : r.status = "USING"}]
  /\ failed = [a \in Admin |-> 0]
  /\ session = [b \in Browser |-> NoOne]
  /\ task = [b \in Browser |-> Quiet]
  /\ missed = [a \in Admin |-> 0]
  /\ shut = {} /\ overtaken = {} /\ intruder = {}

ClientsInit ==
  /\ cache = [t \in Token |-> Gone]
  /\ used = {} /\ revoked = {}
  /\ held = [h \in Handset \cup StaffPhone |-> NoOne]
  /\ login = [h \in Handset |-> Quiet]

----------------------------------------------------------------------------
(* Administrators                                                          *)

\* Mutant: the status is not looked at.
AnyoneMayEnter(a) == TRUE

MayEnter(a) == admin[a].status = "USING"

\* The row is read, and a disabled administrator refused, before the password
\* is looked at.
StartLogin(b, a, password) ==
  /\ task[b] = Quiet
  /\ MayEnter(a)
  /\ task' = [task EXCEPT ![b] = [op |-> "CHECK", admin |-> a, seen |-> admin[a],
                                  typed |-> password, late |-> a \in shut]]
  /\ UNCHANGED <<admin, failed, session, missed, shut, overtaken, intruder, clientVars>>

\* The password is checked against the row that was read, and the row of the
\* statistics fetched.
CheckPassword(b) ==
  /\ task[b].op = "CHECK"
  /\ LET c == task[b]
     IN task' = [task EXCEPT ![b] =
          [op |-> "COUNT", admin |-> c.admin, seen |-> c.seen, late |-> c.late,
           right |-> c.typed = c.seen.password, count |-> failed[c.admin]]]
  /\ UNCHANGED <<admin, failed, session, missed, shut, overtaken, intruder, clientVars>>

\* Mutant: the count that was fetched is incremented.
CountRead(b) == IF task[b].right THEN 0 ELSE task[b].count + 1

\* The database increments the count it has: F('failed_login_count') + 1.
FailedCount(b) == IF task[b].right THEN 0 ELSE failed[task[b].admin] + 1

SaveStats(b) ==
  /\ task[b].op = "COUNT"
  /\ LET c == task[b]
     IN
     /\ failed' = [failed EXCEPT ![c.admin] = FailedCount(b)]
     /\ missed' = [missed EXCEPT ![c.admin] = IF c.right THEN 0 ELSE @ + 1]
     /\ task' = [task EXCEPT ![b] = [op |-> "SAVE", admin |-> c.admin, seen |-> c.seen,
                                     row |-> c.seen, late |-> c.late,
                                     opens |-> c.right, edits |-> FALSE]]
  /\ UNCHANGED <<admin, session, shut, overtaken, intruder, clientVars>>

\* Somebody signed in, or the super administrator, edits another's row.
EditAdmin(b, a, row) ==
  /\ task[b] = Quiet
  /\ task' = [task EXCEPT ![b] = [op |-> "SAVE", admin |-> a, seen |-> admin[a], row |-> row,
                                  late |-> FALSE, opens |-> FALSE, edits |-> TRUE]]
  /\ UNCHANGED <<admin, failed, session, missed, shut, overtaken, intruder, clientVars>>

\* Both end by saving all the columns, a refused login as well; a right
\* password then puts a copy of the row in the session.
SaveAdmin(b) ==
  /\ task[b].op = "SAVE"
  /\ LET c == task[b]
     IN
     /\ admin' = [admin EXCEPT ![c.admin] = c.row]
     /\ session' = IF c.opens THEN [session EXCEPT ![b] = c.admin] ELSE session
     /\ shut' = IF ~c.edits THEN shut
                ELSE IF c.row.status = "DISABLED" THEN shut \cup {c.admin} ELSE shut \ {c.admin}
     /\ overtaken' = IF admin[c.admin] # c.seen THEN overtaken \cup {c.admin} ELSE overtaken
     /\ intruder' = IF c.opens /\ c.late THEN intruder \cup {c.admin} ELSE intruder
     /\ task' = [task EXCEPT ![b] = Quiet]
  /\ UNCHANGED <<failed, missed, clientVars>>

\* AdminAuthentication, AdminLoggedIn: the copy of the row is believed, whatever
\* became of the row.
SignedIn(b) == session[b] # NoOne

Logout(b) ==
  /\ task[b] = Quiet
  /\ SignedIn(b)
  /\ session' = [session EXCEPT ![b] = NoOne]
  /\ UNCHANGED <<admin, failed, task, missed, shut, overtaken, intruder, clientVars>>

----------------------------------------------------------------------------
(* Clients                                                                 *)

Stored(client) == [client |-> client]

\* TokenStore.create_token: a key that no session had before
NewToken(t) == t \notin used /\ used' = used \cup {t}

\* Mutant: the session with the old token is kept.
KeepOld(h) == cache

\* TokenStore.flush: the token that came with the request is deleted.
Flushed(h) ==
  IF held[h] = NoOne THEN cache ELSE [cache EXCEPT ![held[h]] = Gone]

\* The handset sends a code, and its token if it has one.
SendCode(h, channel) ==
  /\ login[h] = Quiet
  /\ cache' = Flushed(h)
  /\ revoked' = revoked \cup ({held[h]} \ {NoOne})
  /\ login' = [login EXCEPT ![h] = [op |-> "EXCHANGE", channel |-> channel]]
  /\ UNCHANGED <<used, held, adminVars>>

\* The provider refuses the code: the handset is left without a session.
CodeRefused(h) ==
  /\ login[h].op = "EXCHANGE"
  /\ login' = [login EXCEPT ![h] = Quiet]
  /\ UNCHANGED <<cache, used, held, revoked, adminVars>>

\* The code is exchanged and a token created.  With Alipay the client is
\* looked up before, with WeChat after: the session is stored without it.
CreateToken(h, t) ==
  /\ login[h].op = "EXCHANGE"
  /\ NewToken(t)
  /\ LET alipay == login[h].channel = "ALIPAY"
     IN
     /\ cache' = [cache EXCEPT ![t] = Stored(IF alipay THEN h ELSE NoOne)]
     /\ login' = [login EXCEPT ![h] = [op |-> "ANSWER", token |-> t, modified |-> ~alipay]]
  /\ UNCHANGED <<held, revoked, adminVars>>

\* Mutant: what was set after the token was created is not saved.
KeptAsCreated(h) == cache

\* token_middleware: a session that was modified is saved when the request ends.
Kept(h) ==
  IF login[h].modified THEN [cache EXCEPT ![login[h].token] = Stored(h)] ELSE cache

\* The answer; if the session has gone from the cache meanwhile, it is an error.
Answer(h) ==
  /\ login[h].op = "ANSWER"
  /\ login[h].modified => cache[login[h].token] # Gone
  /\ cache' = Kept(h)
  /\ held' = [held EXCEPT ![h] = login[h].token]
  /\ login' = [login EXCEPT ![h] = Quiet]
  /\ UNCHANGED <<used, revoked, adminVars>>

\* The database fails, the session has gone, or the answer is lost.
NoAnswer(h) ==
  /\ login[h].op = "ANSWER"
  /\ \/ UNCHANGED cache
     \/ cache[login[h].token] # Gone /\ cache' = Kept(h)
  /\ login' = [login EXCEPT ![h] = Quiet]
  /\ UNCHANGED <<used, held, revoked, adminVars>>

\* The people of merchants and the marketers: the token is a key of its own,
\* and older ones stay until they expire.
MiniProgramLogin(h, t) ==
  /\ NewToken(t)
  /\ cache' = [cache EXCEPT ![t] = Stored(h)]
  /\ held' = [held EXCEPT ![h] = t]
  /\ UNCHANGED <<login, revoked, adminVars>>

TokenExpires(t) ==
  /\ cache[t] # Gone
  /\ cache' = [cache EXCEPT ![t] = Gone]
  /\ UNCHANGED <<used, held, login, revoked, adminVars>>

----------------------------------------------------------------------------
AdminsNext ==
  \E b \in Browser :
    \/ \E a \in Admin, password \in Password : StartLogin(b, a, password)
    \/ \E a \in Admin, row \in AdminRow : EditAdmin(b, a, row)
    \/ CheckPassword(b) \/ SaveStats(b) \/ SaveAdmin(b) \/ Logout(b)

ClientsNext ==
  \/ \E h \in Handset :
       \/ \E channel \in {"WECHAT", "ALIPAY"} : SendCode(h, channel)
       \/ \E t \in Token : CreateToken(h, t)
       \/ CodeRefused(h) \/ Answer(h) \/ NoAnswer(h)
  \/ \E t \in Token : TokenExpires(t) \/ \E h \in StaffPhone : MiniProgramLogin(h, t)

----------------------------------------------------------------------------
\* However many browsers try at the same time, the count an administrator sees
\* is that of the wrong passwords since the last right one.
FailuresAreCounted == failed = missed

\* An administrator who was disabled does not get in any more, unless the row
\* was saved by a request that had read it before: each login, a refused one
\* as well, saves the row as it was before the password was checked, which
\* undoes an edit made meanwhile (LoginSerializer._authenticate).
LockedOut == intruder \subseteq overtaken

\* The door of the platform: wrong passwords are counted, the disabled stay out.
DoorIsGuarded == FailuresAreCounted /\ LockedOut

\* The token a handset sends is either gone or names the client it was given
\* to, at whatever point another request of the handset failed; a token that a
\* login of a client gave up is worth nothing, to whomever has it.
TokensNameClients ==
  /\ \A h \in Handset \cup StaffPhone : held[h] # NoOne =>
       cache[held[h]] = Gone \/ cache[held[h]] = Stored(h)
  /\ \A t \in revoked : cache[t] = Gone
=============================================================================
