---------------------------- MODULE AccessProofs ----------------------------
(***************************************************************************)
(* Who gets in and who is told what, for any number of people, requests,   *)
(* tokens and codes.  Every component has an inductive invariant of its    *)
(* own, which says what its requests carry from one step to the next.      *)
(***************************************************************************)
EXTENDS SignIn, Phones, Subscription, Notices, PaymentsProofs

-----------------------------------------------------------------------------
(* Administrators *)

\* A request carries the row it read: one that only logs in saves that row as
\* it was, and one of a shut administrator got in because the row was saved
\* as it no longer was.
TaskRow ==
  {Quiet}
  \cup [op : {"CHECK"}, admin : Admin, seen : AdminRow, typed : Password, late : BOOLEAN]
  \cup [op : {"COUNT"}, admin : Admin, seen : AdminRow, late : BOOLEAN,
        right : BOOLEAN, count : Nat]
  \cup [op : {"SAVE"}, admin : Admin, seen : AdminRow, row : AdminRow, late : BOOLEAN,
        opens : BOOLEAN, edits : BOOLEAN]

AdminsInvariant ==
  /\ admin \in [Admin -> AdminRow]
  /\ failed \in [Admin -> Nat]
  /\ task \in [Browser -> TaskRow]
  /\ failed = missed
  /\ \A b \in Browser :
       /\ task[b].op = "SAVE" => task[b].edits \/ task[b].row = task[b].seen
       /\ task[b] # Quiet => (task[b].late => task[b].admin \in overtaken)
  \* Who is shut and in use again was overtaken.
  /\ \A a \in shut : admin[a].status = "DISABLED" \/ a \in overtaken
  /\ shut \subseteq Admin
  /\ intruder \subseteq overtaken

\* What a request of each kind carries
LEMMA TaskType ==
  ASSUME AdminsInvariant, NEW b \in Browser
  PROVE  /\ task[b].op = "CHECK" =>
              task[b] \in [op : {"CHECK"}, admin : Admin, seen : AdminRow,
                           typed : Password, late : BOOLEAN]
         /\ task[b].op = "COUNT" =>
              task[b] \in [op : {"COUNT"}, admin : Admin, seen : AdminRow, late : BOOLEAN,
                           right : BOOLEAN, count : Nat]
         /\ task[b].op = "SAVE" =>
              task[b] \in [op : {"SAVE"}, admin : Admin, seen : AdminRow, row : AdminRow,
                           late : BOOLEAN, opens : BOOLEAN, edits : BOOLEAN]
<1>1. task[b] \in TaskRow
  BY DEF AdminsInvariant
<1>2. Quiet.op = "QUIET"
  BY DEF Quiet
<1>3. QED
  BY <1>1, <1>2 DEF TaskRow

\* The request of one browser goes on.
LEMMA TaskMoves ==
  ASSUME AdminsInvariant, NEW b \in Browser, NEW t \in TaskRow,
         task' = [task EXCEPT ![b] = t],
         t.op = "SAVE" => t.edits \/ t.row = t.seen,
         overtaken \subseteq overtaken',
         t # Quiet => (t.late => t.admin \in overtaken')
  PROVE  /\ task' \in [Browser -> TaskRow]
         /\ \A k \in Browser :
              /\ task'[k].op = "SAVE" => task'[k].edits \/ task'[k].row = task'[k].seen
              /\ task'[k] # Quiet => (task'[k].late => task'[k].admin \in overtaken')
<1>1. task \in [Browser -> TaskRow]
  BY DEF AdminsInvariant
<1>2. task'[b] = t /\ \A k \in Browser : k # b => task'[k] = task[k]
  BY <1>1
<1>3. \A k \in Browser :
        /\ task[k].op = "SAVE" => task[k].edits \/ task[k].row = task[k].seen
        /\ task[k] # Quiet => (task[k].late => task[k].admin \in overtaken)
  BY DEF AdminsInvariant
<1>4. QED
  BY <1>1, <1>2, <1>3

LEMMA InitAdmins == AdminsInit => AdminsInvariant
<1>1. Quiet.op = "QUIET" /\ Quiet \in TaskRow
  BY DEF Quiet, TaskRow
<1>2. QED
  BY <1>1 DEF AdminsInit, AdminsInvariant

\* A login reads the row: of somebody who is shut and may enter all the same,
\* the row was overtaken.
LEMMA StartLoginKeeps ==
  ASSUME AdminsInvariant, NEW b \in Browser, NEW a \in Admin, NEW password \in Password,
         StartLogin(b, a, password)
  PROVE  AdminsInvariant'
<1> DEFINE t == [op |-> "CHECK", admin |-> a, seen |-> admin[a], typed |-> password,
                 late |-> a \in shut]
<1>1. /\ task' = [task EXCEPT ![b] = t] /\ admin[a].status = "USING"
      /\ admin' = admin /\ failed' = failed /\ missed' = missed /\ shut' = shut
      /\ overtaken' = overtaken /\ intruder' = intruder
  BY DEF StartLogin, MayEnter
<1>2. admin[a] \in AdminRow
  BY DEF AdminsInvariant
<1>3. /\ t \in TaskRow /\ t.op = "CHECK" /\ t.late = (a \in shut) /\ t.admin = a
  BY <1>2 DEF TaskRow
<1>4. a \in shut => a \in overtaken
  BY <1>1 DEF AdminsInvariant
<1> HIDE DEF t
<1>5. /\ task' \in [Browser -> TaskRow]
      /\ \A k \in Browser :
           /\ task'[k].op = "SAVE" => task'[k].edits \/ task'[k].row = task'[k].seen
           /\ task'[k] # Quiet => (task'[k].late => task'[k].admin \in overtaken')
  BY <1>1, <1>3, <1>4, TaskMoves
<1>6. QED
  BY <1>1, <1>5 DEF AdminsInvariant

LEMMA CheckPasswordKeeps ==
  ASSUME AdminsInvariant, NEW b \in Browser, CheckPassword(b)
  PROVE  AdminsInvariant'
<1> DEFINE c == task[b]
           t == [op |-> "COUNT", admin |-> c.admin, seen |-> c.seen, late |-> c.late,
                 right |-> c.typed = c.seen.password, count |-> failed[c.admin]]
<1>1. /\ task' = [task EXCEPT ![b] = t] /\ c.op = "CHECK"
      /\ admin' = admin /\ failed' = failed /\ missed' = missed /\ shut' = shut
      /\ overtaken' = overtaken /\ intruder' = intruder
  BY DEF CheckPassword
<1>2. c \in [op : {"CHECK"}, admin : Admin, seen : AdminRow, typed : Password, late : BOOLEAN]
  BY <1>1, TaskType
<1>3. c.late => c.admin \in overtaken
  BY <1>1 DEF AdminsInvariant, Quiet
<1>4. c.admin \in Admin /\ c.seen \in AdminRow /\ c.late \in BOOLEAN
  BY <1>2
<1>5. failed[c.admin] \in Nat
  BY <1>4 DEF AdminsInvariant
<1> HIDE DEF c
<1>6. /\ t \in TaskRow /\ t.op = "COUNT" /\ t.late = c.late /\ t.admin = c.admin
  BY <1>4, <1>5 DEF TaskRow
<1> HIDE DEF t
<1>7. /\ task' \in [Browser -> TaskRow]
      /\ \A k \in Browser :
           /\ task'[k].op = "SAVE" => task'[k].edits \/ task'[k].row = task'[k].seen
           /\ task'[k] # Quiet => (task'[k].late => task'[k].admin \in overtaken')
  BY <1>1, <1>3, <1>6, TaskMoves
<1>8. QED
  BY <1>1, <1>7 DEF AdminsInvariant

\* The count is incremented in the database, where no other login is lost.
LEMMA SaveStatsKeeps ==
  ASSUME AdminsInvariant, NEW b \in Browser, SaveStats(b)
  PROVE  AdminsInvariant'
<1> DEFINE c == task[b]
           t == [op |-> "SAVE", admin |-> c.admin, seen |-> c.seen, row |-> c.seen,
                 late |-> c.late, opens |-> c.right, edits |-> FALSE]
           n == IF c.right THEN 0 ELSE failed[c.admin] + 1
<1>1. /\ task' = [task EXCEPT ![b] = t] /\ c.op = "COUNT"
      /\ failed' = [failed EXCEPT ![c.admin] = n]
      /\ missed' = [missed EXCEPT ![c.admin] = IF c.right THEN 0 ELSE @ + 1]
      /\ admin' = admin /\ shut' = shut
      /\ overtaken' = overtaken /\ intruder' = intruder
  BY DEF SaveStats, FailedCount
<1>2. c \in [op : {"COUNT"}, admin : Admin, seen : AdminRow, late : BOOLEAN,
             right : BOOLEAN, count : Nat]
  BY <1>1, TaskType
<1>3. c.late => c.admin \in overtaken
  BY <1>1 DEF AdminsInvariant, Quiet
<1>4. c.admin \in Admin /\ c.seen \in AdminRow /\ c.late \in BOOLEAN /\ c.right \in BOOLEAN
  BY <1>2
<1>5. failed \in [Admin -> Nat] /\ missed = failed
  BY DEF AdminsInvariant
<1> HIDE DEF c
<1>6. failed' \in [Admin -> Nat] /\ failed' = missed'
  BY <1>1, <1>4, <1>5
<1>7. /\ t \in TaskRow /\ t.op = "SAVE" /\ t.late = c.late /\ t.admin = c.admin
      /\ t.row = t.seen
  BY <1>4 DEF TaskRow
<1> HIDE DEF t, n
<1>8. /\ task' \in [Browser -> TaskRow]
      /\ \A k \in Browser :
           /\ task'[k].op = "SAVE" => task'[k].edits \/ task'[k].row = task'[k].seen
           /\ task'[k] # Quiet => (task'[k].late => task'[k].admin \in overtaken')
  BY <1>1, <1>3, <1>7, TaskMoves
<1>9. QED
  BY <1>1, <1>6, <1>8 DEF AdminsInvariant

LEMMA EditAdminKeeps ==
  ASSUME AdminsInvariant, NEW b \in Browser, NEW a \in Admin, NEW row \in AdminRow,
         EditAdmin(b, a, row)
  PROVE  AdminsInvariant'
<1> DEFINE t == [op |-> "SAVE", admin |-> a, seen |-> admin[a], row |-> row,
                 late |-> FALSE, opens |-> FALSE, edits |-> TRUE]
<1>1. /\ task' = [task EXCEPT ![b] = t]
      /\ admin' = admin /\ failed' = failed /\ missed' = missed /\ shut' = shut
      /\ overtaken' = overtaken /\ intruder' = intruder
  BY DEF EditAdmin
<1>2. admin[a] \in AdminRow
  BY DEF AdminsInvariant
<1>3. t \in TaskRow /\ t.op = "SAVE" /\ ~t.late /\ t.edits
  BY <1>2 DEF TaskRow
<1> HIDE DEF t
<1>4. /\ task' \in [Browser -> TaskRow]
      /\ \A k \in Browser :
           /\ task'[k].op = "SAVE" => task'[k].edits \/ task'[k].row = task'[k].seen
           /\ task'[k] # Quiet => (task'[k].late => task'[k].admin \in overtaken')
  BY <1>1, <1>3, TaskMoves
<1>5. QED
  BY <1>1, <1>4 DEF AdminsInvariant

\* The row is saved: it opens the door again to somebody who is shut only when
\* it was overtaken.
LEMMA SaveAdminKeeps ==
  ASSUME AdminsInvariant, NEW b \in Browser, SaveAdmin(b)
  PROVE  AdminsInvariant'
<1> DEFINE c == task[b]
           a == c.admin
<1>1. /\ task' = [task EXCEPT ![b] = Quiet] /\ c.op = "SAVE"
      /\ admin' = [admin EXCEPT ![a] = c.row]
      /\ shut' = IF ~c.edits THEN shut
                 ELSE IF c.row.status = "DISABLED" THEN shut \cup {a} ELSE shut \ {a}
      /\ overtaken' = IF admin[a] # c.seen THEN overtaken \cup {a} ELSE overtaken
      /\ intruder' = IF c.opens /\ c.late THEN intruder \cup {a} ELSE intruder
      /\ failed' = failed /\ missed' = missed
  BY DEF SaveAdmin
<1>2. c \in [op : {"SAVE"}, admin : Admin, seen : AdminRow, row : AdminRow, late : BOOLEAN,
             opens : BOOLEAN, edits : BOOLEAN]
  BY <1>1, TaskType
<1>3. /\ c.late => a \in overtaken
      /\ c.edits \/ c.row = c.seen
  BY <1>1 DEF AdminsInvariant, Quiet
<1>4. /\ a \in Admin /\ c.row \in AdminRow /\ c.edits \in BOOLEAN
      /\ c.row.status \in {"USING", "DISABLED"}
  BY <1>2 DEF AdminRow
<1>5. /\ admin \in [Admin -> AdminRow] /\ shut \subseteq Admin
      /\ \A k \in shut : admin[k].status = "DISABLED" \/ k \in overtaken
      /\ intruder \subseteq overtaken
  BY DEF AdminsInvariant
<1> HIDE DEF c, a
<1>6. /\ admin' \in [Admin -> AdminRow] /\ admin'[a] = c.row
      /\ \A k \in Admin : k # a => admin'[k] = admin[k]
  BY <1>1, <1>4, <1>5
<1>7. overtaken \subseteq overtaken' /\ intruder' \subseteq overtaken' /\ shut' \subseteq Admin
  BY <1>1, <1>3, <1>4, <1>5
<1>8. ASSUME NEW k \in shut'
      PROVE  admin'[k].status = "DISABLED" \/ k \in overtaken'
  <2>1. CASE k # a
    BY <1>1, <1>5, <1>6, <1>7, <2>1
  <2>2. CASE k = a /\ c.edits
    BY <1>1, <1>4, <1>6, <2>2
  <2>3. CASE k = a /\ ~c.edits
    <3>1. c.row = c.seen /\ k \in shut
      BY <1>1, <1>3, <2>3
    <3>2. QED
      BY <1>1, <1>5, <1>6, <1>7, <2>3, <3>1
  <2>4. QED
    BY <2>1, <2>2, <2>3
<1>9. Quiet \in TaskRow /\ Quiet.op = "QUIET"
  BY DEF TaskRow, Quiet
<1>10. /\ task' \in [Browser -> TaskRow]
       /\ \A k \in Browser :
            /\ task'[k].op = "SAVE" => task'[k].edits \/ task'[k].row = task'[k].seen
            /\ task'[k] # Quiet => (task'[k].late => task'[k].admin \in overtaken')
  BY <1>1, <1>7, <1>9, TaskMoves
<1>11. QED
  BY <1>1, <1>6, <1>7, <1>8, <1>10 DEF AdminsInvariant

LEMMA NextAdmins == AdminsInvariant /\ [AdminsNext]_adminVars => AdminsInvariant'
<1> SUFFICES ASSUME AdminsInvariant, [AdminsNext]_adminVars PROVE AdminsInvariant'
  OBVIOUS
<1>1. ASSUME NEW b \in Browser, Logout(b) PROVE AdminsInvariant'
  BY <1>1 DEF Logout, AdminsInvariant
<1>2. CASE UNCHANGED adminVars
  BY <1>2 DEF adminVars, AdminsInvariant
<1>3. CASE AdminsNext
  BY <1>1, <1>3, StartLoginKeeps, CheckPasswordKeeps, SaveStatsKeeps, EditAdminKeeps,
     SaveAdminKeeps DEF AdminsNext
<1>4. QED
  BY <1>2, <1>3

\* Whatever browsers try at the same time: wrong passwords are counted one by
\* one, and a disabled administrator gets in only through a row that was saved
\* as it no longer was.
THEOREM DoorIsGuardedCorrect == AdminsInit /\ [][AdminsNext]_adminVars => []DoorIsGuarded
<1>1. AdminsInvariant => DoorIsGuarded
  BY DEF AdminsInvariant, DoorIsGuarded, FailuresAreCounted, LockedOut
<1>2. QED
  BY <1>1, InitAdmins, NextAdmins, PTL

-----------------------------------------------------------------------------
(* Clients *)

Client == Handset \cup StaffPhone
Waiting == [op : {"EXCHANGE"}, channel : {"WECHAT", "ALIPAY"}]
Answering == [op : {"ANSWER"}, token : Token, modified : BOOLEAN]

ClientsTypeOK ==
  /\ cache \in [Token -> {Gone} \cup {Stored(c) : c \in Client \cup {NoOne}}]
  /\ used \subseteq Token
  /\ revoked \subseteq used
  /\ held \in [Client -> used \cup {NoOne}]
  /\ login \in [Handset -> {Quiet} \cup Waiting \cup Answering]

\* A token has one owner: who holds it, or the handset it is being made for.
OneOwner ==
  /\ \A h, k \in Client : held[h] = held[k] => h = k \/ held[h] = NoOne
  /\ \A h \in Handset : login[h].op = "ANSWER" =>
       /\ login[h].token \in used \ revoked
       /\ \A k \in Client : held[k] # login[h].token
       /\ \A k \in Handset : login[k].op = "ANSWER" =>
            (login[k].token = login[h].token => k = h)

\* The session of a token that is being made is the client's, or will be saved.
AnswersAreOwn ==
  \A h \in Handset : login[h].op = "ANSWER" =>
    \/ cache[login[h].token] \in {Gone, Stored(h)}
    \/ login[h].modified

ClientsInvariant == ClientsTypeOK /\ OneOwner /\ AnswersAreOwn /\ TokensNameClients

LEMMA LoginType ==
  ASSUME ClientsInvariant, NEW h \in Handset
  PROVE  /\ login[h].op = "ANSWER" => login[h] \in Answering
         /\ login[h].op = "EXCHANGE" => login[h] \in Waiting
<1>1. login[h] \in {Quiet} \cup Waiting \cup Answering
  BY DEF ClientsInvariant, ClientsTypeOK
<1>2. Quiet.op = "QUIET"
  BY DEF Quiet
<1>3. QED
  BY <1>1, <1>2 DEF Waiting, Answering

LEMMA InitClients == ClientsInit => ClientsInvariant
<1> SUFFICES ASSUME ClientsInit PROVE ClientsInvariant
  OBVIOUS
<1>1. Quiet.op = "QUIET"
  BY DEF Quiet
<1>2. /\ cache = [t \in Token |-> Gone]
      /\ used = {} /\ revoked = {}
      /\ held = [h \in Client |-> NoOne]
      /\ login = [h \in Handset |-> Quiet]
  BY DEF ClientsInit, Client
<1>3. ClientsTypeOK
  BY <1>2 DEF ClientsTypeOK
<1>4. OneOwner /\ AnswersAreOwn
  BY <1>1, <1>2 DEF OneOwner, AnswersAreOwn
<1>5. TokensNameClients
  BY <1>2 DEF TokensNameClients, Client
<1>6. QED
  BY <1>3, <1>4, <1>5 DEF ClientsInvariant

\* The login of a handset ends, or waits: nobody is about to get a new token.
LEMMA LoginEnds ==
  ASSUME ClientsInvariant, NEW h \in Handset, NEW l \in {Quiet} \cup Waiting,
         login' = [login EXCEPT ![h] = l],
         cache' \in [Token -> {Gone} \cup {Stored(c) : c \in Client \cup {NoOne}}],
         \A k \in Handset : k # h /\ login[k].op = "ANSWER" =>
           /\ login[k].token \notin revoked'
           /\ cache'[login[k].token] \in {Gone, cache[login[k].token]},
         \A t \in used : cache'[t] \in {Gone, cache[t]} \/ \A k \in Client : held[k] # t,
         used' = used, revoked' \subseteq used, held' = held,
         \A t \in revoked' : cache'[t] = Gone
  PROVE  ClientsInvariant'
<1>1. l.op # "ANSWER"
  BY DEF Quiet, Waiting
<1>2. /\ login'[h] = l /\ \A k \in Handset : k # h => login'[k] = login[k]
      /\ login' \in [Handset -> {Quiet} \cup Waiting \cup Answering]
  BY DEF ClientsInvariant, ClientsTypeOK
<1>3. ClientsTypeOK'
  BY <1>2 DEF ClientsInvariant, ClientsTypeOK
<1>4. OneOwner'
  BY <1>1, <1>2 DEF ClientsInvariant, OneOwner
<1>5. AnswersAreOwn'
  BY <1>1, <1>2 DEF ClientsInvariant, AnswersAreOwn
<1>6. ASSUME NEW k \in Client, held[k] # NoOne
      PROVE  cache'[held[k]] = Gone \/ cache'[held[k]] = Stored(k)
  <2>1. held[k] \in used
    BY <1>6 DEF ClientsInvariant, ClientsTypeOK
  <2>2. cache[held[k]] = Gone \/ cache[held[k]] = Stored(k)
    BY <1>6 DEF ClientsInvariant, TokensNameClients, Client
  <2>3. QED
    BY <2>1, <2>2
<1>7. TokensNameClients'
  BY <1>6 DEF TokensNameClients, Client, Stored
<1>8. QED
  BY <1>3, <1>4, <1>5, <1>7 DEF ClientsInvariant

LEMMA SendCodeKeeps ==
  ASSUME ClientsInvariant, NEW h \in Handset, NEW channel \in {"WECHAT", "ALIPAY"},
         SendCode(h, channel)
  PROVE  ClientsInvariant'
<1> DEFINE l == [op |-> "EXCHANGE", channel |-> channel]
<1>1. /\ cache' = Flushed(h) /\ revoked' = revoked \cup ({held[h]} \ {NoOne})
      /\ login' = [login EXCEPT ![h] = l] /\ used' = used /\ held' = held
  BY DEF SendCode
<1>2. l \in {Quiet} \cup Waiting
  BY DEF Waiting
<1> HIDE DEF l
<1>3. /\ cache \in [Token -> {Gone} \cup {Stored(c) : c \in Client \cup {NoOne}}]
      /\ used \subseteq Token /\ revoked \subseteq used /\ h \in Client
      /\ held[h] \in used \cup {NoOne}
  BY DEF ClientsInvariant, ClientsTypeOK, Client
<1>4. /\ \A t \in Token : cache'[t] \in {Gone, cache[t]}
      /\ held[h] # NoOne => cache'[held[h]] = Gone
      /\ cache' \in [Token -> {Gone} \cup {Stored(c) : c \in Client \cup {NoOne}}]
  BY <1>1, <1>3 DEF Flushed
<1>5. ASSUME NEW k \in Handset, login[k].op = "ANSWER"
      PROVE  /\ login[k].token \notin revoked'
             /\ cache'[login[k].token] \in {Gone, cache[login[k].token]}
  <2>1. login[k].token \in used \ revoked /\ held[h] # login[k].token
    BY <1>3, <1>5 DEF ClientsInvariant, OneOwner
  <2>2. QED
    BY <1>1, <1>3, <1>4, <2>1
<1>6. ASSUME NEW t \in revoked' PROVE cache'[t] = Gone
  <2>1. CASE t \in revoked
    <3>1. cache[t] = Gone
      BY <2>1 DEF ClientsInvariant, TokensNameClients
    <3>2. QED
      BY <1>3, <1>4, <2>1, <3>1
  <2>2. CASE t = held[h] /\ t # NoOne
    BY <1>4, <2>2
  <2>3. QED
    BY <1>1, <1>6, <2>1, <2>2
<1>7. revoked' \subseteq used
  BY <1>1, <1>3
<1>8. QED
  BY <1>1, <1>2, <1>3, <1>4, <1>5, <1>6, <1>7, LoginEnds

LEMMA CodeRefusedKeeps ==
  ASSUME ClientsInvariant, NEW h \in Handset, CodeRefused(h)
  PROVE  ClientsInvariant'
<1>1. /\ login' = [login EXCEPT ![h] = Quiet]
      /\ cache' = cache /\ used' = used /\ held' = held /\ revoked' = revoked
  BY DEF CodeRefused
<1>2. /\ cache \in [Token -> {Gone} \cup {Stored(c) : c \in Client \cup {NoOne}}]
      /\ revoked \subseteq used /\ \A t \in revoked : cache[t] = Gone
      /\ \A k \in Handset : login[k].op = "ANSWER" => login[k].token \notin revoked
  BY DEF ClientsInvariant, ClientsTypeOK, TokensNameClients, OneOwner
<1>3. QED
  BY <1>1, <1>2, LoginEnds

\* A key that nobody has
LEMMA CreateTokenKeeps ==
  ASSUME ClientsInvariant, NEW h \in Handset, NEW t \in Token, CreateToken(h, t)
  PROVE  ClientsInvariant'
<1> DEFINE alipay == login[h].channel = "ALIPAY"
           s == Stored(IF alipay THEN h ELSE NoOne)
           l == [op |-> "ANSWER", token |-> t, modified |-> ~alipay]
<1>1. /\ t \notin used /\ used' = used \cup {t}
      /\ cache' = [cache EXCEPT ![t] = s]
      /\ login' = [login EXCEPT ![h] = l]
      /\ held' = held /\ revoked' = revoked
  BY DEF CreateToken, NewToken
<1>2. /\ alipay => s = Stored(h)
      /\ s \in {Stored(c) : c \in Client \cup {NoOne}}
      /\ l \in Answering /\ l.op = "ANSWER" /\ l.token = t /\ l.modified = ~alipay
  BY DEF Client, Answering
<1> HIDE DEF s, l
<1>3. /\ cache \in [Token -> {Gone} \cup {Stored(c) : c \in Client \cup {NoOne}}]
      /\ used \subseteq Token /\ revoked \subseteq used
      /\ held \in [Client -> used \cup {NoOne}]
      /\ login \in [Handset -> {Quiet} \cup Waiting \cup Answering]
  BY DEF ClientsInvariant, ClientsTypeOK
<1>4. /\ login'[h] = l /\ \A k \in Handset : k # h => login'[k] = login[k]
      /\ login' \in [Handset -> {Quiet} \cup Waiting \cup Answering]
      /\ cache'[t] = s /\ \A u \in used : cache'[u] = cache[u]
      /\ cache' \in [Token -> {Gone} \cup {Stored(c) : c \in Client \cup {NoOne}}]
  BY <1>1, <1>2, <1>3
<1>5. ClientsTypeOK'
  BY <1>1, <1>3, <1>4 DEF ClientsTypeOK
<1>6. \A k \in Client : held[k] # t
  BY <1>1, <1>3, TokenAssumption
<1>7. \A k \in Handset : login[k].op = "ANSWER" => login[k].token \in used \ revoked
  BY DEF ClientsInvariant, OneOwner
<1>8. OneOwner'
  <2>1. \A j, k \in Client : held'[j] = held'[k] => j = k \/ held'[j] = NoOne
    BY <1>1 DEF ClientsInvariant, OneOwner
  <2>2. ASSUME NEW j \in Handset, login'[j].op = "ANSWER"
        PROVE  /\ login'[j].token \in used' \ revoked'
               /\ \A k \in Client : held'[k] # login'[j].token
    <3>1. CASE j = h
      BY <1>1, <1>2, <1>3, <1>4, <1>6, <3>1
    <3>2. CASE j # h
      BY <1>1, <1>4, <2>2, <3>2 DEF ClientsInvariant, OneOwner
    <3>3. QED
      BY <3>1, <3>2
  <2>3. ASSUME NEW j \in Handset, NEW k \in Handset,
               login'[j].op = "ANSWER", login'[k].op = "ANSWER",
               login'[k].token = login'[j].token
        PROVE  k = j
    <3>1. CASE j # h /\ k # h
      BY <1>4, <2>3, <3>1 DEF ClientsInvariant, OneOwner
    <3>2. CASE (j = h /\ k # h) \/ (j # h /\ k = h)
      BY <1>1, <1>2, <1>4, <1>7, <2>3, <3>2
    <3>3. QED
      BY <3>1, <3>2
  <2>4. QED
    BY <2>1, <2>2, <2>3 DEF OneOwner
<1>9. AnswersAreOwn'
  <2> SUFFICES ASSUME NEW j \in Handset, login'[j].op = "ANSWER"
               PROVE  \/ cache'[login'[j].token] \in {Gone, Stored(j)}
                      \/ login'[j].modified
    BY DEF AnswersAreOwn, Stored
  <2>1. CASE j = h
    BY <1>2, <1>4, <2>1
  <2>2. CASE j # h
    BY <1>4, <1>7, <2>2 DEF ClientsInvariant, AnswersAreOwn
  <2>3. QED
    BY <2>1, <2>2
<1>10. TokensNameClients'
  BY <1>1, <1>3, <1>4 DEF ClientsInvariant, TokensNameClients, Client, Stored
<1>11. QED
  BY <1>5, <1>8, <1>9, <1>10 DEF ClientsInvariant

\* What the end of a request may save is the client's own session.
LEMMA KeptIsOwn ==
  ASSUME ClientsInvariant, NEW h \in Handset, login[h].op = "ANSWER"
  PROVE  /\ login[h].token \in used \ revoked
         /\ \A t \in Token : t # login[h].token => Kept(h)[t] = cache[t]
         /\ Kept(h)[login[h].token] \in {Gone, Stored(h)}
         /\ Kept(h) \in [Token -> {Gone} \cup {Stored(c) : c \in Client \cup {NoOne}}]
<1>1. /\ cache \in [Token -> {Gone} \cup {Stored(c) : c \in Client \cup {NoOne}}]
      /\ used \subseteq Token
  BY DEF ClientsInvariant, ClientsTypeOK
<1>2. login[h].token \in used \ revoked
  BY DEF ClientsInvariant, OneOwner
<1>3. Stored(h) \in {Stored(c) : c \in Client \cup {NoOne}}
  BY DEF Client
<1>4. cache[login[h].token] \in {Gone, Stored(h)} \/ login[h].modified
  BY DEF ClientsInvariant, AnswersAreOwn
<1>5. QED
  BY <1>1, <1>2, <1>3, <1>4 DEF Kept

LEMMA AnswerKeeps ==
  ASSUME ClientsInvariant, NEW h \in Handset, Answer(h)
  PROVE  ClientsInvariant'
<1> DEFINE t == login[h].token
<1>1. /\ login[h].op = "ANSWER" /\ cache' = Kept(h)
      /\ held' = [held EXCEPT ![h] = t]
      /\ login' = [login EXCEPT ![h] = Quiet]
      /\ used' = used /\ revoked' = revoked
  BY DEF Answer
<1>2. /\ t \in used \ revoked
      /\ \A u \in Token : u # t => cache'[u] = cache[u]
      /\ cache'[t] \in {Gone, Stored(h)}
      /\ cache' \in [Token -> {Gone} \cup {Stored(c) : c \in Client \cup {NoOne}}]
  BY <1>1, KeptIsOwn
<1>3. /\ \A k \in Client : held[k] # t
      /\ \A k \in Handset : login[k].op = "ANSWER" /\ login[k].token = t => k = h
  BY <1>1 DEF ClientsInvariant, OneOwner
<1> HIDE DEF t
<1>4. /\ used \subseteq Token /\ revoked \subseteq used /\ h \in Client
      /\ held \in [Client -> used \cup {NoOne}]
      /\ login \in [Handset -> {Quiet} \cup Waiting \cup Answering]
  BY DEF ClientsInvariant, ClientsTypeOK, Client
<1>5. /\ held'[h] = t /\ \A k \in Client : k # h => held'[k] = held[k]
      /\ held' \in [Client -> used \cup {NoOne}]
      /\ login'[h] = Quiet /\ \A k \in Handset : k # h => login'[k] = login[k]
      /\ login' \in [Handset -> {Quiet} \cup Waiting \cup Answering]
  BY <1>1, <1>2, <1>4
<1>6. Quiet.op = "QUIET"
  BY DEF Quiet
<1>7. ClientsTypeOK'
  BY <1>1, <1>2, <1>4, <1>5 DEF ClientsTypeOK
<1>8. OneOwner'
  BY <1>1, <1>3, <1>5, <1>6 DEF ClientsInvariant, OneOwner
<1>9. AnswersAreOwn'
  <2> SUFFICES ASSUME NEW j \in Handset, login'[j].op = "ANSWER"
               PROVE  \/ cache'[login'[j].token] \in {Gone, Stored(j)}
                      \/ login'[j].modified
    BY DEF AnswersAreOwn, Stored
  <2>1. j # h /\ login'[j] = login[j] /\ login[j].op = "ANSWER"
    BY <1>5, <1>6
  <2>2. login[j].token \in Token /\ login[j].token # t
    BY <1>3, <2>1, LoginType DEF Answering
  <2>3. QED
    BY <1>2, <2>1, <2>2 DEF ClientsInvariant, AnswersAreOwn
<1>10. TokensNameClients'
  BY <1>1, <1>2, <1>3, <1>4, <1>5 DEF ClientsInvariant, TokensNameClients, Client, Stored
<1>11. QED
  BY <1>7, <1>8, <1>9, <1>10 DEF ClientsInvariant

LEMMA NoAnswerKeeps ==
  ASSUME ClientsInvariant, NEW h \in Handset, NoAnswer(h)
  PROVE  ClientsInvariant'
<1> DEFINE t == login[h].token
<1>1. /\ login[h].op = "ANSWER" /\ (cache' = cache \/ cache' = Kept(h))
      /\ login' = [login EXCEPT ![h] = Quiet]
      /\ used' = used /\ held' = held /\ revoked' = revoked
  BY DEF NoAnswer
<1>2. /\ cache \in [Token -> {Gone} \cup {Stored(c) : c \in Client \cup {NoOne}}]
      /\ used \subseteq Token /\ revoked \subseteq used
  BY DEF ClientsInvariant, ClientsTypeOK
<1>3. /\ t \in used \ revoked
      /\ \A u \in Token : u # t => cache'[u] = cache[u]
      /\ cache' \in [Token -> {Gone} \cup {Stored(c) : c \in Client \cup {NoOne}}]
  BY <1>1, <1>2, KeptIsOwn
<1>4. /\ \A k \in Client : held[k] # t
      /\ \A k \in Handset : login[k].op = "ANSWER" =>
           login[k].token \in used \ revoked /\ (login[k].token = t => k = h)
  BY <1>1 DEF ClientsInvariant, OneOwner
<1>5. \A u \in revoked : cache[u] = Gone
  BY DEF ClientsInvariant, TokensNameClients
<1> HIDE DEF t
<1>6. QED
  BY <1>1, <1>2, <1>3, <1>4, <1>5, LoginEnds

LEMMA MiniProgramLoginKeeps ==
  ASSUME ClientsInvariant, NEW h \in StaffPhone, NEW t \in Token, MiniProgramLogin(h, t)
  PROVE  ClientsInvariant'
<1>1. /\ t \notin used /\ used' = used \cup {t}
      /\ cache' = [cache EXCEPT ![t] = Stored(h)]
      /\ held' = [held EXCEPT ![h] = t]
      /\ login' = login /\ revoked' = revoked
  BY DEF MiniProgramLogin, NewToken
<1>2. /\ cache \in [Token -> {Gone} \cup {Stored(c) : c \in Client \cup {NoOne}}]
      /\ used \subseteq Token /\ revoked \subseteq used /\ h \in Client
      /\ held \in [Client -> used \cup {NoOne}]
  BY DEF ClientsInvariant, ClientsTypeOK, Client
<1>3. Stored(h) \in {Stored(c) : c \in Client \cup {NoOne}}
  BY DEF Client
<1>4. /\ cache'[t] = Stored(h) /\ \A u \in used : cache'[u] = cache[u]
      /\ cache' \in [Token -> {Gone} \cup {Stored(c) : c \in Client \cup {NoOne}}]
      /\ held'[h] = t /\ \A k \in Client : k # h => held'[k] = held[k]
      /\ held' \in [Client -> used' \cup {NoOne}]
  BY <1>1, <1>2, <1>3
<1>5. ClientsTypeOK'
  BY <1>1, <1>2, <1>4 DEF ClientsInvariant, ClientsTypeOK
<1>6. \A k \in Client : held[k] # t
  BY <1>1, <1>2, TokenAssumption
<1>7. \A k \in Handset : login[k].op = "ANSWER" => login[k].token \in used \ revoked
  BY DEF ClientsInvariant, OneOwner
<1>8. OneOwner'
  BY <1>1, <1>4, <1>6, <1>7 DEF ClientsInvariant, OneOwner
<1>9. AnswersAreOwn'
  BY <1>1, <1>4, <1>7 DEF ClientsInvariant, AnswersAreOwn, Stored
<1>10. TokensNameClients'
  BY <1>1, <1>2, <1>4, <1>6 DEF ClientsInvariant, TokensNameClients, Client, Stored
<1>11. QED
  BY <1>5, <1>8, <1>9, <1>10 DEF ClientsInvariant

LEMMA TokenExpiresKeeps ==
  ASSUME ClientsInvariant, NEW t \in Token, TokenExpires(t)
  PROVE  ClientsInvariant'
<1>1. /\ cache' = [cache EXCEPT ![t] = Gone]
      /\ used' = used /\ held' = held /\ login' = login /\ revoked' = revoked
  BY DEF TokenExpires
<1>2. /\ cache \in [Token -> {Gone} \cup {Stored(c) : c \in Client \cup {NoOne}}]
      /\ used \subseteq Token /\ revoked \subseteq used
      /\ held \in [Client -> used \cup {NoOne}]
  BY DEF ClientsInvariant, ClientsTypeOK
<1>3. /\ \A u \in Token : cache'[u] \in {Gone, cache[u]}
      /\ cache' \in [Token -> {Gone} \cup {Stored(c) : c \in Client \cup {NoOne}}]
  BY <1>1, <1>2
<1>4. ClientsTypeOK' /\ OneOwner'
  BY <1>1, <1>3 DEF ClientsInvariant, ClientsTypeOK, OneOwner
<1>5. \A k \in Handset : login[k].op = "ANSWER" => login[k].token \in used
  BY DEF ClientsInvariant, OneOwner
<1>6. AnswersAreOwn'
  BY <1>1, <1>2, <1>3, <1>5 DEF ClientsInvariant, AnswersAreOwn, Stored
<1>7. TokensNameClients'
  BY <1>1, <1>2, <1>3 DEF ClientsInvariant, TokensNameClients, Client, Stored
<1>8. QED
  BY <1>4, <1>6, <1>7 DEF ClientsInvariant

LEMMA NextClients == ClientsInvariant /\ [ClientsNext]_clientVars => ClientsInvariant'
<1> SUFFICES ASSUME ClientsInvariant, [ClientsNext]_clientVars PROVE ClientsInvariant'
  OBVIOUS
<1>1. CASE UNCHANGED clientVars
  BY <1>1 DEF clientVars, ClientsInvariant, ClientsTypeOK, OneOwner, AnswersAreOwn,
              TokensNameClients, Stored
<1>2. CASE ClientsNext
  BY <1>2, SendCodeKeeps, CodeRefusedKeeps, CreateTokenKeeps, AnswerKeeps, NoAnswerKeeps,
     MiniProgramLoginKeeps, TokenExpiresKeeps DEF ClientsNext
<1>3. QED
  BY <1>1, <1>2

\* Whatever fails in between: the token a client holds is gone or names that
\* client, and one that a login gave up is worth nothing.
THEOREM TokensNameClientsCorrect ==
  ClientsInit /\ [][ClientsNext]_clientVars => []TokensNameClients
<1>1. ClientsInvariant => TokensNameClients
  BY DEF ClientsInvariant
<1>2. QED
  BY <1>1, InitClients, NextClients, PTL

-----------------------------------------------------------------------------
(* Access tokens of the subscription account *)

TimerRow ==
  {Done}
  \cup [op : {"ASK"}, env : {"prod", "test"}, calls : Nat, tries : Nat, got : {NoToken}]
  \cup [op : {"STORE"}, env : {"prod", "test"}, calls : Nat, tries : Nat, got : Nat]

\* Unless it is unsure, one refresh at most is under way, and the token it is
\* about to store is the newest.
TokensInvariant ==
  /\ issued \in Nat
  /\ stored \in [{"prod", "test"} -> Nat]
  /\ run \in [Timer -> TimerRow]
  /\ unsure \in BOOLEAN
  /\ ~unsure => \A s, t \in Timer : Refreshing(s) /\ Refreshing(t) => s = t
  /\ ~unsure => \A t \in Timer : Refreshing(t) /\ run[t].op = "STORE" => run[t].got = issued
  /\ NewestTokenIsKept

\* What an invocation of the timer knows
LEMMA RunType ==
  ASSUME TokensInvariant, NEW t \in Timer
  PROVE  /\ run[t].op = "ASK" =>
              run[t] \in [op : {"ASK"}, env : {"prod", "test"}, calls : Nat, tries : Nat,
                          got : {NoToken}]
         /\ run[t].op = "STORE" =>
              run[t] \in [op : {"STORE"}, env : {"prod", "test"}, calls : Nat, tries : Nat,
                          got : Nat]
         /\ run[t] = Done <=> run[t].op = "DONE"
         /\ run[t] # Done => run[t].op \in {"ASK", "STORE"}
<1>1. run[t] \in TimerRow
  BY DEF TokensInvariant
<1>2. Done.op = "DONE"
  BY DEF Done
<1>3. QED
  BY <1>1, <1>2 DEF TimerRow

\* An invocation goes on in the same environment, or ends, without storing:
\* what it has is the newest token, or is marked unsure.
LEMMA TimerMoves ==
  ASSUME TokensInvariant, NEW t \in Timer, NEW r \in TimerRow,
         run' = [run EXCEPT ![t] = r], stored' = stored,
         issued' \in Nat, unsure' \in BOOLEAN, unsure => unsure',
         issued' = issued \/ Refreshing(t),
         r # Done /\ r.env = "prod" =>
           \/ unsure'
           \/ \A s \in Timer \ {t} : ~Refreshing(s),
         ~unsure' /\ Refreshing(t) => r # Done /\ r.env = "prod",
         ~unsure' /\ r # Done /\ r.env = "prod" /\ r.op = "STORE" => r.got = issued'
  PROVE  TokensInvariant'
<1>1. run \in [Timer -> TimerRow]
  BY DEF TokensInvariant
<1>2. /\ run'[t] = r /\ \A s \in Timer : s # t => run'[s] = run[s]
      /\ run' \in [Timer -> TimerRow]
  BY <1>1
<1>3. /\ Refreshing(t)' <=> r # Done /\ r.env = "prod"
      /\ \A s \in Timer : s # t => (Refreshing(s)' <=> Refreshing(s))
  BY <1>2 DEF Refreshing, Done
<1>4. ASSUME ~unsure', NEW s \in Timer, NEW k \in Timer, Refreshing(s)', Refreshing(k)'
      PROVE  s = k
  <2>1. CASE s = t \/ k = t
    BY <1>3, <1>4, <2>1
  <2>2. CASE s # t /\ k # t
    BY <1>3, <1>4, <2>2 DEF TokensInvariant
  <2>3. QED
    BY <2>1, <2>2
<1>5. ASSUME ~unsure', NEW s \in Timer, Refreshing(s)', run'[s].op = "STORE"
      PROVE  run'[s].got = issued'
  <2>1. CASE s = t
    BY <1>2, <1>3, <1>5, <2>1
  <2>2. CASE s # t
    <3>1. Refreshing(s) /\ run[s].op = "STORE"
      BY <1>2, <1>3, <1>5, <2>2
    <3>2. ~Refreshing(t)
      BY <1>5, <2>2, <3>1 DEF TokensInvariant
    <3>3. QED
      BY <1>2, <1>5, <2>2, <3>1, <3>2 DEF TokensInvariant
  <2>3. QED
    BY <2>1, <2>2
<1>6. ASSUME ~unsure', \A s \in Timer : ~Refreshing(s)'
      PROVE  stored'.prod = issued'
  <2>1. \A s \in Timer : ~Refreshing(s)
    BY <1>3, <1>6
  <2>2. stored.prod = issued
    BY <1>6, <2>1 DEF TokensInvariant, NewestTokenIsKept
  <2>3. QED
    BY <2>1, <2>2
<1>7. NewestTokenIsKept'
  BY <1>6 DEF NewestTokenIsKept
<1>8. QED
  BY <1>2, <1>4, <1>5, <1>7 DEF TokensInvariant

LEMMA InitTokens == TokensInit => TokensInvariant
<1> SUFFICES ASSUME TokensInit PROVE TokensInvariant
  OBVIOUS
<1>1. Done \in TimerRow
  BY DEF TimerRow
<1>2. /\ issued = 0 /\ stored = [prod |-> 0, test |-> 0]
      /\ run = [t \in Timer |-> Done] /\ unsure = FALSE
  BY DEF TokensInit, NoToken
<1>3. stored \in [{"prod", "test"} -> Nat] /\ stored.prod = 0
  BY <1>2
<1>4. \A t \in Timer : ~Refreshing(t)
  BY <1>2 DEF Refreshing
<1>5. QED
  BY <1>1, <1>2, <1>3, <1>4 DEF TokensInvariant, NewestTokenIsKept

\* A refresh that begins while another is under way makes it unsure.
LEMMA TimerFiresKeeps ==
  ASSUME TokensInvariant, NEW t \in Timer, NEW env \in {"prod", "test"}, TimerFires(t, env)
  PROVE  TokensInvariant'
<1> DEFINE r == [op |-> "ASK", env |-> env, calls |-> 1, tries |-> 1, got |-> NoToken]
<1>1. /\ run' = [run EXCEPT ![t] = r] /\ stored' = stored /\ issued' = issued
      /\ unsure' = (unsure \/ (env = "prod" /\ \E other \in Timer : Refreshing(other)))
      /\ ~Refreshing(t)
  BY DEF TimerFires, Refreshing
<1>2. r \in TimerRow /\ r.op = "ASK" /\ r.env = env
  BY DEF TimerRow
<1> HIDE DEF r
<1>3. issued \in Nat /\ unsure \in BOOLEAN
  BY DEF TokensInvariant
<1>4. unsure' \in BOOLEAN /\ (unsure => unsure')
  BY <1>1, <1>3
<1>5. env = "prod" => unsure' \/ \A s \in Timer \ {t} : ~Refreshing(s)
  BY <1>1
<1>6. QED
  BY <1>1, <1>2, <1>3, <1>4, <1>5, TimerMoves

LEMMA WeChatIssuesKeeps ==
  ASSUME TokensInvariant, NEW t \in Timer, WeChatIssues(t)
  PROVE  TokensInvariant'
<1> DEFINE r == WithToken(t, issued + 1)
<1>1. /\ Refreshing(t) /\ run[t].op = "ASK" /\ issued' = issued + 1
      /\ run' = [run EXCEPT ![t] = r] /\ stored' = stored /\ unsure' = unsure
  BY DEF WeChatIssues
<1>2. issued \in Nat /\ unsure \in BOOLEAN
  BY DEF TokensInvariant
<1>3. run[t] \in [op : {"ASK"}, env : {"prod", "test"}, calls : Nat, tries : Nat, got : {NoToken}]
  BY <1>1, RunType
<1>4. /\ r \in [op : {"STORE"}, env : {"prod", "test"}, calls : Nat, tries : Nat, got : Nat]
      /\ r.env = run[t].env /\ r.got = issued + 1
  <2>1. r = [run[t] EXCEPT !.op = "STORE", !.got = issued + 1]
    BY DEF WithToken
  <2>2. issued + 1 \in Nat
    BY <1>2
  <2> HIDE DEF r
  <2>3. r \in [op : {"STORE"}, env : {"prod", "test"}, calls : Nat, tries : Nat, got : Nat]
    BY <1>3, <2>1, <2>2
  <2>4. r.env = run[t].env /\ r.got = issued + 1
    BY <1>3, <2>1
  <2>5. QED
    BY <2>3, <2>4
<1> HIDE DEF r
<1>5. r \in TimerRow /\ r.env = "prod" /\ r # Done
  BY <1>1, <1>4 DEF TimerRow, Refreshing, Done
<1>6. unsure' \/ \A s \in Timer \ {t} : ~Refreshing(s)
  BY <1>1 DEF TokensInvariant
<1>7. QED
  BY <1>1, <1>2, <1>4, <1>5, <1>6, TimerMoves

\* The timer calls again, or ends: of production that is unsure.
LEMMA GivenUpKeeps ==
  ASSUME TokensInvariant, NEW t \in Timer, run[t].op = "ASK", GivenUp(t),
         stored' = stored, issued' \in Nat, issued' = issued \/ Refreshing(t)
  PROVE  TokensInvariant'
<1>1. run[t] \in [op : {"ASK"}, env : {"prod", "test"}, calls : Nat, tries : Nat, got : {NoToken}]
  BY RunType
<1>2. PICK n \in Nat : n = run[t].calls + 1
  BY <1>1
<1> DEFINE q == [run[t] EXCEPT !.calls = n, !.tries = 1]
<1>3. q \in TimerRow /\ q.env = run[t].env /\ q.op = "ASK"
  <2>1. q \in [op : {"ASK"}, env : {"prod", "test"}, calls : Nat, tries : Nat, got : {NoToken}]
    BY <1>1
  <2>2. q.env = run[t].env
    BY <1>1
  <2>3. QED
    BY <2>1, <2>2 DEF TimerRow
<1>4. run' = [run EXCEPT ![t] = Done] \/ run' = [run EXCEPT ![t] = q]
  BY <1>2 DEF GivenUp
<1> HIDE DEF q
<1>5. unsure' = (unsure \/ Refreshing(t)) /\ unsure \in BOOLEAN
  BY DEF GivenUp, TokensInvariant
<1>6. run[t] # Done
  BY RunType
<1>7. unsure' \in BOOLEAN /\ (unsure => unsure') /\ (Refreshing(t) => unsure')
  BY <1>5
<1>8. Done \in TimerRow
  BY DEF TimerRow
<1>9. q # Done /\ q.env = "prod" => unsure'
  BY <1>3, <1>6, <1>7 DEF Refreshing
<1>10. CASE run' = [run EXCEPT ![t] = Done]
  BY <1>7, <1>8, <1>10, TimerMoves
<1>11. CASE run' = [run EXCEPT ![t] = q]
  BY <1>3, <1>7, <1>9, <1>11, TimerMoves
<1>12. QED
  BY <1>4, <1>10, <1>11

LEMMA WeChatFailsKeeps ==
  ASSUME TokensInvariant, NEW t \in Timer, WeChatFails(t)
  PROVE  TokensInvariant'
<1> DEFINE r == [run[t] EXCEPT !.tries = @ + 1]
<1>1. /\ Refreshing(t) /\ run[t].op = "ASK" /\ stored' = stored
      /\ issued' = issued \/ issued' = issued + 1
  BY DEF WeChatFails
<1>2. issued \in Nat /\ issued' \in Nat /\ unsure \in BOOLEAN
  BY <1>1 DEF TokensInvariant
<1>3. run[t] \in [op : {"ASK"}, env : {"prod", "test"}, calls : Nat, tries : Nat, got : {NoToken}]
  BY <1>1, RunType
<1>4. \/ run' = [run EXCEPT ![t].tries = @ + 1] /\ unsure' = unsure
      \/ GivenUp(t)
  BY <1>3 DEF WeChatFails
<1>5. CASE run' = [run EXCEPT ![t].tries = @ + 1] /\ unsure' = unsure
  <2>1. r \in TimerRow /\ r.env = "prod" /\ r.op = "ASK" /\ r # Done
    BY <1>1, <1>3 DEF TimerRow, Refreshing, Done
  <2>2. run' = [run EXCEPT ![t] = r]
    BY <1>5
  <2> HIDE DEF r
  <2>3. unsure' \/ \A s \in Timer \ {t} : ~Refreshing(s)
    BY <1>1, <1>5 DEF TokensInvariant
  <2>4. QED
    BY <1>1, <1>2, <1>5, <2>1, <2>2, <2>3, TimerMoves
<1>6. CASE GivenUp(t)
  BY <1>1, <1>2, <1>6, GivenUpKeeps
<1>7. QED
  BY <1>4, <1>5, <1>6

LEMMA ObtainTokenKeeps ==
  ASSUME TokensInvariant, NEW t \in Timer, ObtainToken(t)
  PROVE  TokensInvariant'
<1> DEFINE r == [run[t] EXCEPT !.op = "STORE", !.got = stored.prod]
<1>1. /\ run[t].env = "test" /\ run[t].op = "ASK" /\ ~Refreshing(t)
      /\ stored' = stored /\ issued' = issued
      /\ (run' = [run EXCEPT ![t] = r] /\ unsure' = unsure) \/ GivenUp(t)
  BY DEF ObtainToken, Refreshing
<1>2. issued \in Nat /\ unsure \in BOOLEAN /\ stored.prod \in Nat
  BY DEF TokensInvariant
<1>3. run[t] \in [op : {"ASK"}, env : {"prod", "test"}, calls : Nat, tries : Nat, got : {NoToken}]
  BY <1>1, RunType
<1>4. r \in TimerRow /\ r.env = "test"
  BY <1>1, <1>2, <1>3 DEF TimerRow
<1> HIDE DEF r
<1>5. CASE run' = [run EXCEPT ![t] = r] /\ unsure' = unsure
  BY <1>1, <1>2, <1>4, <1>5, TimerMoves
<1>6. CASE GivenUp(t)
  BY <1>1, <1>2, <1>6, GivenUpKeeps
<1>7. QED
  BY <1>1, <1>5, <1>6

\* Production is sure again only when the newest token was stored by a refresh
\* that was alone.
LEMMA StoreTokenKeeps ==
  ASSUME TokensInvariant, NEW t \in Timer, StoreToken(t)
  PROVE  TokensInvariant'
<1>1. /\ run[t].op = "STORE"
      /\ stored' = [stored EXCEPT ![run[t].env] = run[t].got]
      /\ run' = [run EXCEPT ![t] = Done] /\ issued' = issued
      /\ unsure' = (unsure /\ ~(/\ Refreshing(t)
                                /\ ~\E other \in Timer \ {t} : Refreshing(other)
                                /\ run[t].got = issued))
  BY DEF StoreToken
<1>2. /\ run[t].env \in {"prod", "test"} /\ run[t].got \in Nat
      /\ run[t] # Done
  BY <1>1, RunType
<1>3. /\ issued \in Nat /\ unsure \in BOOLEAN
      /\ stored \in [{"prod", "test"} -> Nat] /\ run \in [Timer -> TimerRow]
  BY DEF TokensInvariant
<1>4. Done \in TimerRow
  BY DEF TimerRow
<1>5. /\ run'[t] = Done /\ \A s \in Timer : s # t => run'[s] = run[s]
      /\ run' \in [Timer -> TimerRow] /\ stored' \in [{"prod", "test"} -> Nat]
      /\ stored'.prod = IF run[t].env = "prod" THEN run[t].got ELSE stored.prod
      /\ unsure' \in BOOLEAN
  BY <1>1, <1>2, <1>3, <1>4
<1>6. /\ ~Refreshing(t)'
      /\ \A s \in Timer : s # t => (Refreshing(s)' <=> Refreshing(s))
      /\ Refreshing(t) <=> run[t].env = "prod"
  BY <1>2, <1>5 DEF Refreshing, Done
<1>7. ~unsure' => ~unsure \/ \A s \in Timer : ~Refreshing(s)'
  BY <1>1, <1>6
<1>8. ~unsure' => \A s, k \in Timer : Refreshing(s)' /\ Refreshing(k)' => s = k
  BY <1>6, <1>7 DEF TokensInvariant
<1>9. ASSUME ~unsure', NEW s \in Timer, Refreshing(s)', run'[s].op = "STORE"
      PROVE  run'[s].got = issued'
  <2>1. s # t /\ Refreshing(s) /\ run[s] = run'[s] /\ ~unsure
    BY <1>5, <1>6, <1>7, <1>9
  <2>2. QED
    BY <1>1, <1>9, <2>1 DEF TokensInvariant
<1>10. ASSUME ~unsure', \A s \in Timer : ~Refreshing(s)'
       PROVE  stored'.prod = issued'
  <2>1. CASE Refreshing(t)
    <3>1. run[t].got = issued
      BY <1>1, <1>10, <2>1 DEF TokensInvariant
    <3>2. QED
      BY <1>1, <1>5, <1>6, <2>1, <3>1
  <2>2. CASE ~Refreshing(t)
    <3>1. ~unsure /\ \A s \in Timer : ~Refreshing(s)
      BY <1>1, <1>6, <1>10, <2>2
    <3>2. stored.prod = issued
      BY <3>1 DEF TokensInvariant, NewestTokenIsKept
    <3>3. QED
      BY <1>1, <1>5, <1>6, <2>2, <3>2
  <2>3. QED
    BY <2>1, <2>2
<1>11. NewestTokenIsKept'
  BY <1>10 DEF NewestTokenIsKept
<1>12. QED
  BY <1>1, <1>3, <1>5, <1>8, <1>9, <1>11 DEF TokensInvariant

LEMMA NextTokens == TokensInvariant /\ [TokensNext]_tokenVars => TokensInvariant'
<1> SUFFICES ASSUME TokensInvariant, [TokensNext]_tokenVars PROVE TokensInvariant'
  OBVIOUS
<1>1. CASE UNCHANGED tokenVars
  BY <1>1 DEF tokenVars, TokensInvariant, NewestTokenIsKept, Refreshing, Done
<1>2. CASE TokensNext
  BY <1>2, TimerFiresKeeps, WeChatIssuesKeeps, WeChatFailsKeeps, ObtainTokenKeeps,
     StoreTokenKeeps DEF TokensNext
<1>3. QED
  BY <1>1, <1>2

\* However many invocations of the timer run into each other: when none is
\* under way and the last that was alone succeeded, pushes use the newest token.
THEOREM NewestTokenCorrect == TokensInit /\ [][TokensNext]_tokenVars => []NewestTokenIsKept
<1>1. TokensInvariant => NewestTokenIsKept
  BY DEF TokensInvariant
<1>2. QED
  BY <1>1, InitTokens, NextTokens, PTL

-----------------------------------------------------------------------------
(* Replies of the subscription account *)

ReplyRow == [type : Types, rule : Rules, word : Word \cup {NoWord}, status : {"USING", "DELETE"}]
Saving == [op : {"SAVE"}, id : DOMAIN reply, seen : ReplyRow, row : ReplyRow]

\* An edit that does not delete a row leaves it deleted or not, as it was read; a
\* row that was deleted stays so unless such an edit undid it.
RepliesInvariant ==
  /\ reply \in Seq(ReplyRow)
  /\ desk \in [Desk -> {Done} \cup Saving]
  /\ \A d \in Desk : desk[d] # Done =>
       desk[d].row.status \in {desk[d].seen.status, "DELETE"}
  /\ removed \subseteq DOMAIN reply
  /\ \A i \in removed : reply[i].status = "DELETE" \/ i \in undone

LEMMA InitReplies == RepliesInit => RepliesInvariant
  BY DEF RepliesInit, RepliesInvariant

LEMMA CreateReplyKeeps ==
  ASSUME RepliesInvariant, NEW type \in Types, NEW rule \in Rules,
         NEW word \in Word \cup {NoWord}, CreateReply(type, rule, word)
  PROVE  RepliesInvariant'
<1> DEFINE r == [type |-> type, rule |-> rule, word |-> word, status |-> "USING"]
<1>1. /\ reply' = Append(reply, r)
      /\ desk' = desk /\ removed' = removed /\ undone' = undone
  BY DEF CreateReply
<1>2. r \in ReplyRow
  BY DEF ReplyRow
<1> HIDE DEF r
<1>3. reply \in Seq(ReplyRow) /\ removed \subseteq DOMAIN reply
  BY DEF RepliesInvariant
<1>4. /\ reply' \in Seq(ReplyRow) /\ DOMAIN reply \subseteq DOMAIN reply'
      /\ \A i \in DOMAIN reply : reply'[i] = reply[i]
  BY <1>1, <1>2, <1>3
<1>5. desk' \in [Desk -> {Done} \cup Saving']
  BY <1>1, <1>4 DEF RepliesInvariant, Saving
<1>6. QED
  BY <1>1, <1>3, <1>4, <1>5 DEF RepliesInvariant

\* What an edit may make of a row.
LEMMA EditsOfRow ==
  ASSUME NEW old \in ReplyRow, NEW row \in Edits(old)
  PROVE  row \in ReplyRow /\ row.status \in {old.status, "DELETE"}
<1>1. CASE row = [old EXCEPT !.status = "DELETE"]
  BY <1>1 DEF ReplyRow
<1>2. CASE row \in [type : {old.type}, rule : Rules, word : Keys(old.type), status : {old.status}]
  <2>1. Keys(old.type) \subseteq Word \cup {NoWord}
    BY DEF Keys
  <2>2. QED
    BY <1>2, <2>1 DEF ReplyRow
<1>3. QED
  BY <1>1, <1>2 DEF Edits

LEMMA EditReplyKeeps ==
  ASSUME RepliesInvariant, NEW d \in Desk, NEW i \in DOMAIN reply,
         NEW row \in Edits(reply[i]), EditReply(d, i, row)
  PROVE  RepliesInvariant'
<1> DEFINE q == [op |-> "SAVE", id |-> i, seen |-> reply[i], row |-> row]
<1>1. /\ desk' = [desk EXCEPT ![d] = q]
      /\ reply' = reply /\ removed' = removed /\ undone' = undone
  BY DEF EditReply
<1>2. reply[i] \in ReplyRow
  BY DEF RepliesInvariant
<1>3. /\ q \in Saving /\ q.row = row /\ q.seen = reply[i]
      /\ row.status \in {reply[i].status, "DELETE"}
  BY <1>2, EditsOfRow DEF Saving
<1> HIDE DEF q
<1>4. desk \in [Desk -> {Done} \cup Saving]
  BY DEF RepliesInvariant
<1>5. /\ desk' \in [Desk -> {Done} \cup Saving]
      /\ desk'[d] = q /\ \A k \in Desk : k # d => desk'[k] = desk[k]
  BY <1>1, <1>3, <1>4
<1>6. desk' \in [Desk -> {Done} \cup Saving']
  BY <1>1, <1>5 DEF Saving
<1>7. \A k \in Desk : desk'[k] # Done =>
        desk'[k].row.status \in {desk'[k].seen.status, "DELETE"}
  BY <1>3, <1>5 DEF RepliesInvariant
<1>8. QED
  BY <1>1, <1>6, <1>7 DEF RepliesInvariant

LEMMA SaveReplyKeeps ==
  ASSUME RepliesInvariant, NEW d \in Desk, SaveReply(d)
  PROVE  RepliesInvariant'
<1> DEFINE q == desk[d]
           deletes == q.row.status = "DELETE"
<1>1. /\ q.op = "SAVE"
      /\ reply' = [reply EXCEPT ![q.id] = q.row]
      /\ removed' = IF deletes THEN removed \cup {q.id} ELSE removed
      /\ undone' = IF ~deletes /\ reply[q.id] # q.seen THEN undone \cup {q.id} ELSE undone
      /\ desk' = [desk EXCEPT ![d] = Done]
  BY DEF SaveReply
<1>2. q \in Saving /\ (q.row.status = q.seen.status \/ deletes)
  BY <1>1 DEF RepliesInvariant, Done
<1>3. q.id \in DOMAIN reply /\ q.row \in ReplyRow
  BY <1>2 DEF Saving
<1> HIDE DEF q
<1>4. /\ reply \in Seq(ReplyRow) /\ removed \subseteq DOMAIN reply
      /\ desk \in [Desk -> {Done} \cup Saving]
      /\ \A i \in removed : reply[i].status = "DELETE" \/ i \in undone
  BY DEF RepliesInvariant
<1>5. /\ reply' \in Seq(ReplyRow) /\ DOMAIN reply' = DOMAIN reply
      /\ reply'[q.id] = q.row /\ \A i \in DOMAIN reply : i # q.id => reply'[i] = reply[i]
  BY <1>1, <1>3, <1>4
<1>6. desk' \in [Desk -> {Done} \cup Saving']
  BY <1>1, <1>4, <1>5 DEF Saving
<1>7. removed' \subseteq DOMAIN reply'
  BY <1>1, <1>3, <1>4, <1>5
<1>8. ASSUME NEW i \in removed'
      PROVE  reply'[i].status = "DELETE" \/ i \in undone'
  <2>1. CASE i # q.id
    BY <1>1, <1>4, <1>5, <1>8, <2>1
  <2>2. CASE i = q.id /\ deletes
    BY <1>5, <2>2
  <2>3. CASE i = q.id /\ ~deletes
    BY <1>1, <1>2, <1>4, <1>5, <1>8, <2>3
  <2>4. QED
    BY <2>1, <2>2, <2>3
<1>9. \A k \in Desk : desk'[k] # Done => desk'[k] = desk[k]
  BY <1>1, <1>4
<1>10. QED
  BY <1>5, <1>6, <1>7, <1>8, <1>9 DEF RepliesInvariant

LEMMA NextReplies == RepliesInvariant /\ [RepliesNext]_replyVars => RepliesInvariant'
<1> SUFFICES ASSUME RepliesInvariant, [RepliesNext]_replyVars PROVE RepliesInvariant'
  OBVIOUS
<1>1. CASE UNCHANGED replyVars
  BY <1>1 DEF replyVars, RepliesInvariant, Saving
<1>2. CASE RepliesNext
  BY <1>2, CreateReplyKeeps, EditReplyKeeps, SaveReplyKeeps DEF RepliesNext
<1>3. QED
  BY <1>1, <1>2

\* Of rows that exist, one is the newest.
LEMMA OneIsNewest ==
  ASSUME RepliesInvariant, NEW S, S \subseteq DOMAIN reply, S # {}
  PROVE  \E i \in S : NewestOf(S) = {i}
<1> DEFINE n == Len(reply)
           K == {k \in Nat : n - k \notin S}
<1>1. n \in Nat /\ S \subseteq 1..n
  BY DEF RepliesInvariant
<1> DEFINE B == Nat \ K
           R == OpToRel(<, Nat)
<1>2. B # {} /\ B \subseteq Nat
  <2>1. PICK s \in S : TRUE
    OBVIOUS
  <2>2. n - s \in Nat /\ n - (n - s) = s
    BY <1>1
  <2>3. QED
    BY <2>1, <2>2
<1>3. PICK m \in B : \A y \in B : ~(<<y, m>> \in R)
  <2>1. IsWellFoundedOn(R, Nat)
    BY NatLessThanWellFounded
  <2> HIDE DEF B, R
  <2>2. QED
    BY <1>2, <2>1, WFMin
<1>4. m \in Nat /\ n - m \in S
  OBVIOUS
<1>5. \A j \in S : j <= n - m
  <2> SUFFICES ASSUME NEW j \in S, n - m < j PROVE FALSE
    BY <1>1, <1>4
  <2>1. n - j \in Nat /\ n - (n - j) = j /\ n - j < m
    BY <1>1, <1>4
  <2>2. n - j \in B /\ <<n - j, m>> \in R
    BY <1>4, <2>1 DEF OpToRel
  <2>3. QED
    BY <1>3, <2>2
<1>6. NewestOf(S) = {n - m}
  <2>1. \A j \in NewestOf(S) : j \in S /\ j >= n - m
    BY <1>4 DEF NewestOf
  <2>2. n - m \in NewestOf(S)
    BY <1>1, <1>4, <1>5 DEF NewestOf
  <2>3. \A j \in NewestOf(S) : j = n - m
    BY <1>1, <1>4, <1>5, <2>1
  <2>4. QED
    BY <2>2, <2>3
<1>7. QED
  BY <1>4, <1>6

LEMMA RowsAreInUse ==
  ASSUME RepliesInvariant, NEW i \in DOMAIN reply
  PROVE  reply[i].status # "DELETE" <=> reply[i].status = "USING"
<1>1. reply[i] \in ReplyRow
  BY DEF RepliesInvariant
<1>2. QED
  BY <1>1 DEF ReplyRow

\* What is shown of a type without a rule is its newest row in use without one.
LEMMA ListedInUse ==
  ASSUME RepliesInvariant, NEW type
  PROVE  NewestOf(Ruled(type, "NOT_MATCH")) = Retrieved(type)
<1>1. \A i \in DOMAIN reply : reply[i].status # "DELETE" <=> reply[i].status = "USING"
  BY RowsAreInUse
<1>2. DOMAIN reply \subseteq Nat
  BY DEF RepliesInvariant
<1>3. Ruled(type, "NOT_MATCH") =
        {i \in DOMAIN reply : /\ reply[i].status # "DELETE"
                              /\ reply[i].rule = "NOT_MATCH" /\ reply[i].type = type}
  BY <1>1 DEF Ruled, InUse
<1>4. QED
  BY <1>2, <1>3 DEF NewestOf, Retrieved

\* A new follower gets the row shown for followers, or a newer one with a rule.
LEMMA AttentionIsListed ==
  ASSUME RepliesInvariant
  PROVE  \/ AttentionReply = Retrieved("BE_PAID_ATTENTION")
         \/ /\ AttentionReply # {}
            /\ \A i \in AttentionReply : i \in KeyWords /\ reply[i].type # "KEY_WORD"
<1> DEFINE S == InUse("BE_PAID_ATTENTION")
           free == Ruled("BE_PAID_ATTENTION", "NOT_MATCH")
<1>1. AttentionReply = NewestOf(S) /\ NewestOf(free) = Retrieved("BE_PAID_ATTENTION")
  BY ListedInUse DEF AttentionReply
<1>2. /\ S \subseteq DOMAIN reply /\ DOMAIN reply \subseteq Nat
      /\ \A i \in S : reply[i].status = "USING" /\ reply[i].type = "BE_PAID_ATTENTION"
      /\ free = {i \in S : reply[i].rule = "NOT_MATCH"}
  BY DEF InUse, Ruled, RepliesInvariant
<1> HIDE DEF S, free
<1>3. CASE S = {}
  BY <1>1, <1>2, <1>3 DEF NewestOf
<1>4. ASSUME S # {}
      PROVE  \/ NewestOf(S) = NewestOf(free)
             \/ \E i \in S : NewestOf(S) = {i} /\ reply[i].rule # "NOT_MATCH"
  <2>1. PICK i \in S : NewestOf(S) = {i}
    BY <1>2, <1>4, OneIsNewest
  <2>2. CASE reply[i].rule = "NOT_MATCH"
    <3>1. i \in free /\ \A j \in free : j <= i
      BY <1>2, <2>1, <2>2 DEF NewestOf
    <3>2. \A j \in NewestOf(free) : j \in free /\ j >= i
      BY <3>1 DEF NewestOf
    <3>3. i \in NewestOf(free)
      BY <1>2, <3>1 DEF NewestOf
    <3>4. \A j \in NewestOf(free) : j = i
      BY <1>2, <3>1, <3>2
    <3>5. QED
      BY <2>1, <3>3, <3>4
  <2>3. QED
    BY <2>1, <2>2
<1>5. \A i \in S : reply[i].rule # "NOT_MATCH" => i \in KeyWords /\ reply[i].type # "KEY_WORD"
  BY <1>2 DEF KeyWords
<1>6. QED
  BY <1>1, <1>3, <1>4, <1>5

\* A message gets a row by its words, and the one shown for messages without.
LEMMA MessageIsListed ==
  ASSUME RepliesInvariant, NEW word
  PROVE  LET answer == MessageReply(word)
             keys == {i \in KeyWords : reply[i].type = "KEY_WORD"}
             exact == {i \in keys : reply[i].rule = "COMPLETE" /\ reply[i].word = word}
             inside == {i \in keys : reply[i].rule = "PARTIAL" /\ reply[i].word \in Parts(word)}
             lost == \E i \in keys : reply[i].word = NoWord
         IN IF exact # {} THEN answer # {} /\ answer \subseteq exact
            ELSE IF inside # {} THEN answer \subseteq inside /\ (answer # {} \/ lost)
            ELSE answer = Retrieved("RECEIVED") \/ (answer = {} /\ lost)
<1> DEFINE answer == MessageReply(word)
           keys == {i \in KeyWords : reply[i].type = "KEY_WORD"}
           exact == {i \in keys : reply[i].rule = "COMPLETE" /\ reply[i].word = word}
           inside == {i \in keys : reply[i].rule = "PARTIAL" /\ reply[i].word \in Parts(word)}
           lost == \E i \in keys : reply[i].word = NoWord
           complete == {i \in Ruled("KEY_WORD", "COMPLETE") : reply[i].word = word}
           partial == {i \in Ruled("KEY_WORD", "PARTIAL") :
                         reply[i].word \in Parts(word) \cup {NoWord}}
<1>1. answer = IF complete # {} THEN NewestOf(complete)
               ELSE IF partial # {} THEN {i \in NewestOf(partial) : reply[i].word # NoWord}
               ELSE NewestOf(Ruled("RECEIVED", "NOT_MATCH"))
  BY DEF MessageReply
<1>2. \A i \in DOMAIN reply : reply[i].status # "DELETE" <=> reply[i].status = "USING"
  BY RowsAreInUse
<1>3. complete = exact /\ complete \subseteq DOMAIN reply
  BY <1>2 DEF Ruled, InUse, KeyWords
<1>4. partial \subseteq keys /\ partial \subseteq DOMAIN reply
  BY <1>2 DEF Ruled, InUse, KeyWords
<1>5. inside \subseteq partial /\ {i \in partial : reply[i].word # NoWord} \subseteq inside
  BY <1>2 DEF Ruled, InUse, KeyWords
<1>6. NewestOf(Ruled("RECEIVED", "NOT_MATCH")) = Retrieved("RECEIVED")
  BY ListedInUse
<1>7. ASSUME exact # {} PROVE answer # {} /\ answer \subseteq exact
  <2>1. answer = NewestOf(exact)
    BY ONLY <1>1, <1>3, <1>7
  <2> HIDE DEF answer, keys, exact, inside, lost, complete, partial
  <2>2. PICK i \in exact : NewestOf(exact) = {i}
    BY <1>3, <1>7, OneIsNewest
  <2>3. QED
    BY <2>1, <2>2
<1>8. ASSUME exact = {}, partial # {}
      PROVE  /\ answer \subseteq inside /\ (answer # {} \/ lost)
             /\ inside = {} => answer = {}
  <2>1. answer = {i \in NewestOf(partial) : reply[i].word # NoWord}
    BY ONLY <1>1, <1>3, <1>8
  <2>2. PICK i \in partial : NewestOf(partial) = {i}
    BY <1>4, <1>8, OneIsNewest
  <2>3. i \in keys
    BY <1>4
  <2>4. reply[i].word = NoWord => lost
    BY <2>3
  <2> HIDE DEF answer, keys, exact, inside, lost, complete, partial
  <2>5. answer \subseteq inside
    BY <1>5, <2>1, <2>2
  <2>6. answer # {} \/ lost
    BY <2>1, <2>2, <2>4
  <2>7. QED
    BY <2>5, <2>6
<1>9. ASSUME exact = {}, partial = {} PROVE answer = Retrieved("RECEIVED") /\ inside = {}
  <2>1. answer = NewestOf(Ruled("RECEIVED", "NOT_MATCH"))
    BY ONLY <1>1, <1>3, <1>9
  <2> HIDE DEF answer, keys, exact, inside, lost, complete, partial
  <2>2. QED
    BY <1>5, <1>6, <1>9, <2>1
<1> HIDE DEF answer, keys, exact, inside, lost, complete, partial
<1>10. IF exact # {} THEN answer # {} /\ answer \subseteq exact
       ELSE IF inside # {} THEN answer \subseteq inside /\ (answer # {} \/ lost)
       ELSE answer = Retrieved("RECEIVED") \/ (answer = {} /\ lost)
  BY <1>5, <1>7, <1>8, <1>9
<1>11. QED
  BY <1>10 DEF answer, keys, exact, inside, lost

\* An answer is one of the rows in use.
LEMMA AnswersInUse ==
  ASSUME NEW msg \in Msg, NEW i \in ReplyTo(msg)
  PROVE  i \in DOMAIN reply /\ reply[i].status = "USING"
<1>1. \A type, rule : InUse(type) \subseteq {j \in DOMAIN reply : reply[j].status = "USING"}
                      /\ Ruled(type, rule) \subseteq InUse(type)
  BY DEF InUse, Ruled
<1>2. CASE msg.type = "SUBSCRIBE"
  <2>1. i \in InUse("BE_PAID_ATTENTION")
    BY <1>2 DEF ReplyTo, AttentionReply, NewestOf
  <2>2. QED
    BY <1>1, <2>1
<1>3. CASE msg.type = "TEXT"
  <2>1. i \in MessageReply(msg.word)
    BY <1>3 DEF ReplyTo
  <2>2. \E type, rule : i \in Ruled(type, rule)
    BY <2>1 DEF MessageReply, NewestOf
  <2>3. QED
    BY <1>1, <2>2
<1>4. CASE msg.type \notin {"SUBSCRIBE", "TEXT"}
  BY <1>4 DEF ReplyTo
<1>5. QED
  BY <1>2, <1>3, <1>4

LEMMA ListedReplies == RepliesInvariant => RepliesAreListed
<1> SUFFICES ASSUME RepliesInvariant PROVE RepliesAreListed
  OBVIOUS
<1>1. ASSUME NEW msg \in Msg PROVE ReplyTo(msg) \cap removed \subseteq undone
  BY AnswersInUse DEF RepliesInvariant
<1>2. ASSUME NEW msg \in Msg, msg.type = "SUBSCRIBE"
      PROVE  LET keys == {i \in KeyWords : reply[i].type = "KEY_WORD"}
             IN \/ ReplyTo(msg) = Retrieved("BE_PAID_ATTENTION")
                \/ ReplyTo(msg) # {} /\ ReplyTo(msg) \subseteq KeyWords \ keys
  <2>1. ReplyTo(msg) = AttentionReply
    BY <1>2 DEF ReplyTo
  <2>2. QED
    BY <2>1, AttentionIsListed
<1>3. ASSUME NEW msg \in Msg, msg.type = "TEXT" PROVE ReplyTo(msg) = MessageReply(msg.word)
  BY <1>3 DEF ReplyTo
<1>4. QED
  BY <1>1, <1>2, <1>3, MessageIsListed DEF RepliesAreListed

\* Whatever is edited at the same time: people are answered what the
\* administrators see, by their words, and a deleted row only when an edit undid
\* the deletion; a message that is not itself a key may go without an answer
\* only while a listed row has lost its key.
THEOREM RepliesListedCorrect == RepliesInit /\ [][RepliesNext]_replyVars => []RepliesAreListed
  BY InitReplies, NextReplies, ListedReplies, PTL

-----------------------------------------------------------------------------
(* Numbers of marketers *)

PhoneRow == [status : {"NONE", "USING", "DISABLED"}, phone : Number \cup {NoNumber}]
Change(op) == [op : {op}, seen : PhoneRow, row : PhoneRow, free : BOOLEAN]
Proof(op) == [op : {op}, number : Number, code : 1..codes, seen : PhoneRow, free : BOOLEAN]
Storing == [op : {"STORE"}, number : Number]
Texting == [op : {"SEND"}, code : 1..codes, tries : {1, 2}]
Sendings == {Nothing} \cup Storing \cup Texting \cup Change("EDIT")
Askings == {Nothing} \cup Proof("VERIFY") \cup Proof("DELETE") \cup Change("SAVE")

PhonesTypeOK ==
  /\ codes \in 0..MaxCodes
  /\ code \in [Number -> 0..codes]
  /\ arrived \subseteq 1..codes
  /\ marketer \in [User -> PhoneRow]
  /\ sending \in [User -> Sendings]
  /\ ask \in [User -> Askings]
  /\ spent \in [1..MaxCodes -> Nat]

\* A request brings a number that was found free, the one it read, or one that
\* the platform typed.
Brings(q) == q.free \/ q.row.phone = q.seen.phone \/ q.op = "EDIT"
ChangesAreOwn ==
  \A u \in User :
    /\ ask[u].op \in {"VERIFY", "DELETE"} => ask[u].free
    /\ ask[u].op = "SAVE" => Brings(ask[u])
    /\ sending[u].op = "EDIT" => Brings(sending[u])

\* A code is stored for one number, and for none once a change is proven by it;
\* two requests are about to delete it only when they raced.
Deleting(u, c) == ask[u].op = "DELETE" /\ ask[u].code = c
CodesAreOwn ==
  /\ \A n, k \in Number : code[n] = code[k] => n = k \/ code[n] = NoCode
  /\ \A u \in User, n \in Number : Deleting(u, code[n]) => n = ask[u].number
  /\ \A c \in 1..MaxCodes :
      /\ spent[c] > 0 => c <= codes /\ \A n \in Number : code[n] # c
      /\ c \notin raced =>
           \A u, v \in User : Deleting(u, c) => spent[c] = 0 /\ (Deleting(v, c) => u = v)

PhonesInvariant == PhonesTypeOK /\ ChangesAreOwn /\ CodesAreOwn /\ NumbersAreProven

LEMMA AskType ==
  ASSUME PhonesInvariant, NEW u \in User
  PROVE  /\ ask[u].op = "VERIFY" => ask[u] \in Proof("VERIFY")
         /\ ask[u].op = "DELETE" => ask[u] \in Proof("DELETE")
         /\ ask[u].op = "SAVE" => ask[u] \in Change("SAVE")
<1>1. ask[u] \in Askings
  BY DEF PhonesInvariant, PhonesTypeOK
<1>2. Nothing.op = "NOTHING"
  BY DEF Nothing
<1>3. QED
  BY <1>1, <1>2 DEF Askings, Proof, Change

LEMMA SendingType ==
  ASSUME PhonesInvariant, NEW u \in User
  PROVE  /\ sending[u].op = "STORE" => sending[u] \in Storing
         /\ sending[u].op = "SEND" => sending[u] \in Texting
         /\ sending[u].op = "EDIT" => sending[u] \in Change("EDIT")
<1>1. sending[u] \in Sendings
  BY DEF PhonesInvariant, PhonesTypeOK
<1>2. Nothing.op = "NOTHING"
  BY DEF Nothing
<1>3. QED
  BY <1>1, <1>2 DEF Sendings, Storing, Texting, Change

\* The request of one user goes on.
LEMMA AskMoves ==
  ASSUME PhonesInvariant, NEW u \in User, NEW a \in Askings,
         ask' = [ask EXCEPT ![u] = a], codes' = codes,
         a.op \in {"VERIFY", "DELETE"} => a.free,
         a.op = "SAVE" => Brings(a)
  PROVE  /\ ask' \in [User -> Askings'] /\ ask'[u] = a
         /\ \A v \in User : v # u => ask'[v] = ask[v]
         /\ sending' = sending => sending' \in [User -> Sendings'] /\ ChangesAreOwn'
<1>1. ask \in [User -> Askings] /\ sending \in [User -> Sendings]
  BY DEF PhonesInvariant, PhonesTypeOK
<1>2. Askings' = Askings /\ Sendings' = Sendings
  BY DEF Askings, Sendings, Proof, Texting
<1>3. /\ ask' \in [User -> Askings'] /\ ask'[u] = a
      /\ \A v \in User : v # u => ask'[v] = ask[v]
  BY <1>1, <1>2
<1>4. ASSUME sending' = sending PROVE ChangesAreOwn'
  <2> SUFFICES ASSUME NEW v \in User
               PROVE  /\ ask'[v].op \in {"VERIFY", "DELETE"} => ask'[v].free
                      /\ ask'[v].op = "SAVE" => Brings(ask'[v])
                      /\ sending'[v].op = "EDIT" => Brings(sending'[v])
    BY DEF ChangesAreOwn, Brings
  <2>1. /\ ask[v].op \in {"VERIFY", "DELETE"} => ask[v].free
        /\ ask[v].op = "SAVE" => Brings(ask[v])
        /\ sending[v].op = "EDIT" => Brings(sending[v])
    BY DEF PhonesInvariant, ChangesAreOwn
  <2>2. CASE v = u
    BY <1>3, <1>4, <2>1, <2>2
  <2>3. CASE v # u
    BY <1>3, <1>4, <2>1, <2>3
  <2>4. QED
    BY <2>2, <2>3
<1>5. QED
  BY <1>1, <1>2, <1>3, <1>4

\* The request for a code of one user, or an edit of that user, goes on.
LEMMA SendingMoves ==
  ASSUME PhonesInvariant, NEW u \in User, NEW s \in Sendings,
         sending' = [sending EXCEPT ![u] = s], codes' = codes, ask' = ask,
         s.op = "EDIT" => Brings(s)
  PROVE  /\ sending' \in [User -> Sendings'] /\ ask' \in [User -> Askings']
         /\ ChangesAreOwn'
<1>1. ask \in [User -> Askings] /\ sending \in [User -> Sendings]
  BY DEF PhonesInvariant, PhonesTypeOK
<1>2. Askings' = Askings /\ Sendings' = Sendings
  BY DEF Askings, Sendings, Proof, Texting
<1>3. /\ sending' \in [User -> Sendings'] /\ sending'[u] = s
      /\ \A v \in User : v # u => sending'[v] = sending[v]
  BY <1>1, <1>2
<1>4. ChangesAreOwn'
  <2> SUFFICES ASSUME NEW v \in User
               PROVE  /\ ask'[v].op \in {"VERIFY", "DELETE"} => ask'[v].free
                      /\ ask'[v].op = "SAVE" => Brings(ask'[v])
                      /\ sending'[v].op = "EDIT" => Brings(sending'[v])
    BY DEF ChangesAreOwn, Brings
  <2>1. /\ ask[v].op \in {"VERIFY", "DELETE"} => ask[v].free
        /\ ask[v].op = "SAVE" => Brings(ask[v])
        /\ sending[v].op = "EDIT" => Brings(sending[v])
    BY DEF PhonesInvariant, ChangesAreOwn
  <2>2. CASE v = u
    BY <1>3, <2>1, <2>2
  <2>3. CASE v # u
    BY <1>3, <2>1, <2>3
  <2>4. QED
    BY <2>2, <2>3
<1>5. QED
  BY <1>1, <1>2, <1>3, <1>4

\* No request is new at its deletion, and no code is stored or spent.
LEMMA CodesStay ==
  ASSUME PhonesInvariant, codes' = codes, spent' = spent, raced' = raced,
         \A n \in Number : code'[n] \in {code[n], NoCode},
         \A v \in User : ask'[v].op = "DELETE" => ask'[v] = ask[v]
  PROVE  CodesAreOwn' /\ CodeSpentOnce'
<1>1. \A v \in User : \A c : Deleting(v, c)' => Deleting(v, c) /\ ask'[v] = ask[v]
  BY DEF Deleting
<1>2. \A v \in User : ask[v].op = "DELETE" => ask[v].code # NoCode
  BY AskType, CodesAssumption DEF Proof, NoCode, PhonesInvariant, PhonesTypeOK
<1>3. \A v \in User : ~Deleting(v, NoCode)
  BY <1>2 DEF Deleting
<1>4. \A n, k \in Number : code'[n] = code'[k] => n = k \/ code'[n] = NoCode
  BY DEF PhonesInvariant, CodesAreOwn
<1>5. ASSUME NEW v \in User, NEW n \in Number,
             ask'[v].op = "DELETE", ask'[v].code = code'[n]
      PROVE  n = ask'[v].number
  <2>1. Deleting(v, code'[n]) /\ ask'[v] = ask[v]
    BY <1>5 DEF Deleting
  <2>2. code'[n] = code[n]
    BY <1>3, <2>1
  <2>3. QED
    BY <2>1, <2>2 DEF PhonesInvariant, CodesAreOwn
<1>6. ASSUME NEW c \in 1..MaxCodes
      PROVE  /\ spent'[c] > 0 => c <= codes' /\ \A n \in Number : code'[n] # c
             /\ c \notin raced' =>
                  \A u, v \in User : Deleting(u, c)' => spent'[c] = 0 /\ (Deleting(v, c)' => u = v)
  <2>1. /\ spent[c] > 0 => c <= codes /\ \A n \in Number : code[n] # c
        /\ c \notin raced =>
             \A u, v \in User : Deleting(u, c) => spent[c] = 0 /\ (Deleting(v, c) => u = v)
    BY DEF PhonesInvariant, CodesAreOwn
  <2>2. c # NoCode
    BY CodesAssumption DEF NoCode
  <2>3. spent'[c] > 0 => c <= codes' /\ \A n \in Number : code'[n] # c
    BY <2>1, <2>2
  <2>4. QED
    BY <1>1, <2>1, <2>3
<1>7. CodesAreOwn'
  BY <1>4, <1>5, <1>6 DEF CodesAreOwn, Deleting
<1>8. CodeSpentOnce'
  BY DEF PhonesInvariant, NumbersAreProven, CodeSpentOnce
<1>9. QED
  BY <1>7, <1>8

LEMMA InitPhones == PhonesInit => PhonesInvariant
<1> SUFFICES ASSUME PhonesInit PROVE PhonesInvariant
  OBVIOUS
<1>1. Nothing.op = "NOTHING" /\ Nothing \in Sendings /\ Nothing \in Askings
  BY DEF Nothing, Sendings, Askings
<1>2. Unregistered \in PhoneRow /\ Unregistered.phone = NoNumber
  BY DEF Unregistered, PhoneRow
<1>3. /\ code = [n \in Number |-> 0] /\ codes = 0 /\ arrived = {}
      /\ marketer = [u \in User |-> Unregistered]
      /\ sending = [u \in User |-> Nothing] /\ ask = [u \in User |-> Nothing]
      /\ spent = [c \in 1..MaxCodes |-> 0]
  BY DEF PhonesInit, NoCode
<1>4. PhonesTypeOK
  BY <1>1, <1>2, <1>3, CodesAssumption DEF PhonesTypeOK
<1>5. ChangesAreOwn
  BY <1>1, <1>3 DEF ChangesAreOwn
<1>6. CodesAreOwn
  BY <1>1, <1>3 DEF CodesAreOwn, Deleting, NoCode
<1>7. NumbersAreProven
  BY <1>2, <1>3 DEF NumbersAreProven, NumbersAreDistinct, CodeSpentOnce, Has
<1>8. QED
  BY <1>4, <1>5, <1>6, <1>7 DEF PhonesInvariant

\* Steps that concern a code before it is used
LEMMA AskCodeKeeps ==
  ASSUME PhonesInvariant, NEW u \in User, NEW n \in Number, AskCode(u, n)
  PROVE  PhonesInvariant'
<1> DEFINE s == [op |-> "STORE", number |-> n]
<1>1. /\ sending' = [sending EXCEPT ![u] = s]
      /\ code' = code /\ codes' = codes /\ arrived' = arrived /\ marketer' = marketer
      /\ ask' = ask /\ spent' = spent /\ raced' = raced /\ stale' = stale /\ typed' = typed
  BY DEF AskCode
<1>2. s \in Sendings /\ s.op = "STORE"
  BY DEF Sendings, Storing
<1> HIDE DEF s
<1>3. /\ sending' \in [User -> Sendings'] /\ ask' \in [User -> Askings'] /\ ChangesAreOwn'
  BY <1>1, <1>2, SendingMoves
<1>4. CodesAreOwn' /\ CodeSpentOnce'
  BY <1>1, CodesStay
<1>5. PhonesTypeOK'
  BY <1>1, <1>3 DEF PhonesInvariant, PhonesTypeOK
<1>6. NumbersAreDistinct'
  BY <1>1 DEF PhonesInvariant, NumbersAreProven, NumbersAreDistinct, Has
<1>7. QED
  BY <1>3, <1>4, <1>5, <1>6 DEF PhonesInvariant, NumbersAreProven

\* A new code
LEMMA StoreCodeKeeps ==
  ASSUME PhonesInvariant, NEW u \in User, StoreCode(u)
  PROVE  PhonesInvariant'
<1> DEFINE c == codes + 1
           s == [op |-> "SEND", code |-> c, tries |-> 2]
           m == sending[u].number
<1>1. /\ sending[u].op = "STORE" /\ codes < MaxCodes /\ codes' = c
      /\ code' = [code EXCEPT ![m] = c]
      /\ sending' = [sending EXCEPT ![u] = s]
      /\ arrived' = arrived /\ marketer' = marketer
      /\ ask' = ask /\ spent' = spent /\ raced' = raced /\ stale' = stale /\ typed' = typed
  BY DEF StoreCode
<1>2. m \in Number
  BY <1>1, SendingType DEF Storing
<1>3. /\ codes \in 0..MaxCodes /\ code \in [Number -> 0..codes] /\ arrived \subseteq 1..codes
      /\ marketer \in [User -> PhoneRow] /\ sending \in [User -> Sendings]
      /\ ask \in [User -> Askings] /\ spent \in [1..MaxCodes -> Nat]
  BY DEF PhonesInvariant, PhonesTypeOK
<1>4. c \in 1..MaxCodes /\ codes < c /\ 1..codes \subseteq 1..c /\ 0..codes \subseteq 0..c
  BY <1>1, <1>3, CodesAssumption
<1>5. s \in Texting' /\ s.op = "SEND"
  BY <1>1, <1>4 DEF Texting
<1>6. Askings \subseteq Askings' /\ Sendings \subseteq Sendings'
  <2>1. Proof("VERIFY") \subseteq Proof("VERIFY")' /\ Proof("DELETE") \subseteq Proof("DELETE")'
    BY <1>1, <1>4 DEF Proof
  <2>2. Texting \subseteq Texting'
    BY <1>1, <1>4 DEF Texting
  <2>3. QED
    BY <2>1, <2>2 DEF Askings, Sendings
<1> HIDE DEF c, s, m
<1>7. /\ code' \in [Number -> 0..codes'] /\ code'[m] = c
      /\ \A n \in Number : n # m => code'[n] = code[n]
  BY <1>1, <1>2, <1>3, <1>4
<1>8. /\ sending' \in [User -> Sendings']
      /\ \A v \in User : v # u => sending'[v] = sending[v]
      /\ sending'[u] = s
  BY <1>1, <1>3, <1>5, <1>6 DEF Sendings
<1>9. PhonesTypeOK'
  <2>1. codes' \in 0..MaxCodes /\ arrived' \subseteq 1..codes'
    BY <1>1, <1>3, <1>4, CodesAssumption
  <2>2. ask' \in [User -> Askings']
    BY <1>1, <1>3, <1>6
  <2>3. QED
    BY <1>1, <1>3, <1>7, <1>8, <2>1, <2>2 DEF PhonesTypeOK
<1>10. ChangesAreOwn'
  BY <1>1, <1>5, <1>8 DEF PhonesInvariant, ChangesAreOwn, Brings
<1>11. \A n \in Number : code[n] # c /\ code[n] \in 0..codes
  BY <1>3, <1>4
<1>12. \A v \in User : ~Deleting(v, c)
  <2>1. \A v \in User : ask[v].op = "DELETE" => ask[v].code \in 1..codes
    BY AskType DEF Proof
  <2>2. QED
    BY <1>3, <1>4, <2>1 DEF Deleting
<1>13. CodesAreOwn'
  <2>1. \A n, k \in Number : code'[n] = code'[k] => n = k \/ code'[n] = NoCode
    BY <1>7, <1>11 DEF PhonesInvariant, CodesAreOwn
  <2>2. ASSUME NEW v \in User, NEW n \in Number, Deleting(v, code'[n])
        PROVE  n = ask[v].number
    <3>1. n # m
      BY <1>7, <1>12, <2>2
    <3>2. QED
      BY <1>7, <2>2, <3>1 DEF PhonesInvariant, CodesAreOwn
  <2>3. ASSUME NEW d \in 1..MaxCodes
        PROVE  /\ spent[d] > 0 => d <= codes' /\ \A n \in Number : code'[n] # d
               /\ d \notin raced =>
                    \A w, v \in User : Deleting(w, d) => spent[d] = 0 /\ (Deleting(v, d) => w = v)
    <3>1. /\ spent[d] > 0 => d <= codes /\ \A n \in Number : code[n] # d
          /\ d \notin raced =>
               \A w, v \in User : Deleting(w, d) => spent[d] = 0 /\ (Deleting(v, d) => w = v)
      BY DEF PhonesInvariant, CodesAreOwn
    <3>2. ASSUME spent[d] > 0 PROVE d <= codes' /\ \A n \in Number : code'[n] # d
      <4>1. d <= codes /\ d # c
        BY <1>3, <1>4, <3>1, <3>2
      <4>2. d <= codes'
        BY <1>1, <1>3, <1>4, <4>1
      <4>3. QED
        BY <1>7, <3>1, <3>2, <4>1, <4>2
    <3>3. QED
      BY <3>1, <3>2
  <2>4. QED
    BY <1>1, <2>1, <2>2, <2>3 DEF CodesAreOwn, Deleting
<1>14. NumbersAreProven'
  BY <1>1 DEF PhonesInvariant, NumbersAreProven, NumbersAreDistinct, CodeSpentOnce, Has
<1>15. QED
  BY <1>9, <1>10, <1>13, <1>14 DEF PhonesInvariant

LEMMA SendMessageKeeps ==
  ASSUME PhonesInvariant, NEW u \in User, NEW delivers \in BOOLEAN,
         NEW answer \in {"OK", "REFUSED", "NONE"}, SendMessage(u, delivers, answer)
  PROVE  PhonesInvariant'
<1> DEFINE q == sending[u]
<1>1. /\ q.op = "SEND"
      /\ arrived' = IF delivers THEN arrived \cup {q.code} ELSE arrived
      /\ code' = code /\ codes' = codes /\ marketer' = marketer
      /\ ask' = ask /\ spent' = spent /\ raced' = raced /\ stale' = stale /\ typed' = typed
  BY DEF SendMessage
<1>2. q \in Texting
  BY <1>1, SendingType
<1>3. PICK s \in Sendings : sending' = [sending EXCEPT ![u] = s] /\ s.op # "EDIT"
  <2>1. [q EXCEPT !.tries = 1] \in Texting
    BY <1>2 DEF Texting
  <2>2. [q EXCEPT !.tries = 1] \in Sendings /\ [q EXCEPT !.tries = 1].op # "EDIT"
    BY <2>1 DEF Sendings, Texting
  <2>3. Nothing \in Sendings /\ Nothing.op # "EDIT"
    BY DEF Nothing, Sendings
  <2>4. \/ sending' = [sending EXCEPT ![u] = [q EXCEPT !.tries = 1]]
        \/ sending' = [sending EXCEPT ![u] = Nothing]
    BY DEF SendMessage
  <2>5. QED
    BY <2>2, <2>3, <2>4
<1>4. q.code \in 1..codes
  BY <1>2 DEF Texting
<1> HIDE DEF q
<1>5. /\ sending' \in [User -> Sendings'] /\ ask' \in [User -> Askings'] /\ ChangesAreOwn'
  BY <1>1, <1>3, SendingMoves
<1>6. CodesAreOwn' /\ CodeSpentOnce'
  BY <1>1, CodesStay
<1>7. arrived' \subseteq 1..codes
  BY <1>1, <1>4 DEF PhonesInvariant, PhonesTypeOK
<1>8. PhonesTypeOK'
  BY <1>1, <1>5, <1>7 DEF PhonesInvariant, PhonesTypeOK
<1>9. NumbersAreDistinct'
  BY <1>1 DEF PhonesInvariant, NumbersAreProven, NumbersAreDistinct, Has
<1>10. QED
  BY <1>5, <1>6, <1>8, <1>9 DEF PhonesInvariant, NumbersAreProven

LEMMA CodeExpiresKeeps ==
  ASSUME PhonesInvariant, NEW n \in Number, CodeExpires(n)
  PROVE  PhonesInvariant'
<1>1. /\ code' = [code EXCEPT ![n] = NoCode]
      /\ codes' = codes /\ arrived' = arrived /\ marketer' = marketer
      /\ sending' = sending /\ ask' = ask /\ spent' = spent /\ raced' = raced /\ stale' = stale /\ typed' = typed
  BY DEF CodeExpires
<1>2. codes \in 0..MaxCodes /\ code \in [Number -> 0..codes]
  BY DEF PhonesInvariant, PhonesTypeOK
<1>3. code' \in [Number -> 0..codes] /\ \A k \in Number : code'[k] \in {code[k], NoCode}
  BY <1>1, <1>2, CodesAssumption DEF NoCode
<1>4. CodesAreOwn' /\ CodeSpentOnce'
  BY <1>1, <1>3, CodesStay
<1>5. Askings' = Askings /\ Sendings' = Sendings
  BY <1>1 DEF Askings, Sendings, Proof, Texting
<1>6. PhonesTypeOK'
  BY <1>1, <1>3, <1>5 DEF PhonesInvariant, PhonesTypeOK
<1>7. ChangesAreOwn' /\ NumbersAreDistinct'
  BY <1>1 DEF PhonesInvariant, ChangesAreOwn, Brings, NumbersAreProven, NumbersAreDistinct, Has
<1>8. QED
  BY <1>4, <1>6, <1>7 DEF PhonesInvariant, NumbersAreProven

\* A number that is asked for is free when it is read.
LEMMA AskNumberKeeps ==
  ASSUME PhonesInvariant, NEW u \in User, NEW n \in Number, NEW c \in 1..MaxCodes,
         NEW seen \in {Unregistered, marketer[u]}, AskNumber(u, n, c, seen)
  PROVE  PhonesInvariant'
<1> DEFINE free == \A v \in User : ~Has(v, n)
           a == [op |-> "VERIFY", number |-> n, code |-> c, seen |-> seen, free |-> free]
<1>1. /\ ask' = [ask EXCEPT ![u] = a] /\ IsUnused(n) /\ c \in arrived
      /\ code' = code /\ codes' = codes /\ arrived' = arrived /\ marketer' = marketer
      /\ sending' = sending /\ spent' = spent /\ raced' = raced /\ stale' = stale /\ typed' = typed
  BY DEF AskNumber
<1>2. free = TRUE
  BY <1>1 DEF IsUnused
<1>3. seen \in PhoneRow /\ c \in 1..codes
  BY <1>1 DEF PhonesInvariant, PhonesTypeOK, PhoneRow, Unregistered
<1> HIDE DEF free
<1>4. a \in Askings /\ a.op = "VERIFY" /\ a.free
  BY <1>2, <1>3 DEF Askings, Proof
<1> HIDE DEF a
<1>5. /\ ask' \in [User -> Askings'] /\ ask'[u] = a
      /\ \A v \in User : v # u => ask'[v] = ask[v]
      /\ sending' \in [User -> Sendings'] /\ ChangesAreOwn'
  BY <1>1, <1>4, AskMoves
<1>6. \A v \in User : ask'[v].op = "DELETE" => ask'[v] = ask[v]
  BY <1>4, <1>5
<1>7. CodesAreOwn' /\ CodeSpentOnce'
  BY <1>1, <1>6, CodesStay
<1>8. PhonesTypeOK'
  BY <1>1, <1>5 DEF PhonesInvariant, PhonesTypeOK
<1>9. NumbersAreDistinct'
  BY <1>1 DEF PhonesInvariant, NumbersAreProven, NumbersAreDistinct, Has
<1>10. QED
  BY <1>5, <1>7, <1>8, <1>9 DEF PhonesInvariant, NumbersAreProven

LEMMA AskUsedNumberKeeps ==
  ASSUME PhonesInvariant, NEW u \in User, NEW n \in Number, AskUsedNumber(u, n)
  PROVE  PhonesInvariant'
<1> DEFINE a == SaveUnchanged(marketer[u])
<1>1. /\ ask' = [ask EXCEPT ![u] = a]
      /\ code' = code /\ codes' = codes /\ arrived' = arrived /\ marketer' = marketer
      /\ sending' = sending /\ spent' = spent /\ raced' = raced /\ stale' = stale /\ typed' = typed
  BY DEF AskUsedNumber
<1>2. marketer[u] \in PhoneRow
  BY DEF PhonesInvariant, PhonesTypeOK
<1>3. a \in Askings /\ a.op = "SAVE" /\ Brings(a)
  BY <1>2 DEF Askings, Change, SaveUnchanged, Brings
<1> HIDE DEF a
<1>4. /\ ask' \in [User -> Askings'] /\ ask'[u] = a
      /\ \A v \in User : v # u => ask'[v] = ask[v]
      /\ sending' \in [User -> Sendings'] /\ ChangesAreOwn'
  BY <1>1, <1>3, AskMoves
<1>5. \A v \in User : ask'[v].op = "DELETE" => ask'[v] = ask[v]
  BY <1>3, <1>4
<1>6. CodesAreOwn' /\ CodeSpentOnce'
  BY <1>1, <1>5, CodesStay
<1>7. PhonesTypeOK'
  BY <1>1, <1>4 DEF PhonesInvariant, PhonesTypeOK
<1>8. NumbersAreDistinct'
  BY <1>1 DEF PhonesInvariant, NumbersAreProven, NumbersAreDistinct, Has
<1>9. QED
  BY <1>4, <1>6, <1>7, <1>8 DEF PhonesInvariant, NumbersAreProven

\* A right code is about to be deleted: by one request, unless they raced.
LEMMA VerifyCodeKeeps ==
  ASSUME PhonesInvariant, NEW u \in User, VerifyCode(u)
  PROVE  PhonesInvariant'
<1> DEFINE q == ask[u]
           right == code[q.number] = q.code
           rest == IF q.seen = Unregistered THEN Nothing ELSE SaveUnchanged(q.seen)
<1>1. /\ q.op = "VERIFY"
      /\ ask' = [ask EXCEPT ![u] = IF right THEN [q EXCEPT !.op = "DELETE"] ELSE rest]
      /\ raced' = IF right /\ \E v \in User \ {u} : Deleting(v, q.code)
                  THEN raced \cup {q.code} ELSE raced
      /\ code' = code /\ codes' = codes /\ arrived' = arrived /\ marketer' = marketer
      /\ sending' = sending /\ spent' = spent /\ stale' = stale /\ typed' = typed
  BY DEF VerifyCode, Deleting
<1>2. q \in Proof("VERIFY") /\ q.free
  BY <1>1, AskType DEF PhonesInvariant, ChangesAreOwn
<1>3. q.code \in 1..codes /\ q.number \in Number /\ q.seen \in PhoneRow
  BY <1>2 DEF Proof
<1>4. NumbersAreDistinct'
  BY <1>1 DEF PhonesInvariant, NumbersAreProven, NumbersAreDistinct, Has
<1>5. CASE ~right
  <2>1. /\ rest \in Askings /\ rest.op \notin {"VERIFY", "DELETE"}
        /\ rest.op = "SAVE" => Brings(rest)
    BY <1>3 DEF Askings, Change, SaveUnchanged, Brings, Nothing
  <2>2. ask' = [ask EXCEPT ![u] = rest] /\ raced' = raced
    BY <1>1, <1>5
  <2> HIDE DEF rest
  <2>3. /\ ask' \in [User -> Askings'] /\ ask'[u] = rest
        /\ \A v \in User : v # u => ask'[v] = ask[v]
        /\ sending' \in [User -> Sendings'] /\ ChangesAreOwn'
    BY <1>1, <2>1, <2>2, AskMoves
  <2>4. \A v \in User : ask'[v].op = "DELETE" => ask'[v] = ask[v]
    BY <2>1, <2>3
  <2>5. CodesAreOwn' /\ CodeSpentOnce'
    BY <1>1, <2>2, <2>4, CodesStay
  <2>6. PhonesTypeOK'
    BY <1>1, <2>3 DEF PhonesInvariant, PhonesTypeOK
  <2>7. QED
    BY <1>4, <2>3, <2>5, <2>6 DEF PhonesInvariant, NumbersAreProven
<1>6. CASE right
  <2> DEFINE a == [q EXCEPT !.op = "DELETE"]
  <2>1. /\ a \in Proof("DELETE") /\ a.op = "DELETE" /\ a.free
        /\ a.code = q.code /\ a.number = q.number
    BY <1>2 DEF Proof
  <2>2. a \in Askings
    BY <2>1 DEF Askings
  <2>3. ask' = [ask EXCEPT ![u] = a]
    BY <1>1, <1>6
  <2> HIDE DEF a
  <2>4. /\ ask' \in [User -> Askings'] /\ ask'[u] = a
        /\ \A v \in User : v # u => ask'[v] = ask[v]
        /\ sending' \in [User -> Sendings'] /\ ChangesAreOwn'
    BY <1>1, <2>1, <2>2, <2>3, AskMoves
  <2>5. /\ \A v \in User \ {u} : \A c : Deleting(v, c)' <=> Deleting(v, c)
        /\ \A c : Deleting(u, c)' <=> c = q.code
    BY <2>1, <2>4 DEF Deleting
  <2>6. q.code \in 1..MaxCodes /\ q.code # NoCode
    BY <1>3, CodesAssumption DEF PhonesInvariant, PhonesTypeOK, NoCode
  <2>7. spent[q.code] = 0
    <3>1. ~(spent[q.code] > 0)
      BY <1>3, <1>6, <2>6 DEF PhonesInvariant, CodesAreOwn
    <3>2. spent[q.code] \in Nat
      BY <2>6 DEF PhonesInvariant, PhonesTypeOK
    <3>3. QED
      BY <3>1, <3>2
  <2>8. ASSUME NEW v \in User, NEW n \in Number,
               ask'[v].op = "DELETE", ask'[v].code = code'[n]
        PROVE  n = ask'[v].number
    <3>1. CASE v = u
      <4>1. code[n] = code[q.number] /\ code[n] # NoCode
        BY <1>1, <1>6, <2>1, <2>4, <2>6, <2>8, <3>1
      <4>2. n = q.number
        BY <1>3, <4>1 DEF PhonesInvariant, CodesAreOwn
      <4>3. QED
        BY <2>1, <2>4, <3>1, <4>2
    <3>2. CASE v # u
      <4>1. ask'[v] = ask[v] /\ Deleting(v, code[n])
        BY <1>1, <2>4, <2>8, <3>2 DEF Deleting
      <4>2. QED
        BY <4>1 DEF PhonesInvariant, CodesAreOwn
    <3>3. QED
      BY <3>1, <3>2
  <2>9. ASSUME NEW c \in 1..MaxCodes, c \notin raced', NEW v \in User, Deleting(v, c)'
        PROVE  spent[c] = 0 /\ \A w \in User : Deleting(w, c)' => v = w
    <3>1. c \notin raced
      BY <1>1, <2>9
    <3>2. CASE c = q.code
      <4>1. \A w \in User \ {u} : ~Deleting(w, c)
        BY <1>1, <1>6, <2>9, <3>2
      <4>2. \A w \in User : Deleting(w, c)' => w = u
        BY <2>5, <4>1
      <4>3. QED
        BY <2>7, <2>9, <3>2, <4>2
    <3>3. CASE c # q.code
      <4>1. \A w \in User : Deleting(w, c)' => Deleting(w, c)
        BY <2>5, <3>3
      <4>2. QED
        BY <2>9, <3>1, <4>1 DEF PhonesInvariant, CodesAreOwn
    <3>4. QED
      BY <3>2, <3>3
  <2>10. CodesAreOwn'
    <3>1. \A n, k \in Number : code[n] = code[k] => n = k \/ code[n] = NoCode
      BY DEF PhonesInvariant, CodesAreOwn
    <3>2. \A c \in 1..MaxCodes : spent[c] > 0 => c <= codes /\ \A n \in Number : code[n] # c
      BY DEF PhonesInvariant, CodesAreOwn
    <3>3. \A v \in User, n \in Number :
            ask'[v].op = "DELETE" /\ ask'[v].code = code'[n] => n = ask'[v].number
      BY <2>8
    <3>4. QED
      BY <1>1, <2>9, <3>1, <3>2, <3>3 DEF CodesAreOwn, Deleting
  <2>11. CodeSpentOnce'
    BY <1>1 DEF PhonesInvariant, NumbersAreProven, CodeSpentOnce
  <2>12. PhonesTypeOK'
    BY <1>1, <2>4 DEF PhonesInvariant, PhonesTypeOK
  <2>13. QED
    BY <1>4, <2>4, <2>10, <2>11, <2>12 DEF PhonesInvariant, NumbersAreProven
<1>7. QED
  BY <1>5, <1>6

\* The code is spent: nobody else is about to, and no number has it any more.
LEMMA DeleteCodeKeeps ==
  ASSUME PhonesInvariant, NEW u \in User, DeleteCode(u)
  PROVE  PhonesInvariant'
<1> DEFINE q == ask[u]
           row == [status |-> IF q.seen = Unregistered THEN "USING" ELSE q.seen.status,
                   phone |-> q.number]
           a == [op |-> "SAVE", seen |-> q.seen, free |-> q.free, row |-> row]
<1>1. /\ q.op = "DELETE"
      /\ code' = [code EXCEPT ![q.number] = NoCode]
      /\ spent' = [spent EXCEPT ![q.code] = spent[q.code] + 1]
      /\ ask' = [ask EXCEPT ![u] = a]
      /\ codes' = codes /\ arrived' = arrived /\ marketer' = marketer
      /\ sending' = sending /\ raced' = raced /\ stale' = stale /\ typed' = typed
  BY DEF DeleteCode, CodeDeleted
<1>2. q \in Proof("DELETE") /\ q.free
  BY <1>1, AskType DEF PhonesInvariant, ChangesAreOwn
<1>3. /\ q.code \in 1..codes /\ q.number \in Number /\ q.seen \in PhoneRow
      /\ q.free \in BOOLEAN
  BY <1>2 DEF Proof
<1>4. row \in PhoneRow
  BY <1>3 DEF PhoneRow
<1>5. Deleting(u, q.code)
  BY <1>1 DEF Deleting
<1> HIDE DEF q, row
<1>6. a \in Askings /\ a.op = "SAVE" /\ Brings(a)
  BY <1>2, <1>3, <1>4 DEF Askings, Change, Brings
<1> HIDE DEF a
<1>7. /\ ask' \in [User -> Askings'] /\ ask'[u] = a
      /\ \A v \in User : v # u => ask'[v] = ask[v]
      /\ sending' \in [User -> Sendings'] /\ ChangesAreOwn'
  BY <1>1, <1>6, AskMoves
<1>8. \A v \in User : \A c : Deleting(v, c)' <=> v # u /\ Deleting(v, c)
  BY <1>6, <1>7 DEF Deleting
<1>9. /\ codes \in 0..MaxCodes /\ code \in [Number -> 0..codes]
      /\ spent \in [1..MaxCodes -> Nat]
  BY DEF PhonesInvariant, PhonesTypeOK
<1>10. q.code \in 1..MaxCodes /\ q.code <= codes /\ q.code # NoCode
  BY <1>3, <1>9, CodesAssumption DEF NoCode
<1>11. /\ code' \in [Number -> 0..codes] /\ code'[q.number] = NoCode
       /\ \A n \in Number : n # q.number => code'[n] = code[n]
  BY <1>1, <1>3, <1>9, CodesAssumption DEF NoCode
<1>12. /\ spent' \in [1..MaxCodes -> Nat] /\ spent'[q.code] = spent[q.code] + 1
       /\ \A c \in 1..MaxCodes : c # q.code => spent'[c] = spent[c]
  BY <1>1, <1>9, <1>10
<1>13. \A n \in Number : code'[n] # q.code
  <2>1. ASSUME NEW n \in Number, n # q.number PROVE code[n] # q.code
    BY <1>5, <2>1 DEF PhonesInvariant, CodesAreOwn, q
  <2>2. QED
    BY <1>10, <1>11, <2>1
<1>14. \A v \in User : ~Deleting(v, NoCode)
  <2>1. \A v \in User : ask[v].op = "DELETE" => ask[v].code \in 1..codes
    BY AskType DEF Proof
  <2>2. QED
    BY <1>9, <2>1 DEF Deleting, NoCode
<1>15. ASSUME NEW v \in User, NEW n \in Number,
              ask'[v].op = "DELETE", ask'[v].code = code'[n]
       PROVE  n = ask'[v].number
  <2>1. v # u /\ ask'[v] = ask[v] /\ Deleting(v, code'[n])
    BY <1>6, <1>7, <1>15 DEF Deleting
  <2>2. code'[n] = code[n]
    BY <1>11, <1>14, <2>1
  <2>3. QED
    BY <2>1, <2>2 DEF PhonesInvariant, CodesAreOwn
<1>16. ASSUME NEW c \in 1..MaxCodes
       PROVE  /\ spent'[c] > 0 => c <= codes /\ \A n \in Number : code'[n] # c
              /\ c \notin raced =>
                   \A w, v \in User : Deleting(w, c)' => spent'[c] = 0 /\ (Deleting(v, c)' => w = v)
  <2>1. /\ spent[c] > 0 => c <= codes /\ \A n \in Number : code[n] # c
        /\ c \notin raced =>
             \A w, v \in User : Deleting(w, c) => spent[c] = 0 /\ (Deleting(v, c) => w = v)
    BY DEF PhonesInvariant, CodesAreOwn
  <2>2. CASE c = q.code
    BY <1>5, <1>8, <1>10, <1>13, <2>1, <2>2
  <2>3. CASE c # q.code
    <3>1. c # NoCode
      BY CodesAssumption DEF NoCode
    <3>2. spent'[c] = spent[c] /\ \A n \in Number : code'[n] \in {code[n], NoCode}
      BY <1>11, <1>12, <2>3
    <3>3. QED
      BY <1>8, <2>1, <3>1, <3>2
  <2>4. QED
    BY <2>2, <2>3
<1>17. CodesAreOwn'
  <2>1. \A n, k \in Number : code'[n] = code'[k] => n = k \/ code'[n] = NoCode
    BY <1>11 DEF PhonesInvariant, CodesAreOwn
  <2>2. \A v \in User, n \in Number :
          ask'[v].op = "DELETE" /\ ask'[v].code = code'[n] => n = ask'[v].number
    BY <1>15
  <2>3. QED
    BY <1>1, <1>16, <2>1, <2>2 DEF CodesAreOwn, Deleting
<1>18. CodeSpentOnce'
  <2>1. ASSUME NEW c \in 1..MaxCodes, spent'[c] > 1 PROVE c \in raced
    <3>1. CASE c = q.code /\ c \notin raced
      <4>1. spent[c] = 0
        BY <1>5, <3>1 DEF PhonesInvariant, CodesAreOwn
      <4>2. QED
        BY <1>12, <2>1, <3>1, <4>1
    <3>2. CASE c # q.code
      BY <1>12, <2>1, <3>2 DEF PhonesInvariant, NumbersAreProven, CodeSpentOnce
    <3>3. QED
      BY <3>1, <3>2
  <2>2. QED
    BY <1>1, <2>1 DEF CodeSpentOnce
<1>19. PhonesTypeOK'
  BY <1>1, <1>7, <1>11, <1>12 DEF PhonesInvariant, PhonesTypeOK
<1>20. NumbersAreDistinct'
  BY <1>1 DEF PhonesInvariant, NumbersAreProven, NumbersAreDistinct, Has
<1>21. QED
  BY <1>7, <1>17, <1>18, <1>19, <1>20 DEF PhonesInvariant, NumbersAreProven

\* A row is saved: with the number it had, or one that nobody has but those who
\* are marked stale or typed.
LEMMA SavedDistinct ==
  ASSUME PhonesInvariant, NEW u \in User, NEW q, q.row \in PhoneRow, q.free \in BOOLEAN,
         Brings(q), Save(u, q)
  PROVE  marketer' \in [User -> PhoneRow] /\ NumbersAreDistinct'
<1> DEFINE refused == q.seen = Unregistered /\ marketer[u] # Unregistered
           taken == q.free /\ \E v \in User \ {u} : Has(v, q.row.phone)
           excepted == stale \cup typed
<1>1. /\ marketer' = IF refused THEN marketer ELSE [marketer EXCEPT ![u] = q.row]
      /\ stale' = IF ~refused /\ (q.seen # marketer[u] \/ taken)
                  THEN stale \cup {u} ELSE stale
      /\ typed' = IF refused \/ q.row.phone = q.seen.phone THEN typed
                  ELSE IF q.op = "EDIT" THEN typed \cup {u} ELSE typed \ {u}
  BY DEF Save
<1>2. /\ marketer \in [User -> PhoneRow]
      /\ NumbersAreDistinct
  BY DEF PhonesInvariant, PhonesTypeOK, NumbersAreProven
<1>3. CASE refused
  BY <1>1, <1>2, <1>3 DEF NumbersAreDistinct, Has
<1>4. CASE ~refused
  <2>1. /\ marketer' \in [User -> PhoneRow] /\ marketer'[u] = q.row
        /\ \A v \in User : v # u => marketer'[v] = marketer[v] /\ (v \in excepted => v \in excepted')
        /\ u \notin stale' => q.seen = marketer[u] /\ ~taken /\ u \notin stale
        /\ u \notin typed' => \/ q.row.phone = q.seen.phone /\ u \notin typed
                              \/ q.op # "EDIT" /\ q.row.phone # q.seen.phone
    BY <1>1, <1>2, <1>4
  <2>2. ASSUME NEW v \in User \ excepted', NEW w \in User \ excepted', v # w,
               marketer'[v].phone = marketer'[w].phone
        PROVE  marketer'[v].phone = NoNumber
    <3>1. CASE v # u /\ w # u
      BY <1>2, <2>1, <2>2, <3>1 DEF NumbersAreDistinct, Has
    <3>2. ASSUME NEW k \in User \ {u}, u \notin excepted', k \notin excepted,
                 marketer[k].phone = q.row.phone
          PROVE  q.row.phone = NoNumber
      <4>1. CASE q.free
        BY <2>1, <3>2, <4>1 DEF Has
      <4>2. CASE ~q.free
        <5>1. q.row.phone = marketer[u].phone /\ u \notin excepted
          BY <2>1, <3>2, <4>2 DEF Brings
        <5>2. QED
          BY <1>2, <3>2, <5>1 DEF NumbersAreDistinct, Has
      <4>3. QED
        BY <4>1, <4>2
    <3>3. CASE v = u
      BY <2>1, <2>2, <3>2, <3>3
    <3>4. CASE w = u
      BY <2>1, <2>2, <3>2, <3>4
    <3>5. QED
      BY <3>1, <3>3, <3>4
  <2>3. NumbersAreDistinct'
    BY <2>2 DEF NumbersAreDistinct, Has
  <2>4. QED
    BY <2>1, <2>3
<1>5. QED
  BY <1>3, <1>4

LEMMA SaveNumberKeeps ==
  ASSUME PhonesInvariant, NEW u \in User, SaveNumber(u)
  PROVE  PhonesInvariant'
<1>1. /\ ask[u].op = "SAVE" /\ Save(u, ask[u])
      /\ ask' = [ask EXCEPT ![u] = Nothing]
      /\ code' = code /\ codes' = codes /\ arrived' = arrived
      /\ sending' = sending /\ spent' = spent /\ raced' = raced
  BY DEF SaveNumber
<1>2. ask[u] \in Change("SAVE") /\ Brings(ask[u])
  BY <1>1, AskType DEF PhonesInvariant, ChangesAreOwn
<1>3. ask[u].row \in PhoneRow /\ ask[u].free \in BOOLEAN
  BY <1>2 DEF Change
<1>4. marketer' \in [User -> PhoneRow] /\ NumbersAreDistinct'
  BY <1>1, <1>2, <1>3, SavedDistinct
<1>5. Nothing \in Askings /\ Nothing.op = "NOTHING"
  BY DEF Askings, Nothing
<1>6. /\ ask' \in [User -> Askings'] /\ ask'[u] = Nothing
      /\ \A v \in User : v # u => ask'[v] = ask[v]
      /\ sending' \in [User -> Sendings'] /\ ChangesAreOwn'
  BY <1>1, <1>5, AskMoves
<1>7. \A v \in User : ask'[v].op = "DELETE" => ask'[v] = ask[v]
  BY <1>5, <1>6
<1>8. CodesAreOwn' /\ CodeSpentOnce'
  BY <1>1, <1>7, CodesStay
<1>9. PhonesTypeOK'
  BY <1>1, <1>4, <1>6 DEF PhonesInvariant, PhonesTypeOK
<1>10. QED
  BY <1>4, <1>6, <1>8, <1>9 DEF PhonesInvariant, NumbersAreProven

LEMMA RegistrationFailsKeeps ==
  ASSUME PhonesInvariant, NEW u \in User, RegistrationFails(u)
  PROVE  PhonesInvariant'
<1>1. /\ ask' = [ask EXCEPT ![u] = Nothing]
      /\ code' = code /\ codes' = codes /\ arrived' = arrived /\ marketer' = marketer
      /\ sending' = sending /\ spent' = spent /\ raced' = raced /\ stale' = stale /\ typed' = typed
  BY DEF RegistrationFails
<1>2. Nothing \in Askings /\ Nothing.op = "NOTHING"
  BY DEF Askings, Nothing
<1>3. /\ ask' \in [User -> Askings'] /\ ask'[u] = Nothing
      /\ \A v \in User : v # u => ask'[v] = ask[v]
      /\ sending' \in [User -> Sendings'] /\ ChangesAreOwn'
  BY <1>1, <1>2, AskMoves
<1>4. \A v \in User : ask'[v].op = "DELETE" => ask'[v] = ask[v]
  BY <1>2, <1>3
<1>5. CodesAreOwn' /\ CodeSpentOnce'
  BY <1>1, <1>4, CodesStay
<1>6. PhonesTypeOK'
  BY <1>1, <1>3 DEF PhonesInvariant, PhonesTypeOK
<1>7. NumbersAreDistinct'
  BY <1>1 DEF PhonesInvariant, NumbersAreProven, NumbersAreDistinct, Has
<1>8. QED
  BY <1>3, <1>5, <1>6, <1>7 DEF PhonesInvariant, NumbersAreProven

LEMMA EditMarketerKeeps ==
  ASSUME PhonesInvariant, NEW u \in User, NEW status \in {"USING", "DISABLED"},
         NEW n \in Number, EditMarketer(u, status, n)
  PROVE  PhonesInvariant'
<1> DEFINE s == [op |-> "EDIT", seen |-> marketer[u], free |-> FALSE,
                 row |-> [status |-> status, phone |-> n]]
<1>1. /\ sending' = [sending EXCEPT ![u] = s]
      /\ code' = code /\ codes' = codes /\ arrived' = arrived /\ marketer' = marketer
      /\ ask' = ask /\ spent' = spent /\ raced' = raced /\ stale' = stale /\ typed' = typed
  BY DEF EditMarketer
<1>2. marketer[u] \in PhoneRow
  BY DEF PhonesInvariant, PhonesTypeOK
<1>3. [status |-> status, phone |-> n] \in PhoneRow
  BY DEF PhoneRow
<1>4. s \in Sendings /\ s.op = "EDIT" /\ Brings(s)
  BY <1>2, <1>3 DEF Sendings, Change, Brings
<1> HIDE DEF s
<1>5. /\ sending' \in [User -> Sendings'] /\ ask' \in [User -> Askings'] /\ ChangesAreOwn'
  BY <1>1, <1>4, SendingMoves
<1>6. CodesAreOwn' /\ CodeSpentOnce'
  BY <1>1, CodesStay
<1>7. PhonesTypeOK'
  BY <1>1, <1>5 DEF PhonesInvariant, PhonesTypeOK
<1>8. NumbersAreDistinct'
  BY <1>1 DEF PhonesInvariant, NumbersAreProven, NumbersAreDistinct, Has
<1>9. QED
  BY <1>5, <1>6, <1>7, <1>8 DEF PhonesInvariant, NumbersAreProven

LEMMA SaveMarketerKeeps ==
  ASSUME PhonesInvariant, NEW u \in User, SaveMarketer(u)
  PROVE  PhonesInvariant'
<1>1. /\ sending[u].op = "EDIT" /\ Save(u, sending[u])
      /\ sending' = [sending EXCEPT ![u] = Nothing]
      /\ code' = code /\ codes' = codes /\ arrived' = arrived
      /\ ask' = ask /\ spent' = spent /\ raced' = raced
  BY DEF SaveMarketer
<1>2. sending[u] \in Change("EDIT") /\ Brings(sending[u])
  BY <1>1, SendingType DEF PhonesInvariant, ChangesAreOwn
<1>3. sending[u].row \in PhoneRow /\ sending[u].free \in BOOLEAN
  BY <1>2 DEF Change
<1>4. marketer' \in [User -> PhoneRow] /\ NumbersAreDistinct'
  BY <1>1, <1>2, <1>3, SavedDistinct
<1>5. Nothing \in Sendings /\ Nothing.op = "NOTHING"
  BY DEF Sendings, Nothing
<1>6. /\ sending' \in [User -> Sendings'] /\ ask' \in [User -> Askings'] /\ ChangesAreOwn'
  BY <1>1, <1>5, SendingMoves
<1>7. CodesAreOwn' /\ CodeSpentOnce'
  BY <1>1, CodesStay
<1>8. PhonesTypeOK'
  BY <1>1, <1>4, <1>6 DEF PhonesInvariant, PhonesTypeOK
<1>9. QED
  BY <1>4, <1>6, <1>7, <1>8 DEF PhonesInvariant, NumbersAreProven

LEMMA NextPhones == PhonesInvariant /\ [PhonesNext]_phonesVars => PhonesInvariant'
<1> SUFFICES ASSUME PhonesInvariant, [PhonesNext]_phonesVars PROVE PhonesInvariant'
  OBVIOUS
<1>1. ASSUME code' = code, codes' = codes, arrived' = arrived, marketer' = marketer,
             sending' = sending, ask' = ask, spent' = spent, raced' = raced, stale' = stale /\ typed' = typed
      PROVE  PhonesInvariant'
  <2>1. Askings' = Askings /\ Sendings' = Sendings
    BY <1>1 DEF Askings, Sendings, Proof, Texting
  <2>2. PhonesTypeOK' /\ ChangesAreOwn'
    BY <1>1, <2>1 DEF PhonesInvariant, PhonesTypeOK, ChangesAreOwn, Brings
  <2>3. CodesAreOwn' /\ CodeSpentOnce'
    BY <1>1, CodesStay
  <2>4. NumbersAreDistinct'
    BY <1>1 DEF PhonesInvariant, NumbersAreProven, NumbersAreDistinct, Has
  <2>5. QED
    BY <2>2, <2>3, <2>4 DEF PhonesInvariant, NumbersAreProven
<1>2. CASE UNCHANGED phonesVars
  BY <1>1, <1>2 DEF phonesVars
<1>3. ASSUME NEW u \in User, MinutePasses(u) PROVE PhonesInvariant'
  BY <1>1, <1>3 DEF MinutePasses
<1>4. CASE PhonesNext
  BY <1>3, <1>4, AskCodeKeeps, StoreCodeKeeps, SendMessageKeeps, CodeExpiresKeeps,
     AskNumberKeeps, AskUsedNumberKeeps, VerifyCodeKeeps, DeleteCodeKeeps, SaveNumberKeeps,
     RegistrationFailsKeeps, EditMarketerKeeps, SaveMarketerKeeps DEF PhonesNext
<1>5. QED
  BY <1>2, <1>4

\* Two marketers who proved their numbers share one only after requests that
\* overlapped, whatever numbers the platform types for others, and a code proves
\* one change unless two requests read it at the same time.
THEOREM NumbersProvenCorrect == PhonesInit /\ [][PhonesNext]_phonesVars => []NumbersAreProven
<1>1. PhonesInvariant => NumbersAreProven
  BY DEF PhonesInvariant
<1>2. QED
  BY <1>1, InitPhones, NextPhones, PTL

-----------------------------------------------------------------------------
(* Notices to merchants *)

WorkerRow ==
  [pc : {"free"}] \cup [pc : {"request", "call", "speak"}, payment : Serial]
  \cup [pc : {"tell"}, payment : Serial, notice : Notice]

\* How many processes are about to do v, f being what each is about to do; to
\* tell the staff of p or to speak.
Holding(f, v) == Cardinality({t \in Worker : f[t] = v})
Going(n, p) == Holding(worker, Telling(n, p))
Speaking(p) == Holding(worker, Doing("speak", p))

NoticesTypeOK ==
  /\ staff \in [Person -> [work : Merchant, status : {"USING", "DISABLED"}]]
  /\ worker \in [Worker -> WorkerRow]
  /\ deaths \in Nat
  /\ due \in [Notice -> [Serial -> Nat]]
  /\ tooLate \in [Serial -> Nat]
  /\ told \in [Notice -> [Serial -> [Person -> Nat]]]
  /\ spoken \in [Serial -> Nat]

\* What was booked of a payment, by its status
BookedByStatus(p) ==
  /\ due["merchant_receive"][p] <= 1
  /\ payments[p].status \in {"NONE", "UNPAID"} => due["merchant_receive"][p] = 0
  /\ due["merchant_refund_success"][p] <= 1
  /\ payments[p].status # "REFUND" => due["merchant_refund_success"][p] = 0
  /\ payments[p].status = "NONE" => due["merchant_refund_fail"][p] = 0 /\ tooLate[p] = 0

AtWork(x, p) == staff[x] = [work |-> payments[p].merchant, status |-> "USING"]

\* What a person was told and will be told is what was booked, and less only
\* after a process died.
ToldSoFar(n, p, x) ==
  /\ told[n][p][x] + Going(n, p) <= Owed(n, p)
  /\ x \notin changed =>
       IF AtWork(x, p) THEN deaths = 0 => told[n][p][x] + Going(n, p) = Owed(n, p)
                       ELSE told[n][p][x] = 0

SpokenSoFar(p) ==
  /\ spoken[p] + Going("merchant_receive", p) + Speaking(p) <= due["merchant_receive"][p]
  /\ deaths = 0 /\ p \notin mute =>
       spoken[p] + Going("merchant_receive", p) + Speaking(p) = due["merchant_receive"][p]

NoticesInvariant ==
  /\ TypeOK
  /\ NoticesTypeOK
  /\ \A t \in Worker : worker[t] # Free => payments[worker[t].payment].status # "NONE"
  /\ \A p \in Serial : BookedByStatus(p)
  /\ \A n \in Notice, p \in Serial, x \in Person : ToldSoFar(n, p, x)
  /\ \A p \in Serial : SpokenSoFar(p)

LEMMA CountMoves ==
  ASSUME NEW f, NEW g, NEW t \in Worker, NEW to, NEW v,
         g[t] = to, \A k \in Worker : k # t => g[k] = f[k]
  PROVE  Holding(g, v) = Holding(f, v) - (IF f[t] = v THEN 1 ELSE 0)
                                       + (IF to = v THEN 1 ELSE 0)
<1> DEFINE F == {k \in Worker : f[k] = v}
           G == {k \in Worker : g[k] = v}
<1>1. IsFiniteSet(F) /\ Cardinality(F) \in Nat
  <2>1. F \subseteq Worker
    OBVIOUS
  <2>2. IsFiniteSet(F)
    BY <2>1, FS_Subset, NoticesAssumption
  <2>3. QED
    BY <2>2, FS_CardinalityType
<1>2. g[t] = to /\ \A k \in Worker : k # t => g[k] = f[k]
  OBVIOUS
<1> SUFFICES Cardinality(G) = Cardinality(F) - (IF f[t] = v THEN 1 ELSE 0)
                                            + (IF to = v THEN 1 ELSE 0)
  BY DEF Holding
<1>3. CASE f[t] = v /\ to = v
  <2>1. G = F
    BY <1>2, <1>3
  <2> HIDE DEF F, G
  <2>2. Cardinality(G) = Cardinality(F)
    BY <2>1
  <2>3. QED
    BY <1>1, <1>3, <2>2
<1>4. CASE f[t] # v /\ to # v
  <2>1. G = F
    BY <1>2, <1>4
  <2> HIDE DEF F, G
  <2>2. Cardinality(G) = Cardinality(F)
    BY <2>1
  <2>3. QED
    BY <1>1, <1>4, <2>2
<1>5. CASE f[t] = v /\ to # v
  <2>1. G = F \ {t} /\ t \in F
    BY <1>2, <1>5
  <2> HIDE DEF F, G
  <2>2. Cardinality(G) = Cardinality(F) - 1
    BY <1>1, <2>1, FS_RemoveElement
  <2>3. QED
    BY <1>1, <1>5, <2>2
<1>6. CASE f[t] # v /\ to = v
  <2>1. G = F \cup {t} /\ t \notin F
    BY <1>2, <1>6
  <2> HIDE DEF F, G
  <2>2. Cardinality(G) = Cardinality(F) + 1
    BY <1>1, <2>1, FS_AddElement
  <2>3. QED
    BY <1>1, <1>6, <2>2
<1>7. QED
  BY <1>3, <1>4, <1>5, <1>6

LEMMA CountsType ==
  /\ \A n \in Notice, p \in Serial : Going(n, p) \in Nat
  /\ \A p \in Serial : Speaking(p) \in Nat
<1>1. \A f, v : Holding(f, v) \in Nat
  <2> SUFFICES ASSUME NEW f, NEW v PROVE Holding(f, v) \in Nat
    OBVIOUS
  <2> DEFINE F == {t \in Worker : f[t] = v}
  <2>1. F \subseteq Worker
    OBVIOUS
  <2>2. IsFiniteSet(F)
    BY <2>1, FS_Subset, NoticesAssumption
  <2>3. Cardinality(F) \in Nat
    BY <2>2, FS_CardinalityType
  <2>4. QED
    BY <2>3 DEF Holding
<1>2. QED
  BY <1>1 DEF Going, Speaking

\* The counts when one process goes on
LEMMA CountsMove ==
  ASSUME NoticesTypeOK, NEW t \in Worker, NEW to, Goes(t, to)
  PROVE  /\ \A n \in Notice, p \in Serial :
              Going(n, p)' = Going(n, p) - (IF worker[t] = Telling(n, p) THEN 1 ELSE 0)
                                         + (IF to = Telling(n, p) THEN 1 ELSE 0)
         /\ \A p \in Serial :
              Speaking(p)' = Speaking(p) - (IF worker[t] = Doing("speak", p) THEN 1 ELSE 0)
                                         + (IF to = Doing("speak", p) THEN 1 ELSE 0)
<1>1. worker \in [Worker -> WorkerRow] /\ worker' = [worker EXCEPT ![t] = to]
  BY DEF NoticesTypeOK, Goes
<1>2. \A v : Holding(worker', v) = Holding(worker, v) - (IF worker[t] = v THEN 1 ELSE 0)
                                                      + (IF to = v THEN 1 ELSE 0)
  <2> SUFFICES ASSUME NEW v
               PROVE  Holding(worker', v) = Holding(worker, v) - (IF worker[t] = v THEN 1 ELSE 0)
                                                               + (IF to = v THEN 1 ELSE 0)
    OBVIOUS
  <2>1. PICK f, g : f = worker /\ g = worker'
    OBVIOUS
  <2>2. g[t] = to /\ \A k \in Worker : k # t => g[k] = f[k]
    BY <1>1, <2>1
  <2>3. Holding(g, v) = Holding(f, v) - (IF f[t] = v THEN 1 ELSE 0) + (IF to = v THEN 1 ELSE 0)
    BY <2>2, CountMoves
  <2>4. QED
    BY <2>1, <2>3
<1>3. QED
  BY <1>2 DEF Going, Speaking, Telling, Doing

\* What a process may be about to do
LEMMA WorkerValues ==
  /\ \A n, m, p, q : Telling(n, p) = Telling(m, q) <=> n = m /\ p = q
  /\ \A p, q : Doing("speak", p) = Doing("speak", q) <=> p = q
  /\ \A n, p, q : Telling(n, p) # Doing("speak", q)
  /\ \A n, p : Free # Telling(n, p) /\ Free # Doing("speak", p)
  /\ \A pc, n, p, q : pc \in {"request", "call"} =>
       /\ Doing(pc, p) # Telling(n, q) /\ Doing(pc, p) # Doing("speak", q)
       /\ Doing(pc, p) # Free
<1>1. \A n, p : Telling(n, p).pc = "tell" /\ Telling(n, p).payment = p /\ Telling(n, p).notice = n
  BY DEF Telling
<1>2. \A pc, p : Doing(pc, p).pc = pc /\ Doing(pc, p).payment = p
  BY DEF Doing
<1>3. Free.pc = "free"
  BY DEF Free
<1>4. QED
  BY <1>1, <1>2, <1>3

LEMMA WorkerType ==
  ASSUME NoticesTypeOK, NEW t \in Worker
  PROVE  /\ worker[t].pc \in {"request", "call", "speak"} =>
              worker[t].payment \in Serial /\ worker[t] = Doing(worker[t].pc, worker[t].payment)
         /\ worker[t].pc = "tell" =>
              /\ worker[t].payment \in Serial /\ worker[t].notice \in Notice
              /\ worker[t] = Telling(worker[t].notice, worker[t].payment)
<1>1. worker[t] \in WorkerRow
  BY DEF NoticesTypeOK
<1>2. CASE worker[t].pc \in {"request", "call", "speak"}
  <2>1. worker[t] \in [pc : {"request", "call", "speak"}, payment : Serial]
    BY <1>1, <1>2 DEF WorkerRow
  <2>2. QED
    BY <1>2, <2>1 DEF Doing
<1>3. CASE worker[t].pc = "tell"
  <2>1. worker[t] \in [pc : {"tell"}, payment : Serial, notice : Notice]
    BY <1>1, <1>3 DEF WorkerRow
  <2>2. QED
    BY <1>3, <2>1 DEF Telling
<1>4. QED
  BY <1>2, <1>3

LEMMA WorkerRows ==
  /\ Free \in WorkerRow
  /\ \A pc \in {"request", "call", "speak"}, p \in Serial : Doing(pc, p) \in WorkerRow
  /\ \A n \in Notice, p \in Serial : Telling(n, p) \in WorkerRow
  BY DEF WorkerRow, Free, Doing, Telling

\* A step of the ledger: what is booked is what a process goes off to tell.
LEMMA LedgerTells ==
  ASSUME NoticesInvariant, TypeOK', NoticesTypeOK', Steady,
         \A p \in Serial : BookedByStatus(p)',
         told' = told, staff' = staff, changed' = changed, deaths' = deaths,
         spoken' = spoken, mute' = mute,
         \A n \in Notice, p \in Serial : Going(n, p)' + Owed(n, p) = Going(n, p) + Owed(n, p)',
         \A p \in Serial : Speaking(p)' = Speaking(p),
         \A t \in Worker : worker'[t] # Free => payments'[worker'[t].payment].status # "NONE"
  PROVE  NoticesInvariant'
<1>1. /\ \A n \in Notice, p \in Serial : Owed(n, p) \in Nat /\ Owed(n, p)' \in Nat
      /\ \A n \in Notice, p \in Serial, x \in Person : told[n][p][x] \in Nat
      /\ \A p \in Serial : due["merchant_receive"][p] \in Nat /\ spoken[p] \in Nat
      /\ \A p \in Serial : due'["merchant_receive"][p] \in Nat
  BY DEF NoticesInvariant, NoticesTypeOK, Owed, Notice
<1>2. /\ \A n \in Notice, p \in Serial : Going(n, p) \in Nat
      /\ \A p \in Serial : Speaking(p) \in Nat
  BY CountsType
<1>3. (\A n \in Notice, p \in Serial : Going(n, p) \in Nat)'
  BY CountsType, PTL
<1>4. ASSUME NEW n \in Notice, NEW p \in Serial, NEW x \in Person
      PROVE  /\ told'[n][p][x] + Going(n, p)' <= Owed(n, p)'
             /\ x \notin changed' =>
                  IF AtWork(x, p)' THEN deaths' = 0 => told'[n][p][x] + Going(n, p)' = Owed(n, p)'
                                   ELSE told'[n][p][x] = 0
  <2>1. /\ told[n][p][x] \in Nat /\ Going(n, p) \in Nat /\ Going(n, p)' \in Nat
        /\ Owed(n, p) \in Nat /\ Owed(n, p)' \in Nat
        /\ Going(n, p)' + Owed(n, p) = Going(n, p) + Owed(n, p)'
    BY <1>1, <1>2, <1>3
  <2>2. /\ told[n][p][x] + Going(n, p) <= Owed(n, p)
        /\ x \notin changed =>
             IF AtWork(x, p) THEN deaths = 0 => told[n][p][x] + Going(n, p) = Owed(n, p)
                             ELSE told[n][p][x] = 0
    BY DEF NoticesInvariant, ToldSoFar
  <2>3. told'[n][p][x] + Going(n, p)' <= Owed(n, p)'
    BY <2>1, <2>2
  <2>4. CASE payments[p].status # "NONE"
    <3>1. AtWork(x, p)' <=> AtWork(x, p)
      BY <2>4 DEF Steady, AtWork
    <3>2. QED
      BY <2>1, <2>2, <2>3, <3>1
  <2>5. CASE payments[p].status = "NONE"
    <3>1. BookedByStatus(p)
      BY DEF NoticesInvariant
    <3>2. /\ due["merchant_receive"][p] = 0 /\ due["merchant_refund_success"][p] = 0
          /\ due["merchant_refund_fail"][p] = 0 /\ tooLate[p] = 0
      BY <2>5, <3>1 DEF BookedByStatus
    <3>3. Owed(n, p) = 0
      BY <3>2 DEF Owed, Notice
    <3>4. QED
      BY <2>1, <2>2, <2>3, <3>3
  <2>6. QED
    BY <2>4, <2>5
<1>5. \A n \in Notice, p \in Serial, x \in Person : ToldSoFar(n, p, x)'
  BY <1>4 DEF ToldSoFar
<1>6. ASSUME NEW p \in Serial PROVE SpokenSoFar(p)'
  <2>1. "merchant_receive" \in Notice /\ "merchant_receive" # "merchant_refund_fail"
    BY DEF Notice
  <2>2. Going("merchant_receive", p)' + due["merchant_receive"][p]
          = Going("merchant_receive", p) + due'["merchant_receive"][p]
    <3>1. Owed("merchant_receive", p) = due["merchant_receive"][p]
      BY <1>1 DEF Owed
    <3>2. Owed("merchant_receive", p)' = due'["merchant_receive"][p]
      BY <1>1 DEF Owed
    <3>3. QED
      BY <2>1, <3>1, <3>2
  <2>3. SpokenSoFar(p)
    BY DEF NoticesInvariant
  <2>4. /\ Going("merchant_receive", p) \in Nat /\ Going("merchant_receive", p)' \in Nat
        /\ Speaking(p) \in Nat /\ Speaking(p)' = Speaking(p)
        /\ spoken[p] \in Nat /\ due["merchant_receive"][p] \in Nat
        /\ due'["merchant_receive"][p] \in Nat
    BY <1>1, <1>2, <1>3, <2>1
  <2>5. QED
    BY <2>2, <2>3, <2>4 DEF SpokenSoFar
<1>7. QED
  BY <1>5, <1>6 DEF NoticesInvariant

LEMMA StatusMoves ==
  ASSUME TypeOK, NEW p \in Serial, NEW s \in PaymentStatus \ {"NONE"},
         payments' = [payments EXCEPT ![p].status = s]
  PROVE  /\ payments'[p].status = s
         /\ \A q \in Serial : q # p => payments'[q] = payments[q]
         /\ Steady
<1>1. payments \in [Serial -> Payment]
  BY DEF TypeOK
<1>2. \A q \in Serial : q # p => payments'[q] = payments[q]
  BY <1>1
<1>3. payments[p] \in Payment
  BY <1>1
<1>4. payments'[p] = [payments[p] EXCEPT !.status = s]
  BY <1>1
<1>5. payments'[p].status = s /\ payments'[p].merchant = payments[p].merchant
  BY <1>3, <1>4 DEF Payment
<1>6. QED
  BY <1>2, <1>5 DEF Steady

\* What a process may be at when it books: nothing to tell yet
Idle(t) == worker[t] = Free \/ worker[t].pc \in {"request", "call"}

LEMMA IdleTellsNothing ==
  ASSUME NoticesTypeOK, NEW t \in Worker, Idle(t)
  PROVE  /\ \A n, p : worker[t] # Telling(n, p)
         /\ \A p : worker[t] # Doing("speak", p)
<1>1. Free.pc = "free"
  BY DEF Free
<1>2. worker[t].pc \in {"free", "request", "call"}
  BY <1>1 DEF Idle
<1>3. /\ \A n, p : Telling(n, p).pc = "tell"
      /\ \A p : Doing("speak", p).pc = "speak"
  BY DEF Telling, Doing
<1>4. QED
  BY <1>2, <1>3

\* A process goes on about payment p, or is done.
LEMMA WorkerGoes ==
  ASSUME NoticesInvariant, Steady, NEW t \in Worker, NEW to \in WorkerRow, Goes(t, to),
         to = Free \/ (to.payment \in Serial /\ payments'[to.payment].status # "NONE")
  PROVE  /\ worker' \in [Worker -> WorkerRow]
         /\ \A k \in Worker : worker'[k] # Free => payments'[worker'[k].payment].status # "NONE"
<1>1. worker \in [Worker -> WorkerRow] /\ worker' = [worker EXCEPT ![t] = to]
  BY DEF NoticesInvariant, NoticesTypeOK, Goes
<1>2. /\ worker' \in [Worker -> WorkerRow] /\ worker'[t] = to
      /\ \A k \in Worker : k # t => worker'[k] = worker[k]
  BY <1>1
<1>3. \A k \in Worker : worker[k] # Free =>
        worker[k].payment \in Serial /\ payments[worker[k].payment].status # "NONE"
  <2> SUFFICES ASSUME NEW k \in Worker, worker[k] # Free
               PROVE  worker[k].payment \in Serial
    BY DEF NoticesInvariant
  <2>1. worker[k] \in WorkerRow
    BY <1>1
  <2>2. worker[k].pc # "free"
    BY <2>1 DEF WorkerRow, Free
  <2>3. QED
    BY <2>1, <2>2 DEF WorkerRow
<1>4. QED
  BY <1>2, <1>3 DEF Steady

\* A transaction that changes the status of p books a notice, which a process
\* goes off to tell.
LEMMA BooksKeeps ==
  ASSUME NoticesInvariant, TypeOK', NEW t \in Worker, NEW p \in Serial, NEW n \in Notice,
         NEW s \in PaymentStatus \ {"NONE", "UNPAID"},
         payments' = [payments EXCEPT ![p].status = s],
         Idle(t), Books(n, p), Goes(t, Telling(n, p)),
         staff' = staff, deaths' = deaths, changed' = changed, told' = told,
         spoken' = spoken, mute' = mute, tooLate' = tooLate,
         n = "merchant_receive" => payments[p].status = "UNPAID",
         n = "merchant_refund_success" => s = "REFUND",
         payments[p].status # "REFUND",
         n # "merchant_refund_success" => s # "REFUND"
  PROVE  NoticesInvariant'
<1>1. /\ payments'[p].status = s /\ \A q \in Serial : q # p => payments'[q] = payments[q]
      /\ Steady
  BY StatusMoves DEF NoticesInvariant
<1>2. /\ NoticesTypeOK /\ due \in [Notice -> [Serial -> Nat]] /\ tooLate \in [Serial -> Nat]
      /\ due' = [due EXCEPT ![n][p] = due[n][p] + 1]
  BY DEF NoticesInvariant, NoticesTypeOK, Books
<1>3. /\ due' \in [Notice -> [Serial -> Nat]]
      /\ due'[n][p] = due[n][p] + 1
      /\ \A m \in Notice, q \in Serial : m # n \/ q # p => due'[m][q] = due[m][q]
  BY <1>2
<1>4. Telling(n, p) \in WorkerRow /\ Telling(n, p).payment = p
  BY WorkerRows DEF Telling
<1>5. /\ worker' \in [Worker -> WorkerRow]
      /\ \A k \in Worker : worker'[k] # Free => payments'[worker'[k].payment].status # "NONE"
  BY <1>1, <1>4, WorkerGoes
<1>6. NoticesTypeOK'
  BY <1>2, <1>3, <1>5 DEF NoticesTypeOK
<1>7. /\ \A m \in Notice, q \in Serial : Going(m, q) \in Nat
      /\ \A q \in Serial : Speaking(q) \in Nat
  BY CountsType
<1>8. /\ \A m \in Notice, q \in Serial :
           Going(m, q)' = Going(m, q) + (IF m = n /\ q = p THEN 1 ELSE 0)
      /\ \A q \in Serial : Speaking(q)' = Speaking(q)
  <2>1. /\ \A m \in Notice, q \in Serial :
             Going(m, q)' = Going(m, q) - (IF worker[t] = Telling(m, q) THEN 1 ELSE 0)
                                        + (IF Telling(n, p) = Telling(m, q) THEN 1 ELSE 0)
        /\ \A q \in Serial :
             Speaking(q)' = Speaking(q) - (IF worker[t] = Doing("speak", q) THEN 1 ELSE 0)
                                        + (IF Telling(n, p) = Doing("speak", q) THEN 1 ELSE 0)
    BY <1>2, CountsMove
  <2>2. /\ \A m, q : worker[t] # Telling(m, q)
        /\ \A q : worker[t] # Doing("speak", q)
    BY <1>2, IdleTellsNothing
  <2>3. /\ \A m, q : Telling(n, p) = Telling(m, q) <=> m = n /\ q = p
        /\ \A q : Telling(n, p) # Doing("speak", q)
    BY WorkerValues
  <2>4. QED
    BY <1>7, <2>1, <2>2, <2>3
<1>9. \A m \in Notice, q \in Serial : Owed(m, q)' = Owed(m, q) + (IF m = n /\ q = p THEN 1 ELSE 0)
  <2> SUFFICES ASSUME NEW m \in Notice, NEW q \in Serial
               PROVE  Owed(m, q)' = Owed(m, q) + (IF m = n /\ q = p THEN 1 ELSE 0)
    OBVIOUS
  <2>1. due'[m][q] = due[m][q] + (IF m = n /\ q = p THEN 1 ELSE 0)
    BY <1>2, <1>3
  <2>2. Owed(m, q)' = due'[m][q] + (IF m = "merchant_refund_fail" THEN tooLate[q] ELSE 0)
    BY DEF Owed
  <2>3. Owed(m, q) = due[m][q] + (IF m = "merchant_refund_fail" THEN tooLate[q] ELSE 0)
    BY DEF Owed
  <2>4. due[m][q] \in Nat /\ tooLate[q] \in Nat
    BY <1>2
  <2>5. QED
    BY <2>1, <2>2, <2>3, <2>4
<1>10. \A m \in Notice, q \in Serial : Owed(m, q) \in Nat
  BY <1>2 DEF Owed
<1>11. \A m \in Notice, q \in Serial : Going(m, q)' + Owed(m, q) = Going(m, q) + Owed(m, q)'
  BY <1>7, <1>8, <1>9, <1>10
<1>12. ASSUME NEW q \in Serial PROVE BookedByStatus(q)'
  <2>1. BookedByStatus(q)
    BY DEF NoticesInvariant
  <2>2. /\ {"merchant_receive", "merchant_refund_success", "merchant_refund_fail"} = Notice
    BY DEF Notice
  <2>3. CASE q # p
    BY <1>1, <1>3, <2>1, <2>2, <2>3 DEF BookedByStatus
  <2>4. CASE q = p
    BY <1>1, <1>2, <1>3, <2>1, <2>2, <2>4 DEF BookedByStatus
  <2>5. QED
    BY <2>3, <2>4
<1>13. QED
  BY <1>1, <1>5, <1>6, <1>8, <1>11, <1>12, LedgerTells

\* A process goes on, and nothing is booked.
LEMMA GoesKeeps ==
  ASSUME NoticesInvariant, TypeOK', Steady, NEW t \in Worker, NEW to \in WorkerRow,
         Idle(t), Goes(t, to), to.pc \in {"free", "request", "call"},
         to = Free \/ (to.payment \in Serial /\ payments'[to.payment].status # "NONE"),
         \A q \in Serial : payments'[q].status \in {"NONE", "UNPAID"} =>
           payments[q].status \in {"NONE", "UNPAID"},
         \A q \in Serial : payments[q].status = "REFUND" => payments'[q].status = "REFUND",
         \A q \in Serial : payments'[q].status = "NONE" => payments[q].status = "NONE",
         staff' = staff, deaths' = deaths, changed' = changed, told' = told, due' = due,
         spoken' = spoken, mute' = mute, tooLate' = tooLate
  PROVE  NoticesInvariant'
<1>1. NoticesTypeOK /\ due \in [Notice -> [Serial -> Nat]] /\ tooLate \in [Serial -> Nat]
  BY DEF NoticesInvariant, NoticesTypeOK
<1>2. /\ worker' \in [Worker -> WorkerRow]
      /\ \A k \in Worker : worker'[k] # Free => payments'[worker'[k].payment].status # "NONE"
  BY WorkerGoes
<1>3. NoticesTypeOK'
  BY <1>1, <1>2 DEF NoticesTypeOK
<1>4. /\ \A m \in Notice, q \in Serial : Going(m, q) \in Nat
      /\ \A q \in Serial : Speaking(q) \in Nat
  BY CountsType
<1>5. /\ \A m \in Notice, q \in Serial : Going(m, q)' = Going(m, q)
      /\ \A q \in Serial : Speaking(q)' = Speaking(q)
  <2>1. /\ \A m \in Notice, q \in Serial :
             Going(m, q)' = Going(m, q) - (IF worker[t] = Telling(m, q) THEN 1 ELSE 0)
                                        + (IF to = Telling(m, q) THEN 1 ELSE 0)
        /\ \A q \in Serial :
             Speaking(q)' = Speaking(q) - (IF worker[t] = Doing("speak", q) THEN 1 ELSE 0)
                                        + (IF to = Doing("speak", q) THEN 1 ELSE 0)
    BY <1>1, CountsMove
  <2>2. /\ \A m, q : worker[t] # Telling(m, q)
        /\ \A q : worker[t] # Doing("speak", q)
    BY <1>1, IdleTellsNothing
  <2>3. /\ \A m, q : to # Telling(m, q)
        /\ \A q : to # Doing("speak", q)
    BY DEF Telling, Doing
  <2>4. QED
    BY <1>4, <2>1, <2>2, <2>3
<1>6. \A m \in Notice, q \in Serial : Owed(m, q)' = Owed(m, q)
  BY DEF Owed
<1>7. ASSUME NEW q \in Serial PROVE BookedByStatus(q)'
  <2>1. BookedByStatus(q)
    BY DEF NoticesInvariant
  <2>2. QED
    BY <2>1 DEF BookedByStatus
<1>8. QED
  BY <1>2, <1>3, <1>5, <1>6, <1>7, LedgerTells

\* A request that finds the refund in another state books "failed" itself.
LEMMA FindsItChangedKeeps ==
  ASSUME NoticesInvariant, NEW t \in Worker, NEW p \in Serial, Idle(t),
         payments[p].status # "NONE", FindsItChanged(t, p)
  PROVE  NoticesInvariant'
<1> DEFINE n == "merchant_refund_fail"
<1>1. /\ payments' = payments /\ refunds' = refunds /\ coupons' = coupons
      /\ balance' = balance /\ withdrawable' = withdrawable /\ paidOut' = paidOut
      /\ rows' = rows
      /\ due' = due /\ staff' = staff /\ deaths' = deaths /\ changed' = changed
      /\ told' = told /\ spoken' = spoken /\ mute' = mute
  BY DEF FindsItChanged, Rest, vars
<1>2. TypeOK' /\ Steady
  BY <1>1 DEF NoticesInvariant, TypeOK, Steady
<1>3. CASE Goes(t, Free) /\ tooLate' = tooLate
  <2>1. Free \in WorkerRow /\ Free.pc = "free"
    BY WorkerRows DEF Free
  <2>2. QED
    BY <1>1, <1>2, <1>3, <2>1, GoesKeeps
<1>4. CASE Goes(t, Telling(n, p)) /\ tooLate' = [tooLate EXCEPT ![p] = @ + 1]
  <2>1. NoticesTypeOK /\ due \in [Notice -> [Serial -> Nat]] /\ tooLate \in [Serial -> Nat]
    BY DEF NoticesInvariant, NoticesTypeOK
  <2>2. /\ tooLate' \in [Serial -> Nat]
        /\ \A q \in Serial : tooLate'[q] = tooLate[q] + (IF q = p THEN 1 ELSE 0)
    BY <1>4, <2>1
  <2>3. n \in Notice
    BY DEF Notice
  <2>4. Telling(n, p) \in WorkerRow /\ Telling(n, p).payment = p
    BY <2>3, WorkerRows DEF Telling
  <2>5. /\ worker' \in [Worker -> WorkerRow]
        /\ \A k \in Worker : worker'[k] # Free => payments'[worker'[k].payment].status # "NONE"
    BY <1>1, <1>2, <1>4, <2>4, WorkerGoes
  <2>6. NoticesTypeOK'
    BY <1>1, <2>1, <2>2, <2>5 DEF NoticesTypeOK
  <2>7. /\ \A m \in Notice, q \in Serial : Going(m, q) \in Nat
        /\ \A q \in Serial : Speaking(q) \in Nat
    BY CountsType
  <2>8. /\ \A m \in Notice, q \in Serial :
             Going(m, q)' = Going(m, q) + (IF m = n /\ q = p THEN 1 ELSE 0)
        /\ \A q \in Serial : Speaking(q)' = Speaking(q)
    <3>1. /\ \A m \in Notice, q \in Serial :
               Going(m, q)' = Going(m, q) - (IF worker[t] = Telling(m, q) THEN 1 ELSE 0)
                                          + (IF Telling(n, p) = Telling(m, q) THEN 1 ELSE 0)
          /\ \A q \in Serial :
               Speaking(q)' = Speaking(q) - (IF worker[t] = Doing("speak", q) THEN 1 ELSE 0)
                                          + (IF Telling(n, p) = Doing("speak", q) THEN 1 ELSE 0)
      BY <1>4, <2>1, CountsMove
    <3>2. /\ \A m, q : worker[t] # Telling(m, q)
          /\ \A q : worker[t] # Doing("speak", q)
      BY <2>1, IdleTellsNothing
    <3>3. /\ \A m, q : Telling(n, p) = Telling(m, q) <=> m = n /\ q = p
          /\ \A q : Telling(n, p) # Doing("speak", q)
      BY WorkerValues
    <3>4. QED
      BY <2>7, <3>1, <3>2, <3>3
  <2>9. \A m \in Notice, q \in Serial :
          /\ Owed(m, q) \in Nat
          /\ Owed(m, q)' = Owed(m, q) + (IF m = n /\ q = p THEN 1 ELSE 0)
    BY <1>1, <2>1, <2>2 DEF Owed
  <2>10. \A m \in Notice, q \in Serial : Going(m, q)' + Owed(m, q) = Going(m, q) + Owed(m, q)'
    BY <2>7, <2>8, <2>9
  <2>11. ASSUME NEW q \in Serial PROVE BookedByStatus(q)'
    <3>1. BookedByStatus(q)
      BY DEF NoticesInvariant
    <3>2. QED
      BY <1>1, <2>1, <2>2, <3>1 DEF BookedByStatus
  <2>12. QED
    BY <1>1, <1>2, <2>5, <2>6, <2>8, <2>10, <2>11, LedgerTells
<1>5. QED
  BY <1>3, <1>4 DEF FindsItChanged

\* Callbacks and polls
LEMMA PaidKeeps ==
  ASSUME NoticesInvariant, NEW t \in Worker, NEW p \in Serial,
         WechatPaymentCallback(t, p) \/ AlipayPaymentCallback(t, p)
  PROVE  NoticesInvariant'
<1> DEFINE n == "merchant_receive"
<1>1. /\ worker[t] = Free /\ OnPaymentSuccess(p)
      /\ Books(n, p) /\ Goes(t, Telling(n, p))
      /\ staff' = staff /\ deaths' = deaths /\ changed' = changed
      /\ told' = told /\ spoken' = spoken /\ mute' = mute /\ tooLate' = tooLate
  BY DEF WechatPaymentCallback, AlipayPaymentCallback, Rest
<1>2. TypeOK'
  BY <1>1, OnPaymentSuccessType DEF NoticesInvariant
<1>3. /\ payments[p].status = "UNPAID"
      /\ payments' = [payments EXCEPT ![p].status = "FROZEN"]
  BY <1>1 DEF OnPaymentSuccess
<1>4. n \in Notice /\ "FROZEN" \in PaymentStatus \ {"NONE", "UNPAID"} /\ Idle(t)
  BY <1>1 DEF Notice, PaymentStatus, Idle
<1>5. QED
  BY <1>1, <1>2, <1>3, <1>4, BooksKeeps

LEMMA RefundedKeeps ==
  ASSUME NoticesInvariant, NEW t \in Worker, NEW p \in Serial, Idle(t),
         OnRefundSuccess(p), Books("merchant_refund_success", p),
         Goes(t, Telling("merchant_refund_success", p)), Rest(<<requests, tooLate>>)
  PROVE  NoticesInvariant'
<1> DEFINE n == "merchant_refund_success"
<1>1. /\ staff' = staff /\ deaths' = deaths /\ changed' = changed
      /\ told' = told /\ spoken' = spoken /\ mute' = mute /\ tooLate' = tooLate
  BY DEF Rest
<1>2. TypeOK'
  BY OnRefundSuccessType DEF NoticesInvariant
<1>3. /\ payments[p].status = "REFUND_REQUESTED"
      /\ payments' = [payments EXCEPT ![p].status = "REFUND"]
  BY DEF OnRefundSuccess, RefundPending
<1>4. n \in Notice /\ "REFUND" \in PaymentStatus \ {"NONE", "UNPAID"}
  BY DEF Notice, PaymentStatus
<1>5. QED
  BY <1>1, <1>2, <1>3, <1>4, BooksKeeps

LEMMA RefundFailedKeeps ==
  ASSUME NoticesInvariant, NEW t \in Worker, NEW p \in Serial, Idle(t),
         OnRefundFail(p), Books("merchant_refund_fail", p),
         Goes(t, Telling("merchant_refund_fail", p)), Rest(<<requests, tooLate>>)
  PROVE  NoticesInvariant'
<1> DEFINE n == "merchant_refund_fail"
<1>1. /\ staff' = staff /\ deaths' = deaths /\ changed' = changed
      /\ told' = told /\ spoken' = spoken /\ mute' = mute /\ tooLate' = tooLate
  BY DEF Rest
<1>2. TypeOK'
  BY OnRefundFailType DEF NoticesInvariant
<1>3. /\ payments[p].status = "REFUND_REQUESTED"
      /\ payments' = [payments EXCEPT ![p].status = "REFUND_FAILED"]
  BY DEF OnRefundFail, RefundPending
<1>4. n \in Notice /\ "REFUND_FAILED" \in PaymentStatus \ {"NONE", "UNPAID"}
  BY DEF Notice, PaymentStatus
<1>5. QED
  BY <1>1, <1>2, <1>3, <1>4, BooksKeeps

LEMMA RefundNewsKeeps ==
  ASSUME NoticesInvariant, NEW t \in Worker, NEW p \in Serial, NEW answer,
         WechatRefundCallback(t, p, answer) \/ RefundStatusSync(t, p, answer)
  PROVE  NoticesInvariant'
<1>1. /\ worker[t] = Free /\ Rest(<<requests, tooLate>>)
      /\ \/ /\ OnRefundSuccess(p) /\ Books("merchant_refund_success", p)
            /\ Goes(t, Telling("merchant_refund_success", p))
         \/ /\ OnRefundFail(p) /\ Books("merchant_refund_fail", p)
            /\ Goes(t, Telling("merchant_refund_fail", p))
  BY DEF WechatRefundCallback, RefundStatusSync
<1>2. Idle(t)
  BY <1>1 DEF Idle
<1>3. QED
  BY <1>1, <1>2, RefundedKeeps, RefundFailedKeeps

\* Requests for refunds
LEMMA AskRefundKeeps ==
  ASSUME NoticesInvariant, NEW t \in Worker, NEW p \in Serial, AskRefund(t, p)
  PROVE  NoticesInvariant'
<1>1. /\ worker[t] = Free /\ Goes(t, Doing("request", p))
      /\ payments[p].status \in {"FROZEN", "REFUND_FAILED"}
      /\ payments' = payments /\ refunds' = refunds /\ coupons' = coupons
      /\ balance' = balance /\ withdrawable' = withdrawable /\ paidOut' = paidOut
      /\ rows' = rows
      /\ due' = due /\ staff' = staff /\ deaths' = deaths /\ changed' = changed
      /\ told' = told /\ spoken' = spoken /\ mute' = mute /\ tooLate' = tooLate
  BY DEF AskRefund, Rest, vars
<1>2. TypeOK' /\ Steady
  BY <1>1 DEF NoticesInvariant, TypeOK, Steady
<1>3. /\ Doing("request", p) \in WorkerRow /\ Doing("request", p).payment = p
      /\ Doing("request", p).pc = "request"
  BY WorkerRows DEF Doing
<1>4. Idle(t)
  BY <1>1 DEF Idle
<1>5. QED
  BY <1>1, <1>2, <1>3, <1>4, GoesKeeps

\* The process is at the refund of a payment that was placed.
LEMMA AtRefund ==
  ASSUME NoticesInvariant, NEW t \in Worker, worker[t].pc \in {"request", "call"}
  PROVE  /\ worker[t].payment \in Serial /\ Idle(t)
         /\ payments[worker[t].payment].status # "NONE"
<1>1. worker[t] # Free
  BY DEF Free
<1>2. worker[t].payment \in Serial
  BY WorkerType DEF NoticesInvariant
<1>3. QED
  BY <1>1, <1>2 DEF NoticesInvariant, Idle

LEMMA BeginRefundKeeps ==
  ASSUME NoticesInvariant, NEW t \in Worker, BeginRefund(t)
  PROVE  NoticesInvariant'
<1>1. worker[t].pc = "request"
  BY DEF BeginRefund
<1>2. PICK p \in Serial : p = worker[t].payment /\ Idle(t) /\ payments[p].status # "NONE"
  BY <1>1, AtRefund
<1>3. CASE FindsItChanged(t, p)
  BY <1>2, <1>3, FindsItChangedKeeps
<1>4. CASE RequestRefund(p) /\ Goes(t, Doing("call", p)) /\ due' = due /\ Rest(<<requests, tooLate>>)
  <2>1. /\ staff' = staff /\ deaths' = deaths /\ changed' = changed
        /\ told' = told /\ spoken' = spoken /\ mute' = mute /\ tooLate' = tooLate
    BY <1>4 DEF Rest
  <2>2. TypeOK'
    BY <1>4, RequestRefundType DEF NoticesInvariant
  <2>3. /\ payments[p].status \in {"FROZEN", "REFUND_FAILED"}
        /\ payments' = [payments EXCEPT ![p].status = "REFUND_REQUESTED"]
    BY <1>4 DEF RequestRefund
  <2>4. "REFUND_REQUESTED" \in PaymentStatus \ {"NONE"}
    BY DEF PaymentStatus
  <2>5. /\ payments'[p].status = "REFUND_REQUESTED" /\ Steady
        /\ \A q \in Serial : q # p => payments'[q] = payments[q]
    BY <2>3, <2>4, StatusMoves DEF NoticesInvariant
  <2>6. /\ Doing("call", p) \in WorkerRow /\ Doing("call", p).payment = p
        /\ Doing("call", p).pc = "call"
    BY WorkerRows DEF Doing
  <2>7. /\ \A q \in Serial : payments'[q].status \in {"NONE", "UNPAID"} =>
             payments[q].status \in {"NONE", "UNPAID"}
        /\ \A q \in Serial : payments[q].status = "REFUND" => payments'[q].status = "REFUND"
        /\ \A q \in Serial : payments'[q].status = "NONE" => payments[q].status = "NONE"
        /\ payments'[p].status # "NONE"
    BY <2>3, <2>5
  <2>8. QED
    BY <1>2, <1>4, <2>1, <2>2, <2>5, <2>6, <2>7, GoesKeeps
<1>5. QED
  BY <1>2, <1>3, <1>4 DEF BeginRefund

LEMMA FinishRefundKeeps ==
  ASSUME NoticesInvariant, NEW t \in Worker, FinishRefund(t)
  PROVE  NoticesInvariant'
<1>1. worker[t].pc = "call"
  BY DEF FinishRefund
<1>2. PICK p \in Serial : p = worker[t].payment /\ Idle(t) /\ payments[p].status # "NONE"
  BY <1>1, AtRefund
<1>3. CASE FindsItChanged(t, p)
  BY <1>2, <1>3, FindsItChangedKeeps
<1>4. CASE /\ OnRefundSuccess(p) /\ Books("merchant_refund_success", p)
           /\ Goes(t, Telling("merchant_refund_success", p)) /\ Rest(<<requests, tooLate>>)
  BY <1>2, <1>4, RefundedKeeps
<1>5. CASE /\ OnRefundFail(p) /\ Books("merchant_refund_fail", p)
           /\ Goes(t, Telling("merchant_refund_fail", p)) /\ Rest(<<requests, tooLate>>)
  BY <1>2, <1>5, RefundFailedKeeps
<1>6. CASE Goes(t, Free) /\ UNCHANGED <<vars, due>> /\ Rest(<<requests, tooLate>>)
  <2>1. /\ payments' = payments /\ refunds' = refunds /\ coupons' = coupons
        /\ balance' = balance /\ withdrawable' = withdrawable /\ paidOut' = paidOut
        /\ rows' = rows
        /\ due' = due /\ staff' = staff /\ deaths' = deaths /\ changed' = changed
        /\ told' = told /\ spoken' = spoken /\ mute' = mute /\ tooLate' = tooLate
    BY <1>6 DEF Rest, vars
  <2>2. TypeOK' /\ Steady
    BY <2>1 DEF NoticesInvariant, TypeOK, Steady
  <2>3. Free \in WorkerRow /\ Free.pc = "free"
    BY WorkerRows DEF Free
  <2>4. QED
    BY <1>2, <1>6, <2>1, <2>2, <2>3, GoesKeeps
<1>7. QED
  BY <1>2, <1>3, <1>4, <1>5, <1>6 DEF FinishRefund

\* What the templates read is put together for every message.
LEMMA MessagesComplete ==
  MessagesAreComplete
<1>1. DOMAIN TemplateMessage =
        {"marketer_audit_merchant", "inviter_invite_merchant_pass", "merchant_month_bill",
         "merchant_commit_info", "merchant_be_approved", "merchant_not_be_approved",
         "merchant_refund_success", "merchant_refund_fail", "merchant_receive",
         "merchant_settlement"}
  BY DEF TemplateMessage
<1>2. /\ AuditMerchantTemplate \subseteq SalesmanMerchantAudit
      /\ InvitePassTemplate \subseteq InviterMerchantAudited
      /\ MonthBillTemplate \subseteq MonthBillContent
      /\ CommitInfoTemplate \subseteq WaitToBeAudited
      /\ BeApprovedTemplate \subseteq AuditedSuccess
      /\ NotBeApprovedTemplate \subseteq AuditedFail
      /\ RefundSuccessTemplate \subseteq OnRefundDone
      /\ RefundFailTemplate \subseteq OnRefundRefused
      /\ ReceiveTemplate \subseteq OnPaySuccess
      /\ SettlementTemplate \subseteq SettlementContent
  BY DEF AuditMerchantTemplate, SalesmanMerchantAudit, InvitePassTemplate,
         InviterMerchantAudited, MonthBillTemplate, MonthBillContent, CommitInfoTemplate,
         WaitToBeAudited, BeApprovedTemplate, AuditedSuccess, NotBeApprovedTemplate,
         AuditedFail, RefundSuccessTemplate, OnRefundDone, RefundFailTemplate,
         OnRefundRefused, ReceiveTemplate, OnPaySuccess, SettlementTemplate, SettlementContent
<1>3. \A n \in DOMAIN TemplateMessage : TemplateMessage[n] \subseteq Content[n]
  BY <1>1, <1>2 DEF TemplateMessage, Content
<1>4. QED
  BY <1>3 DEF MessagesAreComplete, IsPushed

LEMMA PushedTells ==
  ASSUME NoticesTypeOK, NEW n \in Notice, NEW p \in Serial, NEW who \in SUBSET Person,
         told' = Pushed(n, p, who)
  PROVE  /\ told' \in [Notice -> [Serial -> [Person -> Nat]]]
         /\ \A m \in Notice, q \in Serial, x \in Person :
              told'[m][q][x] = told[m][q][x] + (IF m = n /\ q = p /\ x \in who THEN 1 ELSE 0)
<1>1. n \in DOMAIN TemplateMessage
  BY DEF Notice, TemplateMessage
<1>2. IsPushed(n)
  BY <1>1, MessagesComplete DEF MessagesAreComplete
<1>3. told \in [Notice -> [Serial -> [Person -> Nat]]]
  BY DEF NoticesTypeOK
<1> DEFINE f == [x \in Person |-> told[n][p][x] + IF x \in who THEN 1 ELSE 0]
<1>4. told' = [told EXCEPT ![n][p] = f]
  BY <1>2, <1>3 DEF Pushed
<1>5. f \in [Person -> Nat]
  BY <1>3
<1>6. \A x \in Person : f[x] = told[n][p][x] + IF x \in who THEN 1 ELSE 0
  OBVIOUS
<1> HIDE DEF f
<1>7. told' \in [Notice -> [Serial -> [Person -> Nat]]]
  BY <1>3, <1>4, <1>5
<1>8. /\ told'[n][p] = f
      /\ \A m \in Notice, q \in Serial : m # n \/ q # p => told'[m][q] = told[m][q]
  BY <1>3, <1>4
<1>9. ASSUME NEW m \in Notice, NEW q \in Serial, NEW x \in Person
      PROVE  told'[m][q][x] = told[m][q][x] + (IF m = n /\ q = p /\ x \in who THEN 1 ELSE 0)
  <2>1. told[m][q][x] \in Nat
    BY <1>3
  <2>2. CASE m = n /\ q = p
    BY <1>6, <1>8, <2>2
  <2>3. CASE m # n \/ q # p
    BY <1>8, <2>1, <2>3
  <2>4. QED
    BY <2>2, <2>3
<1>10. QED
  BY <1>7, <1>9

\* Who is pushed a message about p is at work for its merchant.
LEMMA AdminsAtWork ==
  ASSUME NoticesTypeOK, NEW p \in Serial
  PROVE  /\ MerchantAdmins(payments[p].merchant) \in SUBSET Person
         /\ \A x \in Person : x \in MerchantAdmins(payments[p].merchant) <=> AtWork(x, p)
<1>1. \A x \in Person : staff[x] \in [work : Merchant, status : {"USING", "DISABLED"}]
  BY DEF NoticesTypeOK
<1>2. QED
  BY <1>1 DEF MerchantAdmins, AtWork

\* A process tells, or dies: only what was told, the counts and the deaths change.
LEMMA TellingKeeps ==
  ASSUME NoticesInvariant, NEW t \in Worker, NEW to \in WorkerRow, Goes(t, to),
         to = Free \/ (to.payment \in Serial /\ payments[to.payment].status # "NONE"),
         UNCHANGED <<vars, staff, changed, due, tooLate>>,
         deaths' \in Nat, spoken' \in [Serial -> Nat],
         told' \in [Notice -> [Serial -> [Person -> Nat]]],
         \A n \in Notice, p \in Serial, x \in Person : ToldSoFar(n, p, x)',
         \A p \in Serial : SpokenSoFar(p)'
  PROVE  NoticesInvariant'
<1>1. /\ payments' = payments /\ refunds' = refunds /\ coupons' = coupons
      /\ balance' = balance /\ withdrawable' = withdrawable /\ paidOut' = paidOut
      /\ rows' = rows
      /\ due' = due /\ staff' = staff /\ changed' = changed /\ tooLate' = tooLate
  BY DEF vars
<1>2. TypeOK' /\ Steady
  BY <1>1 DEF NoticesInvariant, TypeOK, Steady
<1>3. /\ worker' \in [Worker -> WorkerRow]
      /\ \A k \in Worker : worker'[k] # Free => payments'[worker'[k].payment].status # "NONE"
  BY <1>1, <1>2, WorkerGoes
<1>4. NoticesTypeOK'
  BY <1>1, <1>3 DEF NoticesInvariant, NoticesTypeOK
<1>5. \A p \in Serial : BookedByStatus(p)'
  BY <1>1 DEF NoticesInvariant, BookedByStatus
<1>6. QED
  BY <1>2, <1>3, <1>4, <1>5 DEF NoticesInvariant

LEMMA TellStaffKeeps ==
  ASSUME NoticesInvariant, NEW t \in Worker, TellStaff(t)
  PROVE  NoticesInvariant'
<1>1. NoticesTypeOK
  BY DEF NoticesInvariant
<1>2. PICK n \in Notice, p \in Serial :
        worker[t] = Telling(n, p) /\ worker[t].notice = n /\ worker[t].payment = p
  BY <1>1, WorkerType DEF TellStaff
<1> DEFINE who == MerchantAdmins(payments[p].merchant)
           to == IF n = "merchant_receive" THEN Doing("speak", p) ELSE Free
<1>3. /\ told' = Pushed(n, p, who) /\ Goes(t, to)
      /\ UNCHANGED <<vars, staff, listening, requests, deaths, changed, due, tooLate,
                     spoken, mute>>
  BY <1>2 DEF TellStaff
<1>4. /\ payments' = payments /\ staff' = staff /\ deaths' = deaths /\ changed' = changed
      /\ due' = due /\ tooLate' = tooLate /\ spoken' = spoken /\ mute' = mute
  BY <1>3 DEF vars
<1>5. /\ who \in SUBSET Person
      /\ \A x \in Person : x \in who <=> AtWork(x, p)
  BY <1>1, AdminsAtWork
<1> HIDE DEF who
<1>6. /\ told' \in [Notice -> [Serial -> [Person -> Nat]]]
      /\ \A m \in Notice, q \in Serial, x \in Person :
           told'[m][q][x] = told[m][q][x] + (IF m = n /\ q = p /\ x \in who THEN 1 ELSE 0)
  BY <1>1, <1>3, <1>5, PushedTells
<1>7. /\ to \in WorkerRow
      /\ to = Free \/ (to.payment \in Serial /\ payments[to.payment].status # "NONE")
  <2>1. payments[p].status # "NONE"
    BY <1>2, WorkerValues DEF NoticesInvariant
  <2>2. Doing("speak", p).payment = p
    BY DEF Doing
  <2>3. QED
    BY <2>1, <2>2, WorkerRows
<1>8. /\ \A m \in Notice, q \in Serial : Going(m, q) \in Nat
      /\ \A q \in Serial : Speaking(q) \in Nat
  BY CountsType
<1>9. /\ \A m \in Notice, q \in Serial :
           Going(m, q)' = Going(m, q) - (IF m = n /\ q = p THEN 1 ELSE 0)
      /\ \A q \in Serial :
           Speaking(q)' = Speaking(q) + (IF n = "merchant_receive" /\ q = p THEN 1 ELSE 0)
  <2>1. /\ \A m \in Notice, q \in Serial :
             Going(m, q)' = Going(m, q) - (IF worker[t] = Telling(m, q) THEN 1 ELSE 0)
                                        + (IF to = Telling(m, q) THEN 1 ELSE 0)
        /\ \A q \in Serial :
             Speaking(q)' = Speaking(q) - (IF worker[t] = Doing("speak", q) THEN 1 ELSE 0)
                                        + (IF to = Doing("speak", q) THEN 1 ELSE 0)
    BY <1>1, <1>3, CountsMove
  <2>2. /\ \A m, q : worker[t] = Telling(m, q) <=> m = n /\ q = p
        /\ \A q : worker[t] # Doing("speak", q)
        /\ \A m, q : to # Telling(m, q)
        /\ \A q : to = Doing("speak", q) <=> n = "merchant_receive" /\ q = p
    BY <1>2, WorkerValues
  <2>3. QED
    BY <1>8, <2>1, <2>2
<1>10. ASSUME NEW m \in Notice, NEW q \in Serial, NEW x \in Person
       PROVE  ToldSoFar(m, q, x)'
  <2>1. ToldSoFar(m, q, x)
    BY DEF NoticesInvariant
  <2>2. /\ Owed(m, q)' = Owed(m, q) /\ Owed(m, q) \in Nat
        /\ told[m][q][x] \in Nat /\ Going(m, q) \in Nat
    BY <1>1, <1>4, <1>8 DEF Owed, NoticesTypeOK
  <2>3. AtWork(x, q)' <=> AtWork(x, q)
    BY <1>4 DEF AtWork
  <2>4. CASE m = n /\ q = p
    <3>1. /\ told'[m][q][x] = told[m][q][x] + (IF AtWork(x, q) THEN 1 ELSE 0)
          /\ Going(m, q)' = Going(m, q) - 1
      BY <1>5, <1>6, <1>9, <2>4
    <3>2. QED
      BY <1>4, <2>1, <2>2, <2>3, <3>1 DEF ToldSoFar
  <2>5. CASE ~(m = n /\ q = p)
    <3>1. told'[m][q][x] = told[m][q][x] /\ Going(m, q)' = Going(m, q)
      BY <1>6, <1>9, <2>2, <2>5
    <3>2. QED
      BY <1>4, <2>1, <2>2, <2>3, <3>1 DEF ToldSoFar
  <2>6. QED
    BY <2>4, <2>5
<1>11. ASSUME NEW q \in Serial PROVE SpokenSoFar(q)'
  <2>1. SpokenSoFar(q) /\ "merchant_receive" \in Notice
    BY DEF NoticesInvariant, Notice
  <2>2. Going("merchant_receive", q)' + Speaking(q)' = Going("merchant_receive", q) + Speaking(q)
    BY <1>8, <1>9, <2>1
  <2>3. /\ Going("merchant_receive", q) \in Nat /\ Speaking(q) \in Nat
        /\ Going("merchant_receive", q)' \in Int /\ Speaking(q)' \in Int
    BY <1>8, <1>9, <2>1
  <2>4. spoken[q] \in Nat /\ due["merchant_receive"][q] \in Nat
    BY <1>1, <2>1 DEF NoticesTypeOK
  <2>5. QED
    BY <1>4, <2>1, <2>2, <2>3, <2>4 DEF SpokenSoFar
<1>12. deaths' \in Nat /\ spoken' \in [Serial -> Nat]
  BY <1>1, <1>4 DEF NoticesTypeOK
<1>13. UNCHANGED <<vars, staff, changed, due, tooLate>>
  BY <1>3
<1> HIDE DEF to
<1>14. QED
  BY <1>3, <1>6, <1>7, <1>10, <1>11, <1>12, <1>13, TellingKeeps

\* The end of a process that spoke, or could not
LEMMA SpokenKeeps ==
  ASSUME NoticesInvariant, NEW t \in Worker, NEW p \in Serial,
         worker[t] = Doing("speak", p), Goes(t, Free),
         UNCHANGED <<vars, staff, deaths, changed, due, tooLate, told>>,
         spoken' \in [Serial -> Nat],
         \A q \in Serial : q # p => spoken'[q] = spoken[q] /\ (q \in mute' <=> q \in mute),
         \/ spoken'[p] = spoken[p] + 1 /\ (p \in mute' <=> p \in mute)
         \/ spoken'[p] = spoken[p] /\ p \in mute'
  PROVE  NoticesInvariant'
<1>1. NoticesTypeOK
  BY DEF NoticesInvariant
<1>2. /\ payments' = payments /\ staff' = staff /\ deaths' = deaths /\ changed' = changed
      /\ due' = due /\ tooLate' = tooLate /\ told' = told
  BY DEF vars
<1>3. /\ \A m \in Notice, q \in Serial : Going(m, q) \in Nat
      /\ \A q \in Serial : Speaking(q) \in Nat
  BY CountsType
<1>4. /\ \A m \in Notice, q \in Serial : Going(m, q)' = Going(m, q)
      /\ \A q \in Serial : Speaking(q)' = Speaking(q) - (IF q = p THEN 1 ELSE 0)
  <2>1. /\ \A m \in Notice, q \in Serial :
             Going(m, q)' = Going(m, q) - (IF worker[t] = Telling(m, q) THEN 1 ELSE 0)
                                        + (IF Free = Telling(m, q) THEN 1 ELSE 0)
        /\ \A q \in Serial :
             Speaking(q)' = Speaking(q) - (IF worker[t] = Doing("speak", q) THEN 1 ELSE 0)
                                        + (IF Free = Doing("speak", q) THEN 1 ELSE 0)
    BY <1>1, CountsMove
  <2>2. /\ \A m, q : worker[t] # Telling(m, q)
        /\ \A q : worker[t] = Doing("speak", q) <=> q = p
        /\ \A m, q : Free # Telling(m, q) /\ Free # Doing("speak", q)
    BY WorkerValues
  <2>3. QED
    BY <1>3, <2>1, <2>2
<1>5. ASSUME NEW m \in Notice, NEW q \in Serial, NEW x \in Person
      PROVE  ToldSoFar(m, q, x)'
  <2>1. ToldSoFar(m, q, x)
    BY DEF NoticesInvariant
  <2>2. Owed(m, q)' = Owed(m, q)
    BY <1>2 DEF Owed
  <2>3. AtWork(x, q)' <=> AtWork(x, q)
    BY <1>2 DEF AtWork
  <2>4. QED
    BY <1>2, <1>4, <2>1, <2>2, <2>3 DEF ToldSoFar
<1>6. ASSUME NEW q \in Serial PROVE SpokenSoFar(q)'
  <2>1. SpokenSoFar(q) /\ "merchant_receive" \in Notice
    BY DEF NoticesInvariant, Notice
  <2>2. Going("merchant_receive", q)' = Going("merchant_receive", q)
    BY <1>4, <2>1
  <2>3. Going("merchant_receive", q) \in Nat /\ Speaking(q) \in Nat
    BY <1>3, <2>1
  <2>4. /\ spoken[q] \in Nat /\ due["merchant_receive"][q] \in Nat
        /\ due'["merchant_receive"][q] = due["merchant_receive"][q]
        /\ deaths' = deaths
    BY <1>1, <1>2, <2>1 DEF NoticesTypeOK
  <2>5. CASE q = p
    <3>1. Speaking(q)' = Speaking(q) - 1
      BY <1>4, <2>5
    <3>2. \/ spoken'[q] = spoken[q] + 1 /\ (q \in mute' <=> q \in mute)
          \/ spoken'[q] = spoken[q] /\ q \in mute'
      BY <2>5
    <3>3. QED
      BY <2>1, <2>2, <2>3, <2>4, <3>1, <3>2 DEF SpokenSoFar
  <2>6. CASE q # p
    <3>1. Speaking(q)' = Speaking(q)
      BY <1>4, <2>3, <2>6
    <3>2. spoken'[q] = spoken[q] /\ (q \in mute' <=> q \in mute)
      BY <2>6
    <3>3. QED
      BY <2>1, <2>2, <2>3, <2>4, <3>1, <3>2 DEF SpokenSoFar
  <2>7. QED
    BY <2>5, <2>6
<1>7. deaths' \in Nat /\ told' \in [Notice -> [Serial -> [Person -> Nat]]]
  BY <1>1, <1>2 DEF NoticesTypeOK
<1>8. Free \in WorkerRow
  BY WorkerRows
<1>9. UNCHANGED <<vars, staff, changed, due, tooLate>>
  OBVIOUS
<1>10. QED
  BY <1>5, <1>6, <1>7, <1>8, <1>9, TellingKeeps

LEMMA SendVoiceKeeps ==
  ASSUME NoticesInvariant, NEW t \in Worker, SendVoice(t) \/ VoiceFails(t)
  PROVE  NoticesInvariant'
<1>1. NoticesTypeOK /\ worker[t].pc = "speak"
  BY DEF NoticesInvariant, SendVoice, VoiceFails
<1>2. PICK p \in Serial : worker[t] = Doing("speak", p) /\ worker[t].payment = p
  BY <1>1, WorkerType
<1>3. /\ Goes(t, Free)
      /\ UNCHANGED <<vars, staff, deaths, changed, due, tooLate, told>>
      /\ \/ spoken' = [spoken EXCEPT ![p] = spoken[p] + 1] /\ mute' = mute
         \/ spoken' = [spoken EXCEPT ![p] = spoken[p] + 0] /\ mute' = mute \cup {p}
         \/ spoken' = spoken /\ mute' = mute \cup {p}
  <2>1. CASE SendVoice(t)
    <3> DEFINE heard == payments[p].merchant \in listening
    <3>1. /\ spoken' = [spoken EXCEPT ![p] = @ + IF heard THEN 1 ELSE 0]
          /\ mute' = IF heard THEN mute ELSE mute \cup {p}
          /\ Goes(t, Free)
          /\ UNCHANGED <<vars, staff, deaths, changed, due, tooLate, told>>
      BY <1>2, <2>1 DEF SendVoice
    <3> HIDE DEF heard
    <3>2. CASE heard
      BY <3>1, <3>2
    <3>3. CASE ~heard
      BY <3>1, <3>3
    <3>4. QED
      BY <3>2, <3>3
  <2>2. CASE VoiceFails(t)
    BY <1>2, <2>2 DEF VoiceFails
  <2>3. QED
    BY <2>1, <2>2
<1>4. spoken \in [Serial -> Nat]
  BY <1>1 DEF NoticesTypeOK
<1>5. /\ spoken' \in [Serial -> Nat]
      /\ \A q \in Serial : q # p => spoken'[q] = spoken[q] /\ (q \in mute' <=> q \in mute)
      /\ \/ spoken'[p] = spoken[p] + 1 /\ (p \in mute' <=> p \in mute)
         \/ spoken'[p] = spoken[p] /\ p \in mute'
  <2>1. CASE spoken' = [spoken EXCEPT ![p] = spoken[p] + 1] /\ mute' = mute
    BY <1>4, <2>1
  <2>2. CASE spoken' = [spoken EXCEPT ![p] = spoken[p] + 0] /\ mute' = mute \cup {p}
    BY <1>4, <2>2
  <2>3. CASE spoken' = spoken /\ mute' = mute \cup {p}
    BY <1>4, <2>3
  <2>4. QED
    BY <1>3, <2>1, <2>2, <2>3
<1>6. QED
  BY <1>2, <1>3, <1>5, SpokenKeeps

LEMMA DiesKeeps ==
  ASSUME NoticesInvariant, NEW t \in Worker, Dies(t)
  PROVE  NoticesInvariant'
<1>1. NoticesTypeOK
  BY DEF NoticesInvariant
<1>2. /\ Goes(t, Free) /\ deaths' = deaths + 1
      /\ UNCHANGED <<vars, staff, listening, requests, changed, due, tooLate, spoken, mute>>
  BY DEF Dies
<1>3. /\ payments' = payments /\ staff' = staff /\ changed' = changed
      /\ due' = due /\ tooLate' = tooLate /\ spoken' = spoken /\ mute' = mute
  BY <1>2 DEF vars
<1>4. deaths' \in Nat /\ deaths' # 0
  <2>1. deaths \in Nat
    BY <1>1 DEF NoticesTypeOK
  <2>2. QED
    BY <1>2, <2>1
<1>5. /\ \A m \in Notice, q \in Serial : Going(m, q) \in Nat
      /\ \A q \in Serial : Speaking(q) \in Nat
  BY CountsType
<1>6. /\ \A m \in Notice, q \in Serial :
           Going(m, q)' = Going(m, q) - (IF worker[t] = Telling(m, q) THEN 1 ELSE 0)
      /\ \A q \in Serial : Speaking(q)' <= Speaking(q) /\ Speaking(q)' \in Int
  <2>1. /\ \A m \in Notice, q \in Serial :
             Going(m, q)' = Going(m, q) - (IF worker[t] = Telling(m, q) THEN 1 ELSE 0)
                                        + (IF Free = Telling(m, q) THEN 1 ELSE 0)
        /\ \A q \in Serial :
             Speaking(q)' = Speaking(q) - (IF worker[t] = Doing("speak", q) THEN 1 ELSE 0)
                                        + (IF Free = Doing("speak", q) THEN 1 ELSE 0)
    BY <1>1, <1>2, CountsMove
  <2>2. \A m, q : Free # Telling(m, q) /\ Free # Doing("speak", q)
    BY WorkerValues
  <2>3. QED
    BY <1>5, <2>1, <2>2
<1>7. /\ told' \in [Notice -> [Serial -> [Person -> Nat]]]
      /\ \A m \in Notice, q \in Serial, x \in Person :
           \/ told'[m][q][x] = told[m][q][x]
           \/ /\ told'[m][q][x] = told[m][q][x] + 1
              /\ worker[t] = Telling(m, q) /\ AtWork(x, q)
  <2>1. CASE told' = told
    BY <1>1, <2>1 DEF NoticesTypeOK
  <2>2. CASE /\ worker[t].pc = "tell"
             /\ \E who \in SUBSET MerchantAdmins(payments[worker[t].payment].merchant) :
                  told' = Pushed(worker[t].notice, worker[t].payment, who)
    <3>1. PICK n \in Notice, p \in Serial :
            worker[t] = Telling(n, p) /\ worker[t].notice = n /\ worker[t].payment = p
      BY <1>1, <2>2, WorkerType
    <3>2. PICK who \in SUBSET MerchantAdmins(payments[p].merchant) : told' = Pushed(n, p, who)
      BY <2>2, <3>1
    <3>3. who \in SUBSET Person /\ \A x \in who : AtWork(x, p)
      BY <1>1, <3>2, AdminsAtWork
    <3>4. /\ told' \in [Notice -> [Serial -> [Person -> Nat]]]
          /\ \A m \in Notice, q \in Serial, x \in Person :
               told'[m][q][x] = told[m][q][x] + (IF m = n /\ q = p /\ x \in who THEN 1 ELSE 0)
      BY <1>1, <3>2, <3>3, PushedTells
    <3>5. \A m \in Notice, q \in Serial, x \in Person : told[m][q][x] \in Nat
      BY <1>1 DEF NoticesTypeOK
    <3>6. QED
      BY <3>1, <3>3, <3>4, <3>5
  <2>3. QED
    BY <2>1, <2>2 DEF Dies
<1>8. ASSUME NEW m \in Notice, NEW q \in Serial, NEW x \in Person
      PROVE  ToldSoFar(m, q, x)'
  <2>1. ToldSoFar(m, q, x)
    BY DEF NoticesInvariant
  <2>2. Owed(m, q)' = Owed(m, q) /\ Owed(m, q) \in Nat /\ told[m][q][x] \in Nat
    BY <1>1, <1>3 DEF Owed, NoticesTypeOK
  <2>3. AtWork(x, q)' <=> AtWork(x, q)
    BY <1>3 DEF AtWork
  <2>4. Going(m, q)' = Going(m, q) - (IF worker[t] = Telling(m, q) THEN 1 ELSE 0)
        /\ Going(m, q) \in Nat
    BY <1>5, <1>6
  <2>5. \/ told'[m][q][x] = told[m][q][x]
        \/ /\ told'[m][q][x] = told[m][q][x] + 1
           /\ worker[t] = Telling(m, q) /\ AtWork(x, q)
    BY <1>7
  <2>6. told'[m][q][x] + Going(m, q)' <= Owed(m, q)'
    BY <2>1, <2>2, <2>4, <2>5 DEF ToldSoFar
  <2>7. x \notin changed /\ ~AtWork(x, q) => told'[m][q][x] = 0
    BY <2>1, <2>5 DEF ToldSoFar
  <2>8. QED
    BY <1>3, <1>4, <2>3, <2>6, <2>7 DEF ToldSoFar
<1>9. ASSUME NEW q \in Serial PROVE SpokenSoFar(q)'
  <2>1. SpokenSoFar(q) /\ "merchant_receive" \in Notice
    BY DEF NoticesInvariant, Notice
  <2>2. /\ Going("merchant_receive", q)' <= Going("merchant_receive", q)
        /\ Going("merchant_receive", q)' \in Int /\ Going("merchant_receive", q) \in Nat
    BY <1>5, <1>6, <2>1
  <2>3. Speaking(q)' <= Speaking(q) /\ Speaking(q)' \in Int /\ Speaking(q) \in Nat
    BY <1>5, <1>6
  <2>4. spoken[q] \in Nat /\ due["merchant_receive"][q] \in Nat
    BY <1>1, <2>1 DEF NoticesTypeOK
  <2>5. QED
    BY <1>3, <1>4, <2>1, <2>2, <2>3, <2>4 DEF SpokenSoFar
<1>10. Free \in WorkerRow /\ spoken' \in [Serial -> Nat]
  BY <1>1, <1>3, WorkerRows DEF NoticesTypeOK
<1>11. UNCHANGED <<vars, staff, changed, due, tooLate>>
  BY <1>2
<1>12. QED
  BY <1>2, <1>4, <1>7, <1>8, <1>9, <1>10, <1>11, TellingKeeps

LEMMA CountsStay ==
  ASSUME worker' = worker
  PROVE  /\ \A n \in Notice, p \in Serial : Going(n, p)' = Going(n, p)
         /\ \A p \in Serial : Speaking(p)' = Speaking(p)
  BY DEF Going, Speaking, Holding

\* Who is added or removed counts no longer among those who were there all along.
LEMMA StaffChangesKeeps ==
  ASSUME NoticesInvariant, NEW x \in Person, StaffChanges(x)
  PROVE  NoticesInvariant'
<1>1. NoticesTypeOK
  BY DEF NoticesInvariant
<1>2. /\ changed' = changed \cup {x}
      /\ UNCHANGED <<vars, worker, listening, requests, deaths, due, tooLate, told, spoken, mute>>
  BY DEF StaffChanges
<1>3. PICK m \in Merchant, status \in {"USING", "DISABLED"} :
        staff' = [staff EXCEPT ![x] = [work |-> m, status |-> status]]
  BY DEF StaffChanges
<1>4. /\ payments' = payments /\ refunds' = refunds /\ coupons' = coupons
      /\ balance' = balance /\ withdrawable' = withdrawable /\ paidOut' = paidOut
      /\ rows' = rows
      /\ worker' = worker /\ deaths' = deaths /\ due' = due /\ tooLate' = tooLate
      /\ told' = told /\ spoken' = spoken /\ mute' = mute
  BY <1>2 DEF vars
<1>5. /\ \A n \in Notice, p \in Serial : Going(n, p)' = Going(n, p)
      /\ \A p \in Serial : Speaking(p)' = Speaking(p)
  BY <1>4, CountsStay
<1>6. /\ staff' \in [Person -> [work : Merchant, status : {"USING", "DISABLED"}]]
      /\ \A y \in Person : y # x => staff'[y] = staff[y]
  <2>1. staff \in [Person -> [work : Merchant, status : {"USING", "DISABLED"}]]
    BY <1>1 DEF NoticesTypeOK
  <2>2. QED
    BY <1>3, <2>1
<1>7. TypeOK'
  BY <1>4 DEF NoticesInvariant, TypeOK
<1>8. NoticesTypeOK'
  BY <1>1, <1>4, <1>6 DEF NoticesTypeOK
<1>9. ASSUME NEW n \in Notice, NEW p \in Serial, NEW y \in Person
      PROVE  ToldSoFar(n, p, y)'
  <2>1. ToldSoFar(n, p, y)
    BY DEF NoticesInvariant
  <2>2. Owed(n, p)' = Owed(n, p)
    BY <1>4 DEF Owed
  <2>3. y \notin changed' => y \notin changed /\ (AtWork(y, p)' <=> AtWork(y, p))
    BY <1>2, <1>4, <1>6 DEF AtWork
  <2>4. QED
    BY <1>4, <1>5, <2>1, <2>2, <2>3 DEF ToldSoFar
<1>10. \A p \in Serial : SpokenSoFar(p)'
  <2>1. "merchant_receive" \in Notice
    BY DEF Notice
  <2>2. QED
    BY <1>4, <1>5, <2>1 DEF NoticesInvariant, SpokenSoFar
<1>11. \A p \in Serial : BookedByStatus(p)'
  BY <1>4 DEF NoticesInvariant, BookedByStatus
<1>12. \A t \in Worker : worker'[t] # Free => payments'[worker'[t].payment].status # "NONE"
  BY <1>4 DEF NoticesInvariant
<1>13. QED
  BY <1>7, <1>8, <1>9, <1>10, <1>11, <1>12 DEF NoticesInvariant

\* Nothing of what the invariant speaks of changes.
LEMMA NothingTold ==
  ASSUME NoticesInvariant,
         UNCHANGED <<vars, staff, worker, deaths, changed, due, tooLate, told, spoken, mute>>
  PROVE  NoticesInvariant'
<1>1. /\ payments' = payments /\ refunds' = refunds /\ coupons' = coupons
      /\ balance' = balance /\ withdrawable' = withdrawable /\ paidOut' = paidOut
      /\ rows' = rows
      /\ worker' = worker /\ deaths' = deaths /\ due' = due /\ tooLate' = tooLate
      /\ staff' = staff /\ changed' = changed
      /\ told' = told /\ spoken' = spoken /\ mute' = mute
  BY DEF vars
<1>2. TypeOK' /\ NoticesTypeOK' /\ Steady
  BY <1>1 DEF NoticesInvariant, TypeOK, NoticesTypeOK, Steady
<1>3. /\ \A n \in Notice, p \in Serial : Going(n, p)' = Going(n, p)
      /\ \A p \in Serial : Speaking(p)' = Speaking(p)
  BY <1>1, CountsStay
<1>4. \A n \in Notice, p \in Serial : Owed(n, p)' = Owed(n, p)
  BY <1>1 DEF Owed
<1>5. \A p \in Serial : BookedByStatus(p)'
  BY <1>1 DEF NoticesInvariant, BookedByStatus
<1>6. \A t \in Worker : worker'[t] # Free => payments'[worker'[t].payment].status # "NONE"
  BY <1>1 DEF NoticesInvariant
<1>7. \A n \in Notice, p \in Serial : Going(n, p)' + Owed(n, p) = Going(n, p) + Owed(n, p)'
  BY <1>3, <1>4
<1>8. QED
  BY <1>1, <1>2, <1>3, <1>5, <1>6, <1>7, LedgerTells

\* Orders are placed and payments unfrozen: nobody is told of that.
LEMMA LedgerMovesKeeps ==
  ASSUME NoticesInvariant, LedgerMoves
  PROVE  NoticesInvariant'
<1>1. /\ worker' = worker /\ deaths' = deaths /\ due' = due /\ tooLate' = tooLate
      /\ staff' = staff /\ changed' = changed
      /\ told' = told /\ spoken' = spoken /\ mute' = mute
  BY DEF LedgerMoves, noticeVars
<1>2. TypeOK /\ NoticesTypeOK /\ payments \in [Serial -> Payment]
  BY DEF NoticesInvariant, TypeOK
<1>3. PICK p \in Serial :
        \/ \E ch \in Channel, m \in Merchant, price \in OrderPrice :
             PlaceOrder(p, ch, m, NoCoupon, price)
        \/ OnPaymentUnfreeze(p)
  BY DEF LedgerMoves
<1>4. /\ TypeOK' /\ Steady
      /\ \A q \in Serial : payments'[q] # payments[q] =>
           \/ payments[q].status = "NONE" /\ payments'[q].status = "UNPAID"
           \/ payments[q].status = "FROZEN" /\ payments'[q].status = "FINISHED"
  <2>1. CASE \E ch \in Channel, m \in Merchant, price \in OrderPrice :
               PlaceOrder(p, ch, m, NoCoupon, price)
    <3>1. PICK ch \in Channel, m \in Merchant, price \in OrderPrice :
            PlaceOrder(p, ch, m, NoCoupon, price)
      BY <2>1
    <3>2. TypeOK'
      BY <1>2, <3>1, PlaceOrderType
    <3>3. /\ payments[p].status = "NONE" /\ payments'[p].status = "UNPAID"
          /\ \A q \in Serial : q # p => payments'[q] = payments[q]
      BY <1>2, <3>1 DEF PlaceOrder
    <3>4. Steady
      BY <3>3 DEF Steady
    <3>5. QED
      BY <3>2, <3>3, <3>4
  <2>2. CASE OnPaymentUnfreeze(p)
    <3>1. TypeOK'
      BY <1>2, <2>2, UnfreezeSharedType, UnfreezePlainType DEF OnPaymentUnfreeze
    <3>2. /\ payments[p].status = "FROZEN"
          /\ payments' = [payments EXCEPT ![p].status = "FINISHED"]
      BY <2>2 DEF OnPaymentUnfreeze, UnfreezeShared, UnfreezePlain
    <3>3. "FINISHED" \in PaymentStatus \ {"NONE"}
      BY DEF PaymentStatus
    <3>4. /\ payments'[p].status = "FINISHED" /\ Steady
          /\ \A q \in Serial : q # p => payments'[q] = payments[q]
      BY <1>2, <3>2, <3>3, StatusMoves
    <3>5. QED
      BY <3>1, <3>2, <3>4
  <2>3. QED
    BY <1>3, <2>1, <2>2
<1>5. NoticesTypeOK'
  BY <1>1, <1>2 DEF NoticesTypeOK
<1>6. /\ \A n \in Notice, q \in Serial : Going(n, q)' = Going(n, q)
      /\ \A q \in Serial : Speaking(q)' = Speaking(q)
  BY <1>1, CountsStay
<1>7. \A n \in Notice, q \in Serial : Owed(n, q)' = Owed(n, q)
  BY <1>1 DEF Owed
<1>8. \A n \in Notice, q \in Serial : Going(n, q)' + Owed(n, q) = Going(n, q) + Owed(n, q)'
  BY <1>6, <1>7
<1>9. ASSUME NEW q \in Serial PROVE BookedByStatus(q)'
  <2>1. BookedByStatus(q)
    BY DEF NoticesInvariant
  <2>2. /\ payments'[q].status \in {"NONE", "UNPAID"} => payments[q].status \in {"NONE", "UNPAID"}
        /\ payments'[q].status # "REFUND" => payments[q].status # "REFUND"
        /\ payments'[q].status = "NONE" => payments[q].status = "NONE"
    BY <1>4
  <2>3. QED
    BY <1>1, <2>1, <2>2 DEF BookedByStatus
<1>10. ASSUME NEW t \in Worker, worker'[t] # Free
       PROVE  payments'[worker'[t].payment].status # "NONE"
  <2>1. worker[t] # Free /\ payments[worker[t].payment].status # "NONE"
    BY <1>1, <1>10 DEF NoticesInvariant
  <2>2. worker[t] \in WorkerRow
    BY <1>2 DEF NoticesTypeOK
  <2>3. worker[t].payment \in Serial
    BY <2>1, <2>2 DEF WorkerRow, Free
  <2>4. QED
    BY <1>1, <1>4, <2>1, <2>3 DEF Steady
<1>11. QED
  BY <1>1, <1>4, <1>5, <1>6, <1>8, <1>9, <1>10, LedgerTells

LEMMA InitNotices == NoticesInit => NoticesInvariant
<1> SUFFICES ASSUME NoticesInit PROVE NoticesInvariant
  OBVIOUS
<1>1. TypeOK
  BY InitTypeOK DEF NoticesInit
<1>2. /\ staff \in [Person -> [work : Merchant, status : {"USING", "DISABLED"}]]
      /\ worker = [t \in Worker |-> Free]
      /\ deaths = 0
      /\ due = [n \in Notice |-> [p \in Serial |-> 0]]
      /\ tooLate = [p \in Serial |-> 0]
      /\ told = [n \in Notice |-> [p \in Serial |-> [x \in Person |-> 0]]]
      /\ spoken = [p \in Serial |-> 0]
  BY DEF NoticesInit
<1>3. NoticesTypeOK
  BY <1>2, WorkerRows DEF NoticesTypeOK
<1>4. /\ \A n \in Notice, p \in Serial : Going(n, p) = 0
      /\ \A p \in Serial : Speaking(p) = 0
  <2>1. \A v : v # Free => {t \in Worker : worker[t] = v} = {}
    BY <1>2
  <2>2. \A v : v # Free => Holding(worker, v) = 0
    BY <2>1, FS_EmptySet DEF Holding
  <2>3. QED
    BY <2>2, WorkerValues DEF Going, Speaking
<1>5. {"merchant_receive", "merchant_refund_success", "merchant_refund_fail"} = Notice
  BY DEF Notice
<1>6. \A p \in Serial : BookedByStatus(p)
  BY <1>2, <1>5 DEF BookedByStatus
<1>7. \A n \in Notice, p \in Serial : Owed(n, p) = 0
  BY <1>2 DEF Owed
<1>8. \A n \in Notice, p \in Serial, x \in Person : ToldSoFar(n, p, x)
  BY <1>2, <1>4, <1>7 DEF ToldSoFar
<1>9. \A p \in Serial : SpokenSoFar(p)
  BY <1>2, <1>4, <1>5 DEF SpokenSoFar
<1>10. QED
  BY <1>1, <1>2, <1>3, <1>6, <1>8, <1>9 DEF NoticesInvariant

LEMMA NextNotices ==
  NoticesInvariant /\ [NoticesNext]_<<vars, noticeVars>> => NoticesInvariant'
<1> SUFFICES ASSUME NoticesInvariant, [NoticesNext]_<<vars, noticeVars>>
             PROVE  NoticesInvariant'
  OBVIOUS
<1>1. CASE LedgerMoves
  BY <1>1, LedgerMovesKeeps
<1>2. ASSUME NEW t \in Worker, WorkerStep(t) PROVE NoticesInvariant'
  <2>1. CASE \E p \in Serial : WechatPaymentCallback(t, p) \/ AlipayPaymentCallback(t, p)
    BY <2>1, PaidKeeps
  <2>2. CASE \E p \in Serial : AskRefund(t, p)
    BY <2>2, AskRefundKeeps
  <2>3. CASE \E p \in Serial, outcome \in {"SUCCESS", "ABNORMAL"} :
               WechatRefundCallback(t, p, outcome)
    BY <2>3, RefundNewsKeeps
  <2>4. CASE \E p \in Serial, answer \in {"PROCESSING", "SUCCESS", "ABNORMAL"} :
               RefundStatusSync(t, p, answer)
    BY <2>4, RefundNewsKeeps
  <2>5. CASE BeginRefund(t)
    BY <2>5, BeginRefundKeeps
  <2>6. CASE FinishRefund(t)
    BY <2>6, FinishRefundKeeps
  <2>7. CASE TellStaff(t)
    BY <2>7, TellStaffKeeps
  <2>8. CASE SendVoice(t) \/ VoiceFails(t)
    BY <2>8, SendVoiceKeeps
  <2>9. CASE Dies(t)
    BY <2>9, DiesKeeps
  <2>10. QED
    BY <1>2, <2>1, <2>2, <2>3, <2>4, <2>5, <2>6, <2>7, <2>8, <2>9 DEF WorkerStep
<1>3. ASSUME NEW x \in Person, StaffChanges(x) PROVE NoticesInvariant'
  BY <1>3, StaffChangesKeeps
<1>4. ASSUME NEW m \in Merchant, Connect(m) \/ Disconnect(m) PROVE NoticesInvariant'
  <2>1. UNCHANGED <<vars, staff, worker, deaths, changed, due, tooLate, told, spoken, mute>>
    BY <1>4 DEF Connect, Disconnect
  <2>2. QED
    BY <2>1, NothingTold
<1>5. CASE UNCHANGED <<vars, noticeVars>>
  <2>1. UNCHANGED <<vars, staff, worker, deaths, changed, due, tooLate, told, spoken, mute>>
    BY <1>5 DEF noticeVars
  <2>2. QED
    BY <2>1, NothingTold
<1>6. QED
  BY <1>1, <1>2, <1>3, <1>4, <1>5 DEF NoticesNext

\* When no process is about a payment, nothing about it is left to be told.
LEMMA IdlePayment ==
  ASSUME NoticesInvariant, NEW p \in Serial, ~Busy(p)
  PROVE  Speaking(p) = 0 /\ \A n \in Notice : Going(n, p) = 0
<1>1. \A t \in Worker : worker[t] = Free \/ worker[t].payment # p
  BY DEF Busy
<1>2. /\ Doing("speak", p).payment = p /\ Doing("speak", p) # Free
      /\ \A n : Telling(n, p).payment = p /\ Telling(n, p) # Free
  BY WorkerValues DEF Doing, Telling
<1>3. /\ {t \in Worker : worker[t] = Doing("speak", p)} = {}
      /\ \A n : {t \in Worker : worker[t] = Telling(n, p)} = {}
  BY <1>1, <1>2
<1>4. QED
  BY <1>3, FS_EmptySet DEF Going, Speaking, Holding

\* The staff of a merchant are told of its payments exactly what was booked:
\* nobody is told more, and nobody who is at work all along misses a message
\* unless a process died; the payment is spoken once; and no message lacks a
\* field (the callbacks, the refund poll and request, MerchantMessageSender and
\* async_push_template_message), for any staff, processes and payments.
THEOREM NoticesTrueCorrect ==
  NoticesInit /\ [][NoticesNext]_<<vars, noticeVars>> => []NoticesAreTrue
<1>1. NoticesInvariant => NoticesAreTrue
  <2> SUFFICES ASSUME NoticesInvariant PROVE NoticesAreTrue
    OBVIOUS
  <2>1. NoticesTypeOK
    BY DEF NoticesInvariant
  <2>2. /\ \A n \in Notice, p \in Serial : Going(n, p) \in Nat
        /\ \A p \in Serial : Speaking(p) \in Nat
    BY CountsType
  <2>3. /\ \A n \in Notice, p \in Serial : Owed(n, p) \in Nat /\ due[n][p] \in Nat
        /\ \A n \in Notice, p \in Serial, x \in Person : told[n][p][x] \in Nat
        /\ \A p \in Serial : spoken[p] \in Nat
    BY <2>1 DEF NoticesTypeOK, Owed
  <2>4. {"merchant_receive", "merchant_refund_success", "merchant_refund_fail"} = Notice
    BY DEF Notice
  <2>5. ASSUME NEW n \in Notice, NEW p \in Serial, NEW x \in Person
        PROVE  /\ told[n][p][x] <= Owed(n, p)
               /\ n # "merchant_refund_fail" => due[n][p] <= 1
               /\ n = "merchant_refund_success" /\ told[n][p][x] > 0 => payments[p].status = "REFUND"
    <3>1. ToldSoFar(n, p, x) /\ BookedByStatus(p)
      BY DEF NoticesInvariant
    <3>2. told[n][p][x] <= Owed(n, p)
      BY <2>2, <2>3, <3>1 DEF ToldSoFar
    <3>3. n # "merchant_refund_fail" => due[n][p] <= 1
      BY <2>4, <3>1 DEF BookedByStatus
    <3>4. n = "merchant_refund_success" /\ payments[p].status # "REFUND" => Owed(n, p) = 0
      BY <2>3, <3>1 DEF BookedByStatus, Owed
    <3>5. QED
      BY <2>3, <3>2, <3>3, <3>4
  <2>6. ToldIsBooked
    BY <2>5 DEF ToldIsBooked
  <2>7. StaffAreTold
    <3> SUFFICES ASSUME NEW n \in Notice, NEW p \in Serial, NEW x \in Person \ changed
                 PROVE  IF AtWork(x, p)
                        THEN deaths = 0 /\ ~Busy(p) => told[n][p][x] = Owed(n, p)
                        ELSE told[n][p][x] = 0
      BY DEF StaffAreTold, AtWork
    <3>1. ToldSoFar(n, p, x)
      BY DEF NoticesInvariant
    <3>2. ~Busy(p) => Going(n, p) = 0
      BY IdlePayment
    <3>3. QED
      BY <2>3, <3>1, <3>2 DEF ToldSoFar
  <2>8. VoicesAreHeard
    <3> SUFFICES ASSUME NEW p \in Serial
                 PROVE  /\ spoken[p] <= due["merchant_receive"][p]
                        /\ deaths = 0 /\ ~Busy(p) /\ p \notin mute =>
                             spoken[p] = due["merchant_receive"][p]
      BY DEF VoicesAreHeard
    <3>1. SpokenSoFar(p) /\ "merchant_receive" \in Notice
      BY <2>4 DEF NoticesInvariant
    <3>2. ~Busy(p) => Going("merchant_receive", p) = 0 /\ Speaking(p) = 0
      BY <3>1, IdlePayment
    <3>3. QED
      BY <2>2, <2>3, <3>1, <3>2 DEF SpokenSoFar
  <2>9. QED
    BY <2>6, <2>7, <2>8, MessagesComplete DEF NoticesAreTrue
<1>2. QED
  BY <1>1, InitNotices, NextNotices, PTL

=============================================================================
