---------------------------- MODULE Subscription ----------------------------
(***************************************************************************)
(* The subscription accounts: the access token of one of them, which a     *)
(* timer renews and every push reads from redis, and the replies that the  *)
(* platform's administrators keep for the messages it receives.  WeChat    *)
(* honours the token it issued last.                                       *)
(***************************************************************************)
EXTENDS Naturals, Sequences

CONSTANTS
  Timer,       \* invocations of the timer's function
  Desk,        \* administrators who edit replies
  Word,        \* what people write, and the keys of replies
  Parts(_),    \* the words that a word contains, itself among them
  MaxIssued,   \* tokens WeChat issues
  MaxReplies   \* rows of replies

\* `key in message`: a message contains itself.
ASSUME PartsAssumption == \A word \in Word : word \in Parts(word)

NoToken == 0
Done == [op |-> "DONE"]

VARIABLES
  issued,      \* the token WeChat issued last
  stored,      \* the token in redis, in production and in the test environment
  run,         \* each invocation of the timer
  reply,       \* the rows of replies, by creation
  desk,        \* each administrator's request
  \* history:
  unsure,      \* a refresh of production has failed, or two were under way,
               \* since the last that was alone and succeeded
  removed,     \* rows whose deletion was saved
  undone       \* rows saved as they no longer were

tokenVars == <<issued, stored, run, unsure>>
replyVars == <<reply, desk, removed, undone>>

TokensInit ==
  /\ issued = NoToken
  /\ stored = [prod |-> NoToken, test |-> NoToken]
  /\ run = [t \in Timer |-> Done]
  /\ unsure = FALSE

RepliesInit ==
  /\ reply = <<>>
  /\ desk = [d \in Desk |-> Done]
  /\ removed = {} /\ undone = {}

----------------------------------------------------------------------------
(* Access tokens                                                           *)

Refreshing(t) == run[t] # Done /\ run[t].env = "prod"

\* The timer of an environment asks its server, up to three times.
TimerFires(t, env) ==
  /\ run[t] = Done
  /\ run' = [run EXCEPT ![t] = [op |-> "ASK", env |-> env, calls |-> 1, tries |-> 1,
                                got |-> NoToken]]
  /\ unsure' = (unsure \/ (env = "prod" /\ \E other \in Timer : Refreshing(other)))
  /\ UNCHANGED <<issued, stored, replyVars>>

\* The server gives up: the timer calls again, up to three times, or ends, as
\* it does at once when the answer is lost.
GivenUp(t) ==
  /\ \/ run' = [run EXCEPT ![t] = Done]
     \/ /\ run[t].calls < 3
        /\ run' = [run EXCEPT ![t] = [run[t] EXCEPT !.calls = @ + 1, !.tries = 1]]
  /\ unsure' = (unsure \/ Refreshing(t))

\* Mutant: the loop goes on after a token has come.
AfterToken(t, token) ==
  IF run[t].tries < 3 THEN [run[t] EXCEPT !.tries = @ + 1, !.got = token]
                      ELSE [run[t] EXCEPT !.op = "STORE", !.got = token]

\* A token ends the loop of tries.
WithToken(t, token) == [run[t] EXCEPT !.op = "STORE", !.got = token]

\* The server of production asks WeChat, up to three times in a call.
WeChatIssues(t) ==
  /\ Refreshing(t) /\ run[t].op = "ASK"
  /\ issued < MaxIssued
  /\ issued' = issued + 1
  /\ run' = [run EXCEPT ![t] = WithToken(t, issued + 1)]
  /\ UNCHANGED <<stored, unsure, replyVars>>

\* No answer, or one without a token; WeChat may have issued one all the same.
\* After the third a token of an earlier try, if there is one, would be stored.
WeChatFails(t) ==
  /\ Refreshing(t) /\ run[t].op = "ASK"
  /\ \/ issued' = issued
     \/ issued < MaxIssued /\ issued' = issued + 1
  /\ IF run[t].tries < 3
       THEN run' = [run EXCEPT ![t].tries = @ + 1] /\ UNCHANGED unsure
       ELSE IF run[t].got = NoToken
         THEN GivenUp(t)
         ELSE run' = [run EXCEPT ![t].op = "STORE"] /\ UNCHANGED unsure
  /\ UNCHANGED <<stored, replyVars>>

\* The server of the test environment takes the token of production.
ObtainToken(t) ==
  /\ run[t] # Done /\ run[t].env = "test" /\ run[t].op = "ASK"
  /\ \/ /\ run' = [run EXCEPT ![t] = [@ EXCEPT !.op = "STORE", !.got = stored.prod]]
        /\ UNCHANGED unsure
     \/ GivenUp(t)
  /\ UNCHANGED <<issued, stored, replyVars>>

\* The token is stored and the timer told so, which ends it as well when the
\* answer does not arrive.
StoreToken(t) ==
  /\ run[t].op = "STORE"
  /\ stored' = [stored EXCEPT ![run[t].env] = run[t].got]
  /\ run' = [run EXCEPT ![t] = Done]
  /\ unsure' = (unsure /\ ~(/\ Refreshing(t)
                            /\ ~\E other \in Timer \ {t} : Refreshing(other)
                            /\ run[t].got = issued))
  /\ UNCHANGED <<issued, replyVars>>

----------------------------------------------------------------------------
(* Replies                                                                 *)

Types == {"KEY_WORD", "BE_PAID_ATTENTION", "RECEIVED"}
Rules == {"NOT_MATCH", "PARTIAL", "COMPLETE"}

\* Only the key of a row of type KEY_WORD is ever read; it may be missing.
NoWord == "none"
Keys(type) == IF type = "KEY_WORD" THEN Word \cup {NoWord} ELSE {NoWord}

\* An administrator adds a row.  Any type goes with any rule: the two are checked
\* one by one.  The texts of the replies are not told apart.
CreateReply(type, rule, word) ==
  /\ Len(reply) < MaxReplies
  /\ word \in Keys(type)
  /\ reply' = Append(reply, [type |-> type, rule |-> rule, word |-> word, status |-> "USING"])
  /\ UNCHANGED <<desk, removed, undone, tokenVars>>

\* A request changes the key, the rule and the text of a row of any type, its text
\* alone, or deletes it.
Edits(row) ==
  {[row EXCEPT !.status = "DELETE"]}
    \cup [type : {row.type}, rule : Rules, word : Keys(row.type), status : {row.status}]

\* A row is read to be edited, whatever its status.
EditReply(d, i, row) ==
  /\ desk[d] = Done
  /\ desk' = [desk EXCEPT ![d] = [op |-> "SAVE", id |-> i, seen |-> reply[i], row |-> row]]
  /\ UNCHANGED <<reply, removed, undone, tokenVars>>

SaveReply(d) ==
  /\ desk[d].op = "SAVE"
  /\ LET q == desk[d]
         deletes == q.row.status = "DELETE"
     IN
     /\ reply' = [reply EXCEPT ![q.id] = q.row]
     /\ removed' = IF deletes THEN removed \cup {q.id} ELSE removed
     /\ undone' = IF ~deletes /\ reply[q.id] # q.seen THEN undone \cup {q.id} ELSE undone
     /\ desk' = [desk EXCEPT ![d] = Done]
  /\ UNCHANGED tokenVars

\* Mutant: the oldest row answers.
FirstOf(rows) == {i \in rows : \A j \in rows : i <= j}

\* order_by('-create_time').first()
NewestOf(rows) == {i \in rows : \A j \in rows : i >= j}

InUse(type) == {i \in DOMAIN reply : reply[i].status = "USING" /\ reply[i].type = type}
Ruled(type, rule) == {i \in InUse(type) : reply[i].rule = rule}

\* Replyer.attention_reply: the row, if there is one, that answers a new follower,
\* whatever its rule.
AttentionReply == NewestOf(InUse("BE_PAID_ATTENTION"))

\* Replyer.message_reply: a key that is the message, then one it contains, then
\* the reply to any message.  The search for a key that the message contains ends
\* in a TypeError at a row without one.
MessageReply(word) ==
  LET complete == {i \in Ruled("KEY_WORD", "COMPLETE") : reply[i].word = word}
      partial == {i \in Ruled("KEY_WORD", "PARTIAL") : reply[i].word \in Parts(word) \cup {NoWord}}
  IN IF complete # {} THEN NewestOf(complete)
     ELSE IF partial # {} THEN {i \in NewestOf(partial) : reply[i].word # NoWord}
     ELSE NewestOf(Ruled("RECEIVED", "NOT_MATCH"))

\* MsgFactory: what the account receives; an event of another kind is nothing.
Msg == [type : {"TEXT"}, word : Word] \cup [type : {"SUBSCRIBE", "CLICK", "VIEW", "NONE"}]

\* MsgHandler.get_reply_xml_string: a click in the menu is answered by a fixed
\* text, and what is left by "success".
ReplyTo(msg) ==
  CASE msg.type = "SUBSCRIBE" -> AttentionReply
    [] msg.type = "TEXT"      -> MessageReply(msg.word)
    [] OTHER                  -> {}

\* What the administrators are shown: all the rows with a rule that are not
\* deleted, of any type, and the newest of those of a type without a rule.
KeyWords == {i \in DOMAIN reply : reply[i].status # "DELETE" /\ reply[i].rule # "NOT_MATCH"}
Retrieved(type) ==
  LET rows == {i \in DOMAIN reply : /\ reply[i].status # "DELETE"
                                    /\ reply[i].rule = "NOT_MATCH"
                                    /\ reply[i].type = type}
  IN {i \in rows : \A j \in rows : j <= i}

TokensNext ==
  \E t \in Timer :
    \/ \E env \in {"prod", "test"} : TimerFires(t, env)
    \/ WeChatIssues(t) \/ WeChatFails(t) \/ ObtainToken(t) \/ StoreToken(t)

RepliesNext ==
  \/ \E type \in Types, rule \in Rules, word \in Word \cup {NoWord} : CreateReply(type, rule, word)
  \/ \E d \in Desk :
       \/ \E i \in DOMAIN reply : \E row \in Edits(reply[i]) : EditReply(d, i, row)
       \/ SaveReply(d)

----------------------------------------------------------------------------
\* When no refresh is under way, the token that every push of production uses
\* is the one WeChat honours, unless the last refreshes failed for good or ran
\* into each other: a slow one may store its token over a newer one.
NewestTokenIsKept ==
  (\A t \in Timer : ~Refreshing(t)) /\ ~unsure => stored.prod = issued

\* Whatever the account answers, its administrators see in one of their lists; a
\* deleted row answers again only if an edit that had read it before was saved
\* afterwards.  A new follower gets the reply that is shown for followers, unless
\* an edit gave a newer one a rule: it still answers, and is listed with the keys.
\* A message gets a row whose key is the message, if one is listed; otherwise a
\* row whose key it contains; otherwise the reply shown for messages.  Only when
\* a listed row has lost its key may a message that is not itself a key go
\* without an answer.
RepliesAreListed ==
  \A msg \in Msg :
    LET answer == ReplyTo(msg)
        keys == {i \in KeyWords : reply[i].type = "KEY_WORD"}
        exact == {i \in keys : reply[i].rule = "COMPLETE" /\ reply[i].word = msg.word}
        inside == {i \in keys : reply[i].rule = "PARTIAL" /\ reply[i].word \in Parts(msg.word)}
        lost == \E i \in keys : reply[i].word = NoWord
    IN
    /\ answer \cap removed \subseteq undone
    /\ msg.type = "SUBSCRIBE" =>
         \/ answer = Retrieved("BE_PAID_ATTENTION")
         \/ answer # {} /\ answer \subseteq KeyWords \ keys
    /\ msg.type = "TEXT" =>
         IF exact # {} THEN answer # {} /\ answer \subseteq exact
         ELSE IF inside # {} THEN answer \subseteq inside /\ (answer # {} \/ lost)
         ELSE answer = Retrieved("RECEIVED") \/ (answer = {} /\ lost)
=============================================================================
