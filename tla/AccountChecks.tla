--------------------------- MODULE AccountChecks ----------------------------
(***************************************************************************)
(* How marketers' accounts are checked.  An Alipay account is checked by a *)
(* small transfer (CheckAlipayAccountView.check_alipay_account), a bank    *)
(* account by a service (VerifyAccountHandler).  Both cost money, so both  *)
(* are limited by counters in redis.  Every command on redis is a step of  *)
(* its own, and other workers go on between any two of them.               *)
(*                                                                         *)
(* The key of a day's counter outlives its day and is kept for good here.  *)
(* Bank limits expire with the hour; in the last second of it SET refuses  *)
(* the expiry 0 and nothing happens.                                       *)
(***************************************************************************)
EXTENDS Integers, Sequences, FiniteSets

CONSTANTS
  Thread,            \* web workers
  Marketer,          \* who asks, by unionid
  AlipayAccount,     \* account_number and account_name
  BankAccount,       \* bank_name, bank_card_number and real_name
  RightAccount,      \* the bank accounts that exist as described
  MaxTimes,          \* UNIONID_LIMIT['max_times']
  LimitHours,        \* UNIONID_LIMIT['limit_seconds']
  MaxRequestOneDay,  \* MAX_REQUEST_ONE_DAY
  MaxAnHour,         \* MAX_VERIFY_ACCOUNT_REQUEST_AN_HOUR
  HoursADay,
  MaxNow,            \* bound: hours 0..MaxNow pass
  MaxRequests,       \* bound: requests that are begun
  MaxCrashes         \* bound: workers that die

ASSUME CheckAssumption ==
  /\ RightAccount \subseteq BankAccount
  /\ {MaxTimes, LimitHours, MaxRequestOneDay, MaxAnHour, HoursADay} \subseteq Nat \ {0}
  /\ {MaxNow, MaxRequests, MaxCrashes} \subseteq Nat
  /\ IsFiniteSet(Thread)

VARIABLES
  now,       \* the time in hours
  worker,    \* what each worker is doing
  begun,     \* number of requests so far
  crashes,   \* number of workers that died
  paid,      \* the FINISHED TransferRecord rows
  overlapped, \* the marketers who asked for a transfer while another was under way
  dayCount,  \* redis: request_record_<day>, 0 when there is no key
  times,     \* redis: the list <unionid>
  limit,     \* redis: verify_account_<unionid>
  rows,      \* the VerifiedBankAccount rows
  admitted,  \* bank checks each marketer was admitted to in this hour ...
  refused,   \* ... and those that were refused
  created,   \* merchants each marketer created in this hour
  behind     \* how far below -1 the hour found the counter of each marketer

alipay == <<paid, overlapped, dayCount, times>>
bank == <<limit, rows, admitted, refused, created, behind>>
checks == <<now, worker, begun, crashes, alipay, bank>>

Never == -1
NoKey == [value |-> 0, lasts |-> -2]
NotChecked == [status |-> "NONE", since |-> 0]
Resting == [pc |-> "idle"]
DayOf(time) == time \div HoursADay

Starts(t) == /\ worker[t] = Resting
             /\ begun < MaxRequests
             /\ begun' = begun + 1
Goes(t, state) == worker' = [worker EXCEPT ![t] = state]
To(t, pc) == Goes(t, [worker[t] EXCEPT !.pc = pc])
Returns(t) == Goes(t, Resting)

-----------------------------------------------------------------------------
(* check_alipay_account *)

InTransfer(t) ==
  worker[t].pc \in {"set", "length", "oldest", "known", "transfer", "count", "pop", "push"}

\* record_request_one_day: the day's counter is read; at the limit,
\* REQUEST_TOO_MANY.
BeginAlipay(t, u, a) ==
  LET n == dayCount[DayOf(now)]
  IN  /\ Starts(t)
      /\ n <= MaxRequestOneDay
      /\ Goes(t, [pc |-> IF n = 0 THEN "set" ELSE "length",
                  user |-> u, account |-> a, at |-> now, length |-> 0])
      /\ overlapped' = IF \E r \in Thread : InTransfer(r) /\ worker[r].user = u
                       THEN overlapped \cup {u} ELSE overlapped
      /\ UNCHANGED <<now, crashes, paid, dayCount, times, bank>>

\* Mutant of SetDay: counting starts at 0.
SetDayToZero(t) ==
  /\ worker[t].pc = "set"
  /\ To(t, "length")
  /\ UNCHANGED <<now, begun, crashes, alipay, bank>>

\* ... and set to 1 when there was none
SetDay(t) ==
  /\ worker[t].pc = "set"
  /\ dayCount' = [dayCount EXCEPT ![DayOf(worker[t].at)] = 1]
  /\ To(t, "length")
  /\ UNCHANGED <<now, begun, crashes, overlapped, paid, times, bank>>

ReadLength(t) ==
  LET n == Len(times[worker[t].user])
  IN  /\ worker[t].pc = "length"
      /\ Goes(t, [worker[t] EXCEPT !.pc = IF n >= MaxTimes THEN "oldest" ELSE "known",
                                   !.length = n])
      /\ UNCHANGED <<now, begun, crashes, alipay, bank>>

\* REQUEST_FREQUENTLY, or an error when the list has become empty
ReadOldest(t) ==
  LET list == times[worker[t].user]
  IN  /\ worker[t].pc = "oldest"
      /\ IF list = << >> \/ worker[t].at < list[1] + LimitHours
         THEN Returns(t) ELSE To(t, "known")
      /\ UNCHANGED <<now, begun, crashes, alipay, bank>>

\* Mutant of Known: the records are not looked at.
NeverKnown(u, a) == FALSE

\* TransferRecordManager.check_transfer_success
Known(u, a) == \E i \in DOMAIN paid : paid[i].user = u /\ paid[i].account = a

CheckKnown(t) ==
  /\ worker[t].pc = "known"
  /\ IF Known(worker[t].user, worker[t].account) THEN Returns(t) ELSE To(t, "transfer")
  /\ UNCHANGED <<now, begun, crashes, alipay, bank>>

\* transfer_to_account: the platform pays, or it cannot or Alipay refuses.
Transfer(t) ==
  LET w == worker[t]
  IN  /\ w.pc = "transfer"
      /\ \/ /\ paid' = Append(paid, [user |-> w.user, account |-> w.account, at |-> w.at])
            /\ To(t, "count")
         \/ /\ Returns(t)
            /\ UNCHANGED paid
      /\ UNCHANGED <<now, begun, crashes, overlapped, dayCount, times, bank>>

\* Mutant of Count: the oldest item is dropped although the list is not full yet.
CountDropsEarly(t) ==
  /\ worker[t].pc = "count"
  /\ dayCount' = [dayCount EXCEPT ![DayOf(worker[t].at)] = @ + 1]
  /\ To(t, IF worker[t].length + 1 >= MaxTimes THEN "pop" ELSE "push")
  /\ UNCHANGED <<now, begun, crashes, overlapped, paid, times, bank>>

Count(t) ==
  /\ worker[t].pc = "count"
  /\ dayCount' = [dayCount EXCEPT ![DayOf(worker[t].at)] = @ + 1]
  /\ To(t, IF worker[t].length + 1 > MaxTimes THEN "pop" ELSE "push")
  /\ UNCHANGED <<now, begun, crashes, overlapped, paid, times, bank>>

\* An error when other workers have emptied the list
Pop(t) ==
  LET u == worker[t].user
  IN  /\ worker[t].pc = "pop"
      /\ \/ times[u] # << >> /\ times' = [times EXCEPT ![u] = Tail(@)] /\ To(t, "push")
         \/ times[u] = << >> /\ UNCHANGED times /\ Returns(t)
      /\ UNCHANGED <<now, begun, crashes, overlapped, paid, dayCount, bank>>

\* Mutant of Push: the item is pushed once more.
PushTwice(t) ==
  /\ worker[t].pc = "push"
  /\ times' = [times EXCEPT ![worker[t].user] = @ \o <<worker[t].at, worker[t].at>>]
  /\ Returns(t)
  /\ UNCHANGED <<now, begun, crashes, overlapped, paid, dayCount, bank>>

Push(t) ==
  /\ worker[t].pc = "push"
  /\ times' = [times EXCEPT ![worker[t].user] = Append(@, worker[t].at)]
  /\ Returns(t)
  /\ UNCHANGED <<now, begun, crashes, overlapped, paid, dayCount, bank>>

-----------------------------------------------------------------------------
(* VerifyAccountHandler *)

Live(u) == limit[u] # NoKey /\ (limit[u].lasts = Never \/ limit[u].lasts >= now)

\* INCR and DECR begin at 0 and without an expiry when there is no key.
Stepped(u, d) == IF Live(u) THEN [limit[u] EXCEPT !.value = @ + d]
                            ELSE [value |-> d, lasts |-> Never]

\* A new account, or one whose check failed an hour ago; for the others the row
\* is the answer.
MayBeChecked(b) == \/ rows[b] = NotChecked
                   \/ rows[b].status = "FAIL" /\ now > rows[b].since

\* verify_account
BeginVerify(t, u, b) ==
  /\ Starts(t)
  /\ MayBeChecked(b)
  /\ Goes(t, [pc |-> "setnx", user |-> u, account |-> b, read |-> rows[b].status])
  /\ UNCHANGED <<now, crashes, alipay, bank>>

Admit(t) ==
  /\ admitted' = [admitted EXCEPT ![worker[t].user] = @ + 1]
  /\ To(t, "ask")

\* record_request_an_hour: SET NX, the first request of the hour ...
FirstOfHour(t) ==
  LET u == worker[t].user
  IN  /\ worker[t].pc = "setnx"
      /\ \/ /\ ~Live(u)
            /\ limit' = [limit EXCEPT ![u] = [value |-> 0, lasts |-> now]]
            /\ Admit(t)
         \/ /\ Live(u)
            /\ To(t, "incr")
            /\ UNCHANGED <<limit, admitted>>
      /\ UNCHANGED <<now, begun, crashes, alipay, rows, refused, created, behind>>

\* Mutant of Within: one more is admitted.
WithinOrAt(n) == n <= MaxAnHour

Within(n) == n < MaxAnHour

\* ... or INCR: admitted, or FREQUENTLY
NextOfHour(t) ==
  LET u == worker[t].user
      key == Stepped(u, 1)
  IN  /\ worker[t].pc = "incr"
      /\ limit' = [limit EXCEPT ![u] = key]
      /\ \/ Within(key.value) /\ Admit(t) /\ UNCHANGED refused
         \/ /\ ~Within(key.value)
            /\ refused' = [refused EXCEPT ![u] = @ + 1]
            /\ Returns(t)
            /\ UNCHANGED admitted
      /\ UNCHANGED <<now, begun, crashes, alipay, rows, created, behind>>

\* The service's verdict on an account
VerdictOn(b) == IF b \in RightAccount THEN "SUCCESS" ELSE "FAIL"

\* Mutant of Recorded: an error of the service (code 3) is a failure, which
\* is how `code == (2 or 3)` reads.
RecordedOrError(b) == {"VERIFYING", VerdictOn(b), "FAIL"}

\* Codes 0, 1 and 2; the others are passed on to the caller.
Recorded(b) == {"VERIFYING", VerdictOn(b)}

\* _record_verify_result saves the row as it was read; a second row of one
\* account is refused by the database.
Save(b, read, status) ==
  rows' = IF read = "NONE"
          THEN IF rows[b] = NotChecked THEN [rows EXCEPT ![b] = [status |-> status, since |-> now]]
                                  ELSE rows
          ELSE [rows EXCEPT ![b].status = status]

\* The service checks (corp_account_verify) and gives a new request number.
Ask(t) ==
  LET b == worker[t].account
  IN  /\ worker[t].pc = "ask"
      /\ \/ \E status \in Recorded(b) : Save(b, worker[t].read, status)
         \/ UNCHANGED rows
      /\ Returns(t)
      /\ UNCHANGED <<now, begun, crashes, alipay, limit, admitted, refused, created, behind>>

\* get_result
BeginQuery(t, b) ==
  /\ Starts(t)
  /\ rows[b] # NotChecked
  /\ Goes(t, [pc |-> "query", account |-> b, read |-> rows[b].status])
  /\ UNCHANGED <<now, crashes, alipay, bank>>

Query(t) ==
  LET b == worker[t].account
  IN  /\ worker[t].pc = "query"
      /\ \/ \E status \in Recorded(b) \ {worker[t].read} : Save(b, worker[t].read, status)
         \/ UNCHANGED rows
      /\ Returns(t)
      /\ UNCHANGED <<now, begun, crashes, alipay, limit, admitted, refused, created, behind>>

\* decr_record_request, when a marketer has created a merchant ...
DecrRecord(t, u) ==
  LET key == Stepped(u, -1)
  IN  /\ Starts(t)
      /\ limit' = [limit EXCEPT ![u] = key]
      /\ created' = [created EXCEPT ![u] = @ + 1]
      /\ IF key.value < 0 THEN Goes(t, [pc |-> "undo", user |-> u]) ELSE Returns(t)
      /\ UNCHANGED <<now, crashes, alipay, rows, admitted, refused, behind>>

\* ... and its correction of a negative value
UndoDecrement(t) ==
  LET u == worker[t].user
  IN  /\ worker[t].pc = "undo"
      /\ limit' = [limit EXCEPT ![u] = Stepped(u, 1)]
      /\ Returns(t)
      /\ UNCHANGED <<now, begun, crashes, alipay, rows, admitted, refused, created, behind>>

-----------------------------------------------------------------------------
WorkerDies(t) ==
  /\ worker[t] # Resting
  /\ crashes < MaxCrashes
  /\ crashes' = crashes + 1
  /\ Returns(t)
  /\ UNCHANGED <<now, begun, alipay, bank>>

Zero == [u \in Marketer |-> 0]

HourPasses ==
  /\ now < MaxNow
  /\ now' = now + 1
  /\ admitted' = Zero /\ refused' = Zero /\ created' = Zero
  /\ behind' = [u \in Marketer |-> IF limit[u].lasts = Never /\ limit[u].value < -1
                                  THEN -1 - limit[u].value ELSE 0]
  /\ UNCHANGED <<worker, begun, crashes, alipay, limit, rows>>

ChecksInit ==
  /\ now = 0 /\ begun = 0 /\ crashes = 0
  /\ worker = [t \in Thread |-> Resting]
  /\ paid = << >>
  /\ overlapped = {}
  /\ dayCount = [d \in 0..DayOf(MaxNow) |-> 0]
  /\ times = [u \in Marketer |-> << >>]
  /\ limit = [u \in Marketer |-> NoKey]
  /\ rows = [b \in BankAccount |-> NotChecked]
  /\ admitted = Zero /\ refused = Zero /\ created = Zero /\ behind = Zero

AlipayStep(t) ==
  \/ \E u \in Marketer, a \in AlipayAccount : BeginAlipay(t, u, a)
  \/ SetDay(t) \/ ReadLength(t) \/ ReadOldest(t) \/ CheckKnown(t)
  \/ Transfer(t) \/ Count(t) \/ Pop(t) \/ Push(t)

BankStep(t) ==
  \/ \E u \in Marketer, b \in BankAccount : BeginVerify(t, u, b)
  \/ FirstOfHour(t) \/ NextOfHour(t) \/ Ask(t)
  \/ \E b \in BankAccount : BeginQuery(t, b)
  \/ Query(t)
  \/ \E u \in Marketer : DecrRecord(t, u)
  \/ UndoDecrement(t)

ChecksNext ==
  \/ \E t \in Thread : AlipayStep(t) \/ BankStep(t) \/ WorkerDies(t)
  \/ HourPasses

ChecksSpec == ChecksInit /\ [][ChecksNext]_checks

-----------------------------------------------------------------------------
(* Properties *)

Pc == {"idle", "set", "length", "oldest", "known", "transfer", "count", "pop", "push",
       "setnx", "incr", "ask", "query", "undo"}

\* Types; the counter of a day is at least 1 once a worker has passed it.
ChecksTypeOK ==
  /\ now \in 0..MaxNow
  /\ \A t \in Thread : worker[t].pc \in Pc
  /\ \A i \in DOMAIN paid : paid[i] \in [user : Marketer, account : AlipayAccount, at : 0..now]
  /\ \A t \in Thread :
       InTransfer(t) /\ worker[t].pc # "set" => dayCount[DayOf(worker[t].at)] >= 1
  /\ \A u \in Marketer : times[u] \in Seq(0..now) /\ limit[u].value \in Int
  /\ rows \in [BankAccount -> [status : {"NONE", "VERIFYING", "SUCCESS", "FAIL"}, since : 0..now]]

PaidTo(u) == {i \in DOMAIN paid : paid[i].user = u}

\* "At most max_times transfers within limit_seconds" (marketer/config.py:38)
\* for a marketer whose requests never overlap, whatever other workers do and
\* although only the oldest item of the list is looked at.  Requests that
\* overlap all pass, and the list stays longer than max_times for good.
TransfersAreLimited ==
  \A u \in Marketer \ overlapped, start \in 0..now :
    crashes = 0 =>
      Cardinality({i \in PaidTo(u) : paid[i].at \in start..(start + LimitHours - 1)}) <= MaxTimes

\* Only transfers count: nobody is refused because of requests that failed or
\* were refused themselves, however the commands on redis interleave.
CountedIsPaid ==
  /\ \A d \in DOMAIN dayCount :
       dayCount[d] <= 1 + Cardinality({i \in DOMAIN paid : DayOf(paid[i].at) = d})
  /\ \A u \in Marketer : Len(times[u]) <= Cardinality(PaidTo(u))

\* A marketer's account is paid for once, unless requests overlap: the record
\* is looked for before the transfer, and a worker that dies keeps it.
PaidOnce ==
  \A u \in Marketer \ overlapped, a \in AlipayAccount :
    Cardinality({i \in PaidTo(u) : paid[i].account = a}) <= 1

\* No marketer is admitted to more bank checks in an hour than the limit and
\* one for each merchant created, whichever way the key came to be.  A counter
\* that has lost its expiry takes decrements into the next hour: one gives
\* nothing away, since the first request of an hour need not be counted, but
\* those of several merchants created at once, before they are corrected, or
\* of workers that died before they corrected them, do.
BankChecksAreLimited == \A u \in Marketer : admitted[u] <= MaxAnHour + created[u] + behind[u]

\* A decided row agrees with the service, although rows are saved as they were
\* read before the service was asked.
VerdictIsRecorded ==
  \A b \in BankAccount : rows[b].status \in {"SUCCESS", "FAIL"} => rows[b].status = VerdictOn(b)

\* A refused marketer is told to try again at the next full hour
\* (verify_account_handler.py:96).  That is so for as long as the key of the
\* limit expires: DECR, and an INCR that comes just after the end of the hour,
\* create it without an expiry, and then it counts for good.
NextHourIsFree ==
  \A u \in Marketer : refused[u] > 0 /\ admitted[u] = 0 => limit[u].lasts = Never

\* Both limits hold, of the transfers and of the checks of bank accounts, and
\* neither counts what was not done.
ChecksAreLimited ==
  /\ ChecksTypeOK
  /\ TransfersAreLimited /\ CountedIsPaid
  /\ BankChecksAreLimited /\ NextHourIsFree

=============================================================================
