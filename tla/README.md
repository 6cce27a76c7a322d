# The payment union, specified

This directory holds TLA+ specifications of the server of the payment union
(`src/payserver`), the TLC configurations that check them on small instances
and proofs that TLAPS checks for instances of every size.

The server lets clients pay merchants by WeChat Pay or Alipay through a platform
account. A payment is frozen for some minutes, in which the merchant may refund
it, and then released. A client who paid is granted coupons of merchants nearby;
when such a coupon is used, the platform, the marketer who invited the merchant
(the *inviter*) and the merchant at which the coupon was granted (the
*originator*) share in the sale. Merchants and marketers withdraw what was
released to them; enterprise merchants are settled once a day by a timer.

## 1. Inventory

All state is in MySQL (transaction level READ COMMITTED, no request-wide
transactions), in redis, and at the two providers. Processes are web workers that
serve requests of clients, merchants, marketers, administrators and providers,
celery workers, and timers that call internal views over HTTP.

| component | state | operations | what is hard | correct when |
|---|---|---|---|---|
| Payment ledger (`common/payment`, `common/models.py`, `AccountProxy`) | Payment, Refund, Coupon, Account, Withdraw, Settlement, TransferRecord and Transaction rows | place, cancel, pay, refund (request, fail, succeed), unfreeze, withdraw, transfer, settle | sums over many rows, two channels, coupons that are destroyed and re-created, six rows per unfreeze | frozen and withdrawable money of every account are those of its payments; no overdraft; coupons are conserved; rows explain balances |
| Order, refund and unfreeze processes (`puser/rest`, `puser/tasks.py`, `PaymentManager.refund`) | position of each request, task and timer; orders and refunds at the providers | callbacks, answers, polls, timer runs | notices late, twice or never; answers lost; stale reads; overlapping timers; crashes | the ledger agrees with what the providers did; paid orders are booked, refunds and freezes end |
| Payouts (`withdraw`, `_try_withdraw`, `transfer`) | requests, the lock of an account while the provider pays | ask, lock, pay, commit, roll back | answer lost after the money was sent; new serial number for each attempt | booked = sent while answers arrive, and a trace where they do not |
| Daily settlement (`padmin/query_manage/settlement_query.py`, `timer_manage.py`) | Settlement rows, the list of bills a run has read | timer, settle, mark finished | a timer called twice; withdrawals between reading and settling | a day is settled once, and for no more than was sold |
| Edits of ledger rows (`merchant/serializers.py`, `padmin/serializers.py`) | row images in forms | read, save | `instance.save()` writes every column | an edit changes what it is meant to change |
| Coupon rules and grants (`grant_coupons`, `puser/rest/payment_poll_result.py`) | CouponRule.stock, Payment.coupon_granted | poll the result, grant | conditional updates that are not one transaction | one grant per payment, stock never oversold |
| Row locks (`select_for_update` in `common/payment`) | locks of account, coupon and payment rows | lock, wait | lock orders differ between transactions | no set of transactions waits for itself, or MySQL ends one |
| Account checks (`marketer/views/marketer.py`, `marketer/utils`) | counters and flags in redis, VerifiedBankAccount | check an Alipay or bank account | counters read before and written after a call | limits per marketer, hour and day hold, and end |
| Merchants, staff, audits (`marketer/model_manager.py`, `merchant/views`) | Merchant and MerchantAdmin rows, the requests that have read them | register, audit, modify, set the day, manage; add and remove cashiers | a row is read when a request starts and saved whole when it ends; an auditor decides on a page another request read; a message may not arrive | only audited profiles are in use; every merchant has its administrator; the last word about an audit is true |
| Marketers and their numbers (`marketer/views/marketer.py`, `sms_send.py`) | codes in redis, Marketer.phone | send a code, register, change the number | a code is read, compared and deleted by three commands | a number that was proven belongs to the one who proved it, and a code proves one change |
| Sessions (`common/token_store.py`, the auth modules) | tokens in the cache, rows and counters of administrators | log in, look up, flush | a login saves the row it read before it checked the password; a login of a client fails halfway | wrong passwords are counted, the disabled stay out, a token names its client |
| Notices to merchants (`payment_manager.py`, `wechat_msg_send.py`, `ws_service`) | celery tasks, groups of sockets | push, speak, connect | booked first, told later; processes die between; two requests for one refund | who works for a merchant is told what became of its payments, once |
| Replies and access tokens (`padmin/subscription_account_reply`) | the access token in redis, rows of replies | refresh; add, edit, delete, answer | refreshes that overlap; edits saved over deletions | pushes use the token WeChat honours; what answers is what is listed |
| Reports (`financial_query.py`, `transaction_manager.py`, other managers) | none | query | the same sales counted by eight queries, by different days and tables | they agree, and explain the balances, or it is known what they leave out |
| Provider clients (`common/doclink`) | none | sign, call, parse | which exceptions escape | - |

Timers, migrations, QR code images and deployment are listed in
`PROJECT.json` with the rest.

**Interaction.** A client places an order (a transaction that calls the provider
before it commits), pays at the provider, and the provider calls back; the
callback books the payment. The merchant asks for a refund: one transaction marks
it requested, the provider is called without a transaction, and its answer (at
once for Alipay; by callback, or by the poll of a timer, for WeChat) is booked in
another. The unfreeze timer releases what is still frozen after five minutes.
Withdrawals call the provider inside their transaction, with the account locked.
The settlement timer reads the finished sales of yesterday and takes the money of
enterprise merchants out of the accounts.

## 2. Modules

| module | models | source |
|---|---|---|
| `Shares` | the division of a price, rounding included | `wechat.py:94-96`, `alipay.py:74-76`, `config.py:228-230` |
| `Sums` | sum of a function over 1..n, a recursive function | - |
| `Payments` | **the ledger**: every transaction on payments, refunds, coupons and balances, one action each | `base.py`, `wechat.py`, `alipay.py`, `settlement_query.py:44-111` |
| `Escrow` | abstract: what the ledger promises, without accounts, shares, coupons or channels | - |
| `PaymentsEscrow` | the refinement mapping from `Payments` to `Escrow` | - |
| `Rounding` | how the shares of the next sale are rounded, against the rates | `config.py:228-230` |
| `PaymentSystem` | the ledger among callbacks, answers, polls, timers and crashes | `puser/rest/*`, `puser/tasks.py`, `payment_manager.py` |
| `Payouts` | payouts opened into lock, call and commit | `withdraw`, `transfer` of both channels |
| `Settlement` | days, bills and the settlement timer | `settlement_query.py`, `timer_manage.py` |
| `Treasury` | composes the ledger, `Payouts` and `Settlement` through the locks of accounts | as above |
| `CouponGrant` | the ledger with coupon rules, their stock, and the grant of coupons step by step | `base.py:243-295`, `payment_poll_result.py`, `merchant/views/coupon.py` |
| `CouponDates` | when a coupon is valid, in the four places that decide it | `puser/core/coupon.py`, `payment.py:87-99`, `merchant/serializers.py:278-325`, `base.py:260-272` |
| `RowLocks` | the transactions of the ledger, row lock by row lock | `select_for_update` in `common/payment` |
| `StaleSaves` | the ledger with two forms that save whole rows | `merchant/serializers.py:343-348`, `padmin/serializers.py:269-286` |
| `AccountChecks` | checks of Alipay and bank accounts and their limits in redis, command by command | `marketer/views/marketer.py:271-342`, `marketer/utils`, `transfer_record_manager.py` |
| `Reports` | the ledger and the settlement timer day by day, with the Transaction and Withdraw tables, and every report as an operator over them | `financial_query.py`, `settlement_query.py`, `common/model_manager/*` |
| `Merchants` | merchants and their staff, from registration through audits, changes and disabling; requests that read a row and save it later | `marketer/model_manager.py`, `merchant/views/*`, `merchant/serializers.py` |
| `Phones` | codes by text message, registration of marketers and changes of their number | `sms_send.py`, `marketer/views/marketer.py`, `marketer/serializers` |
| `SignIn` | logins of administrators with their count of failures; tokens of the handsets of clients, staff and marketers | `padmin/serializers.py`, `puser/core/client.py`, `token_store.py` |
| `Subscription` | the access token and its refresh in two environments; replies, their edits and what they answer | `padmin/subscription_account_reply/*` |
| `Notices` | the ledger with what the staff of a merchant are told, by message and by voice | `payment_manager.py`, `puser/rest/*callback*`, `wechat_msg_send.py`, `ws_service` |
| `MC*` | instances for TLC; `MCLedger` joins the ledger, its escrow and the rounding of small prices, `MCAccess` sets `SignIn`, `Phones`, `Subscription` and `Notices` side by side, `MCMarketers` `Merchants` and `AccountChecks` | - |
| `PaymentsProofs` | lemmas on sums; theorems of `Shares` and of `Payments`: types, refunds, coupons | - |
| `LedgerProofs` | theorems of `Payments`: money, the refinement to `Escrow`, the statement of account, rounding | - |
| `SystemProofs` | theorems of `PaymentSystem`; of `RowLocks`: what is written is locked, and what deadlocks | - |
| `TreasuryProofs` | theorems of `Treasury`: payouts and bills | - |
| `ReportsProofs` | theorems of `Reports`: reports agree, statements explain balances, no bill forgets a sale of its day | - |
| `GrantProofs` | theorems of `CouponGrant` and of `CouponDates` | - |
| `MerchantsProofs` | theorems of `Merchants`: rows and staff, words about audits; of `AccountChecks`: limits, transfers, verdicts | - |
| `AccessProofs` | theorems of `SignIn`, `Phones`, `Subscription` and `Notices` | - |

`Payments` is the core. Its variables are the tables: `payments` (by serial
number), `refunds` (the status of the one Refund row a payment may have),
`coupons`, `balance` and `withdrawable` (for each *purse*, an account and a
channel, the columns that `AccountProxy` picks), `paidOut` (the sum of FINISHED
Withdraw, Settlement and TransferRecord rows) and `rows` (the Transaction rows the
last transaction wrote). Each transaction of the code is one action, because the
code runs it inside `transaction.atomic()` and locks the rows it tests; its guard
is what the code tests under the lock, and a transaction that raises is no step.
`PaymentSystem`, `Payouts`, `Settlement`, `CouponGrant`, `RowLocks`, `StaleSaves` and `Notices` each
EXTEND `Payments`, use its actions unchanged and add what goes on between or inside
transactions; `Treasury` composes two of them, `Reports` extends `Settlement`. `RowLocks` justifies the rest: its
`WritesAreLocked` says that a transaction alone holds the locks of all rows it writes,
before it reads them, so that taking it as one step is faithful. `CouponDates`,
`AccountChecks`, `Merchants`, `Phones`, `SignIn` and `Subscription` share no state with the
ledger and stand alone.

Outside the ledger the code rarely locks: a request reads a row, works, and saves *all* its
columns (`instance.save()`). In `Merchants`, `Phones`, `SignIn` and `Subscription` such a request is
therefore two actions or more: the first keeps the row as it was *seen* and the row it will
save, the last writes it over whatever the row has become. History variables record the saves
that overtook another (`lost`, `overtaken`, `stale`, `undone`, ...). A property then says what
holds everywhere else, and so says exactly what such a save may break.

| code | action |
|---|---|
| `place_order` (both channels) | `PlaceOrder` |
| `cancel_order` | `CancelOrder`; among processes `CloseOrder`, `CommitCancel`, `RollBackCancel`, `CancelDies` |
| `on_payment_success` | `OnPaymentSuccess`; its callers `PaymentNotified` |
| `request_refund` | `RequestRefund`; `StartRefund`, `CallRefund`, `BookAnswer`, `CallerDies` |
| `on_refund_success`, `on_refund_fail` | `OnRefundSuccess`, `OnRefundFail`; their callers `BookAnswer`, `RefundNotified`, `Poll`/`BookPolled` |
| `on_payment_unfreeze` | `UnfreezeShared`, `UnfreezePlain`; its caller `StartUnfreeze`, `UnfreezeNext`, `UnfreezeAborts` |
| `_try_withdraw`, `_try_transfer` | `Withdraw`, `Transfer`; `Ask`, `BeginPayout`, `CallProvider`, `CommitPayout`, `RollBackPayout`, `PayoutDies` |
| `SettlementUseCase.settlement` | `Settle`; `StartSettlement`, `SettleBill`, `SettleNext` |
| `grant_coupons` | `Claim`, `Choose`, `TakeStock`, `CreateCoupon`, `EndGrant`, `PollDies`; its caller `BeginPoll` |
| `CouponViewSet` | `CreateRule`; `BeginStockEdit`, `SaveStock` |
| `check_alipay_account` | `BeginAlipay`, `SetDay`, `ReadLength`, `ReadOldest`, `CheckKnown`, `Transfer`, `Count`, `Pop`, `Push` |
| `VerifyAccountHandler` | `BeginVerify`, `FirstOfHour`, `NextOfHour`, `Ask`; `BeginQuery`, `Query`; `DecrRecord`, `UndoDecrement` |
| `CreateMerchantManager.create` | `CreateMerchant`, with its locks one step; `Tell` |
| `audit_merchant`, `MerchantSerializer`, `MerchantDayBeginMinuteSerializer`, the form of `padmin` | `Look` (the page of an auditor) and `AuditMerchant`, `Modify`, `DayBeginMinute`, `Manage`; all end in `SaveShop`; `Ends` (a page is closed, a request or a push fails) |
| `CashierViewSet`, the switch of the voice | `AddCashier`, `FindCashier`, `RemoveCashier`, `VoiceOn`; all end in `SaveStaff` |
| `SendMessageApi`, `VerifySmsCode`, the serializers of marketers | `AskCode`, `StoreCode`, `SendMessage`; `AskNumber`, `AskUsedNumber`, `VerifyCode`, `DeleteCode`, `SaveNumber`, `RegistrationFails`; `EditMarketer`, `SaveMarketer` (the platform types a status and a number) |
| `LoginSerializer`, forms for administrators | `StartLogin`, `CheckPassword`, `SaveStats`, `EditAdmin`, `SaveAdmin`, `Logout` |
| `wechat_login`, `alipay_login`, `TokenStore` | `SendCode`, `CodeRefused`, `CreateToken`, `Answer`, `NoAnswer`, `MiniProgramLogin`, `TokenExpires` |
| `RefreshTokenUtil` and its timer | `TimerFires`, `WeChatIssues`, `WeChatFails`, `ObtainToken`, `StoreToken` |
| replies and their views, `MsgHandler` | `CreateReply`, `EditReply` (with what `Edits` makes of a row), `SaveReply`; `ReplyTo` |
| callbacks, tasks and `refund` as tellers | `WechatPaymentCallback`, `AlipayPaymentCallback`, `WechatRefundCallback`, `RefundStatusSync`, `AskRefund`, `BeginRefund`, `FinishRefund`; `TellStaff`, `SendVoice`, `VoiceFails`, `Dies` |
| `FinancialQuery`, `TransactionManager`, the other managers | operators of `Reports` with the names of the queries: `DataOverview`, `TransactionDetails`, `SharingDetails`, `WithdrawRecord`, `MonthBill`, `BusinessReport`, `EarningList`, `MonthsShown`, `MonthFigures`, `Listed`, `Detail`, `UserTransactions` ... |

**Abstractions.** Money keeps its exact integer arithmetic; prices are drawn from
a small set. Serial numbers and coupon ids are 1, 2, ... in order of creation.
Clients are left out (a coupon is used by its owner). Merchants are in status
USING. Messages to users, signatures and listings are left out. A coupon's dates
are left out of the ledger, where validity is tested before the order and changes
nothing afterwards; they are the subject of `CouponDates`.
The replies of `Subscription` are those of one account, and their rule names and pictures are left out.
In `Merchants` a row is its status and its profile, one value for all other columns; in
`SignIn` an administrator is a status and a password; texts of replies and messages are not
told apart, and a message in `Notices` is the set of fields its template reads.
The float product in `round(paid_price * rate)` is taken for the exact one; for the
prices the form accepts (1 to 10,000,000 cents) both round to the same cent. MySQL
integers are 32 bits wide and never reached by the sums in question.

**Not modelled.** Areas and categories are trees that are only read. The sessions of merchants
and marketers are a cache written once per login, and the signed tokens of internal calls keep
no state. Signatures, XML and JSON of the providers, listings page by page and their wording,
pictures, QR codes, settings, migrations, test helpers and deployment have no state of their
own whose order of changes could go wrong. Every part is listed with its status in
`PROJECT.json`.

## 3. Checks

Twelve runs, one for each question that is asked of the system.

| run | question | instance | distinct states |
|---|---|---|---|
| `payments` | do balances, coupons and rows agree with the payments, does the ledger implement the escrow, are shares rounded as promised? | two payments, two channels, one coupon and its replacements, withdrawals, transfers, settlement; prices up to 200 cents | 12 thousand |
| `system` | does the ledger agree with the providers, and do orders and refunds end? | one payment, with or without a coupon (one of them orphaned: its merchant has no inviter), two refund threads, two timer runs, payouts, two crashes, closing poll window | 80 thousand |
| `unfreeze` | is every payment released in the end? | two payments, the one coupon is of a merchant without an inviter, one refund thread, one timer, one crash | 89 thousand |
| `treasury` | does the ledger book what the providers send, and settle what was sold? | one enterprise merchant, two sales on three days, two requests for payouts, two lost answers or crashes, two calls of the timer | 1.75 million |
| `grant` | one grant a payment, every piece of stock accounted for? | two merchants, two payments, two polls, three coupons, one change of stock or crash | 831 thousand |
| `coupon_dates` | do four places agree on the days of a coupon? | one rule of each strategy and one coupon, three years of four days, two ticks a day | 6 thousand |
| `locks` | what deadlocks, and is what is written locked? | three transactions of any kind on one payment | 56 thousand |
| `reports` | do all reports count the same sales, and explain the balances? | two merchants (one an enterprise), their inviter, two sales, one withdrawal, one call of the timer, two months | 104 thousand |
| `marketers` | do overlapping requests leave merchants, staff and words about audits true, and are the limits of account checks kept? | two merchants, two persons, two profiles, two requests or open pages at a time; two workers, four requests of one marketer, two days, two crashes | 2.2 million |
| `access` | who gets in, who is told what? | two browsers and one administrator; two handsets and three tokens; two users, two numbers and two codes; two refreshes and four tokens; two desks, two replies of every type, rule and key; one payment, one person, two workers, two requests for its refund, one death | 1.1 million |
| `stale_saves`, `double_bill` | the two findings below | two payments; one enterprise merchant | counterexample |

The properties, by what they are about:

- *money*: `FrozenMoneyMatchesPayments`, `WithdrawableMatchesPayments` and
  `NoOverdraft` relate every balance to all payments. They fail when any
  transaction moves an amount twice, to the wrong channel, or not at all.
  `RowsExplainBalances` checks the statement of account row by row.
- *coupons*: `CouponsAreAccounted` (every coupon is where the payments say it is, none is lost
  or doubled); `OneGrantAPayment`, `GrantsAreSound` (every piece of stock becomes one coupon or
  is known to be lost, and every coupon that can be granted satisfies `CouponAssumption`, from
  which the proofs start); `OffersAreHonoured`, `GoneIsGone` (what left the wallet does not come back, and no
  order accepts it after the day it left: on that day one may, since the wallet counts 24 hours at a time and
  the order form counts dates), `GrantedIsOffered`.
- *statuses*: `RefundMatchesPayment`.
- *shares*: `SharesAreRounded`.
- *bills*: `BillsAreEarned` (no bill pays more than was sold, and only a view that runs past midnight
  may bill a day twice); `SameDayReleasesAreBilled` (of the sales of a day only those
  released after midnight may be missing from its bill: the timer runs once).
- *payouts*: `PayoutsAreAccounted` (booked is sent; sent is booked while answers arrive; what was sent and not
  booked is no more than the FAILED rows; a purse holds what a payout takes from the test under its lock to the
  commit, which does not test again). A FAILED row tells that money *may* have been paid, not whether it
  was: its serial number is made anew (`wechat.py:203`, `alipay.py:181`, `266`) and the provider does not know it.
- *locks*: `WritesAreLocked`, `DeadlocksAreUnfreezes`.
- *limits*: `ChecksAreLimited`, `PaidOnce`, `VerdictIsRecorded`. The limits on transfers
  hold for marketers whose requests never overlap; those that overlap pass them. The limit on bank
  checks may be exceeded by as many as merchants were created in the hour, and by what decrements
  nobody corrected left below -1 when it began (`behind`, which two crashes or two workers between
  DECR and INCR make positive). See the hazards in `PROJECT.json`.
- *the providers*: `ReturnedIsNotReleased` (money a provider returned, or may
  return, is never released to the merchant), `BookedRefundIsReal`,
  `BookedOrderIsReal`.
- *refinement*: `ImplementsEscrow` (the ledger implements the escrow) and `LedgerSpec`
  (the system takes only steps of the ledger, so that what holds of the ledger
  holds of the system).
- *liveness*: `PaidOrderIsBooked`, `RefundEnds`; `FreezeEnds` (no payment stays frozen but by a due payment that ends
  every run of the timer that comes to it: `payment_unfreeze.py:31` catches `InvalidStatusError` only, and
  a coupon payment of a merchant without an inviter raises another).
- *reports*: `ReportsAgree` (five reports count the same sales by status, coupon and channel),
  `StatementsExplainMoney` (daily earnings, months, operations of marketers, lists of money
  that left, and downloads add up to the balances). The months of a merchant's statement do so only with what they
  leave out: settlements, and refunds of months after the latest listed row (`Untold`), such as that of a sale of
  the last day of a month that is given back in the next; and only while no settlement is in process, for
  such a row ends the list and its own page in an `AttributeError` (`Served`).
- *merchants*: `UsedIsApproved` (what an auditor approves is what the page showed, unless that was of a merchant
  not in review, or somebody decided about it or saved it over another save meanwhile: the request reads the
  merchant again and compares nothing), `OneAdminEach`, `DisabledStays`, `LastWordIsTrue`. Each
  names the saves that may break it, the last also pushes that cross or do not arrive.
- *sign-in*: `DoorIsGuarded` (wrong passwords are counted however many browsers try; a disabled
  administrator stays out), `TokensNameClients`, `NumbersAreProven` (of numbers that were proven: the platform may type
  any number for a marketer, another's included).
- *messages*: `NewestTokenIsKept`, `RepliesAreListed` (what answers is in one of the two lists administrators see, by the
  words of the message), `NoticesAreTrue` (who works for a merchant is
  told of each payment once and of each refund what became of it, unless a process died).

Deadlock is not checked: in every instance the system stops when all payments
have ended and all bounds are used up.

**Bounds and why they are enough.** `NPayments`, `NCoupons`, `Amount`, `OrderPrice` bound the
rows and the amounts; two payments are the least that can share a coupon, an
account, a timer run or a settlement, and with two channels and three accounts
every pair of transactions can interleave. `NCoupons` leaves room for the
replacements of the one coupon. 100 cents less 20 divide into 2 + 1 + 1 + 76, so
that all parts differ from zero; 76 and 100 are exactly what one sale releases,
so payouts can succeed, fail, and empty an account. `MaxCrashes`, `MaxFaults` (lost answers and
crashes), `MaxUpsets` (changes of stock and crashes), `MaxRuns`, `MaxDay`, `MaxNow`, `MaxRequests` and
`NRequests` cap the faults and events of their module; `MaxPrice` is the highest price tried,
and 200 cents cover two periods of the rounding of 1 and 3 percent. The limits of
`AccountChecks` (5 transfers in 7 days, 1000 a day, 10 checks an hour) become 1 in 2 hours,
2 a day of 2 hours and 1 an hour: small enough for four requests to reach each.
`grant` takes merchants and polls for symmetric (nothing in the module tells them apart) and
explores, by the constraint `NoMatter`, only WeChat payments whose refund did not fail:
a grant reads neither, and a failed refund keeps the coupon of its payment as a requested
one does. Transactions (`locks`), and workers and Alipay accounts (in `marketers`), are
symmetric too; no run with symmetry checks liveness.
`unfreeze` explores, by the constraint `OnlyBlockersAreRefunded`, WeChat payments of which only those of the merchant
without an inviter are refunded: a refund of the other one ends its freeze as well. A run of the timer takes
the due payments in any order, since its query has none.
`marketers` takes merchants, persons, workers and profiles for symmetric, and by the constraint
`OneOrPlain` explores one merchant with every change of its row and its people, or two that have only been
registered and approved: a merchant's row is read by requests about it alone, and what two of
them share is people. Nothing more is done about a merchant once it has no known status, or once two of the exceptions
that properties make hold for it: no property says anything more of it. Its two parts share no variable, as those of `access`. Two requests at a time are the least that overtake each other.
The six parts of `access` share no variable, so that a step of one never enables, disables or
changes one of another: that one moves in each behaviour loses nothing. Users and
numbers are symmetric, and so are desks; `TwoAtATime` keeps to two requests about numbers, `OneIsProven` to states in which
one of the two users at least has a number it has proven (two users whom the property excepts are not explored further),
`OvertakenOnce` to two edits of the same row, until one of them saves over the other; `MaxFailures`
counts wrong passwords, `MaxCodes`, `MaxIssued`, `MaxReplies`, `MaxRequests` and `MaxDeaths` cap what
is generated, issued, written, asked for and killed. `MaxCodes` of two is the least with which a second code replaces
the first, four tokens let two refreshes fail and succeed in every order. In `reports`, `MaxWithdraws` and
`MaxRuns` cap withdrawals and settlements; a month is one day long, so that every report about
days and every one about months has a boundary between the two sales.

**Fairness.** In `system` and `unfreeze`, `Fairness` asks for what the code relies on: a request thread that
has begun, and has not died, goes on to its answer; timers call their views again and
again; tasks are run; providers decide every refund and repeat a payment notice until it
is booked (strong fairness, because a cancel may hold the lock of the payment whenever
the notice arrives). It asks for no order, payment, cancel, refund request or refund
notice, and crashes and the end of the poll window happen. What then may not end is named
in the properties: a refund that nobody asks about any more (`Abandoned`: the process that
was to call died, or the window closed) and the freeze of a coupon payment that cannot be
divided (`NoInviter`), with those that wait behind it in runs of the timer, for a run ends at the
first one that raises, and fairness does not ask that it comes to the others first. In `coupon_dates` the clock runs on; the other runs need no fairness.

### Findings

- `stale_saves`: a merchant who edits the note of a payment saves all its columns and
  may write an old status back over a refund or the end of the freeze; an administrator who
  edits an inviter saves all columns of its account and may write old balances back.
  `EditsKeepLedger` is the conjunction of both, and each part alone is violated.
- `double_bill`: the test for a duplicate settlement looks at bills in process only;
  once the bill of the day is marked finished the day can be settled again.

What other saves of whole rows, requests that overlap and keys without an expiry may break is
written into the properties as their exceptions, and into `PROJECT.json` as hazards, each at
its line.

## 4. Proofs

The proofs are about `Payments`, `PaymentSystem`, `Treasury`, `CouponGrant`, `RowLocks`, `Reports`, `Merchants`, `SignIn`, `Phones`,
`Subscription`, `Notices`, `CouponDates` and `AccountChecks`: about every module but `StaleSaves`, whose form saves are a finding, and
every invariant of the passing runs is stated by a theorem. Those about the ledger and what runs around it are for every set of
merchants, marketers, prices, amounts, initial coupons, connections, threads, timers, requests and polls, any
number of days, and any bound on faults, that satisfy the assumptions of the modules:
`AccountAssumption`, `BoundAssumption`, `CouponAssumption` and `SystemAssumption` (accounts
are distinct; quantities are natural numbers; a coupon that was granted discounts less than
its minimum charge and was not granted by its own merchant). `FiniteAssumption` (there are finitely many
accounts) is used for the refinement, where the sum over all accounts is the escrow's pot; `ReportAssumption` says the same
of merchants and marketers, whom administrators' reports add up, and that the months of a calendar cover its days.
`GrantAssumption` starts `CouponGrant` without coupons, so that every coupon comes out of a grant, with finitely
many polls; `NoticesAssumption` takes finitely many workers; `TokenAssumption`, that the value which stands for no token is none;
`PartsAssumption`, that a message contains itself; `CodesAssumption`, that a bound is a natural number;
`LockAssumption`, that accounts have keys of their own, the platform the first;
`DateAssumption`, that a day has at least one tick; `CheckAssumption`, that limits are positive and workers
finitely many.

**The ledger.**

- `TypeCorrect`: `Spec => []TypeOK`, by one lemma per action.
- `RefundCorrect`: `Spec => []RefundMatchesPayment`, inductive together with `TypeOK`.
- `LedgerCorrect`: `Spec => []LedgerInvariant`. The two equations on money are not
  inductive by themselves. A payment's terms depend on its coupon, so the invariant
  also says that every coupon row keeps its terms (`CouponTerms`), that the coupon of a
  payment exists and that a payment without one has no shares; and that its parts are
  not negative, which with `SharesWithinPrice` gives that a refund takes no more than
  was frozen. Each action then changes at most one term of each sum
  (`SumToUpdate`), by as much as it changes the balance.
- `FrozenMoneyCorrect`, `WithdrawableCorrect`, `PartsCorrect`, `NoOverdraftCorrect` follow.
- `CouponsCorrect`: `Spec => []CouponsAreAccounted`. A coupon is taken when it is NOT_USED, so that no
  payment has it, and replaced when it is USED, by the one payment that has it; the set of live
  coupons then loses one element and gains one. What must be added is only that serial
  numbers not given away have no coupon (`UnplacedIsEmpty`).
- `EscrowCorrect`: `Spec => ImplementsEscrow`. Each transaction maps to a step of the escrow or to none. The pot is
  the sum of all balances (`Total`): that what is added to one purse is added to the sum (`TotalAdd`) rests
  on an enumeration of the accounts in which each occurs once. `LedgerInvariant` supplies the rest: the parts of a price do not exceed
  it, and no payout takes more than is available.
- `RowsCorrect`: `Spec => RowsExplainBalances`, an action property. For every transaction the proof names the
  balances between its rows, purse by purse, and shows that each row leads from one to the next.
- `SharesRoundedCorrect`: every coupon that can be used has a positive minimum charge above its discount, which
  `CouponTerms` keeps; `RoundRate` is then compared with the distance from the rate for every price.
- `SharesWithinPrice`: the three shares are natural numbers whose sum is at most the
  price, for every price.
- `PaymentsProofs` begins with the lemmas on sums, over 1..n (`SumTo`) and over finite sets (`SumFunctionOnSet` of the
  community modules): that the recursion defines a function, that the order of the elements does not matter, that a sum
  over groups is the sum over all (`SumGroups`), and that sets that correspond one to one have equal sums
  (`SumImage`). The library's induction theorems cannot be used with the installed provers, so induction is done by the
  least counterexample of a set of naturals (`SetInduction`, `PartsInduct`).

**What runs around it.**

- `SystemImplementsLedger`: `SystemSpec => LedgerSpec`. `SystemTypeOK` is inductive by itself
  (`SystemTypeCorrect`); with it every action of the processes is a transaction of `Payments`
  or leaves the ledger alone (`StepIsLedgerStep`), one step of the proof for each action. All
  that is proved of the ledger then holds of the system: `SystemNoOverdraft` and
  `SystemImplementsEscrow` are instances.
- `BookedRefundCorrect`, `ReturnedCorrect`: from `ReturnCorrect`,
  `SystemSpec => []ReturnInvariant`. The two properties speak of payments and providers only;
  what makes them inductive is what is in flight: every notice, answer or polled result that
  says "success" is true, every thread that is to call the provider holds a payment in one of
  the statuses of a refund, which no transaction leaves (`LedgerLifeCycle`), and an Alipay
  refund is never in process at the provider.
- `BookedOrderCorrect`: from `OrderCorrect`, where the strengthening is the answer "closed" a
  cancel still has to commit.
- `TreasuryCorrect`: `TreasurySpec => []TreasuryInvariant`, which contains `LedgerInvariant`: payouts that hold a lock while a
  provider is asked, and bills computed before they are settled, break none of it. `PayoutsAccountedCorrect`
  follows from `MoneyIsTraced`: what was sent or settled out of a purse is at least what is booked and what
  is in flight, and the difference is what answers lost, which is bounded by the FAILED rows and what is in doubt with the
  request that is to write one; and from `HeldIsCovered`: the commit does not test the balance, so the purse must cover the
  payout from the test on, which it does because the request holds the lock of the account and nothing else takes from it.
  `BillsEarnedCorrect` follows from `DueIsEarned` and
  `BillIsEarned`, for what finished sales earned never shrinks, and from `OneInProcess`: the bills in process are of
  different days, those on which they were settled, which is what the code tests.
- `GrantCorrect`: `GrantSpec => []GrantInvariant`. A payment is in the hand of one poll at most; what that poll granted is
  what the payment was granted; the rules it may still take are of other merchants; the terms of a
  rule never change under a reader (a merchant changes the stock alone); a piece of stock is with the
  rule, with a poll, in a live coupon, or lost. Transactions of the ledger keep the number of live coupons of each rule, since
  a refund replaces the coupon it destroys. `OneGrantCorrect` and `GrantsSoundCorrect` follow. The latter contains
  `CouponsAreSound`, which is what `CouponAssumption` asks of the coupons a ledger starts with.
- `LocksCorrect`: `LockSpec => []LockInvariant`, for any number of connections, payments and accounts. The plan of a
  transaction is the sequence of locks its code takes; `OnPlan` says that it holds the first of them and has to take
  the others, which is inductive because what a plan is read from, the merchant and the coupon of a placed payment
  and the originator of that coupon, no commit changes (`PlanStays`); `LocksExclude` that no row is locked
  twice. Every step of `RowLocks` is one of the ledger (`LockLedgerStep`), so the invariant of coupons holds too, and
  `LocksImplementLedger`, `LockSpec => LedgerSpec`, follows: connections that lock row by row, wait for each other
  and are rolled back do to the ledger what its atomic operations do, each when it commits.
  `WritesLockedCorrect`: a complete transaction holds its whole plan, and each commit changes rows of the plan only
  (`CommitLocked`, one step of the proof for each transaction).
- `DeadlocksCorrect`: `LockSpec => []DeadlocksAreUnfreezes`. Locks have ranks: accounts their keys, then coupons, then
  payments, then refunds. All plans rise in rank but that of the release of a payment with a
  coupon, which begins with payment and coupon. Of the transactions that wait for each other one waits for a lock of
  highest rank; whoever holds that lock would wait for a higher one if its plan rose, so it is a release, and the
  lock is its payment or the coupon, which belongs to no other payment (`CouponMatchesPayment`).
- `BooksCorrect`: `ReportsSpec => [](SalesAreKept /\ BooksAreKept /\ RefundsFollow)`. `SalesAreKept` holds what the ledger and the settlement
  say of sales (`LedgerInvariant`, the coupons, the day of each order, a coupon is used at the merchant of its rule).
  `BooksAreKept` says which rows there are: each row has one cause, which is a payment that has reached the status for it, a
  withdrawal that succeeded, or a bill, with the account and the amount that follow from the cause
  (`RowsAreExplained`, `RowsAreOne`); each cause has its row (`PaymentsHaveRows`, `WithdrawsHaveRows`); and what was paid out of an
  account is the sum of its withdrawals and bills (`PaidOutIsKept`). It is inductive because what a row says of
  its payment stays true: coupons keep their terms, and no status that owes a row is left for one that does not (`StepKeepsOwed`).
- `ReportsCorrect`: `ReportsSpec => []ReportsAgree`, from `SalesAreKept`, with which each query is a sum over the same set of
  sales, grouped by day, by channel or by merchant.
- `StatementsCorrect`: `ReportsSpec => []StatementsExplainMoney`, from `BooksAreKept`, one lemma for each report: the rows of a type
  on an account correspond to the payments that owe them (`PaymentRows`), those of withdrawals to the withdrawals
  (`WithdrawRows`), so that days (`DailyEarnings`), months of any lengths (`MonthsShownAndUntold`, `MonthBillExplained`), operations
  (`OperationsExplained`), lists (`MoneyOutExplained`) and columns of files (`ColumnsAddUp`) are sums of what the
  payments brought, which `LedgerInvariant` makes the balance. Of months, those that no page shows hold refunds only
  (`HiddenMonth`), all after the latest listed row (`UntoldIsLate`), since a refund comes no earlier than the row of its
  sale (`RefundsFollow`).
- `SameDayCorrect`: `ReportsSpec => []SameDayReleasesAreBilled`. Every bill, and every one the timer has computed and not settled
  yet, covers what was released on its day (`ReleasesAreBilled`); it was computed after that day, and whatever is released
  later bears a later date (`ReleasesAreKept`).
- `OffersHonouredCorrect`, `GoneIsGoneCorrect`: for days of any number of ticks. A coupon in a wallet has a rule
  and was granted before now (`DatesInvariant`); the rest is that a day's number is what division makes of
  ticks (`DayOfTick`), where the two ways of counting days differ by less than one: 24 hours, counted until a coupon leaves
  the wallet, take it to the last of its days at least (`ExpiredDay`), and the order form refuses it on the next.

**Outside the ledger.**

- `MerchantsCorrect`: `Spec => []MerchantsInvariant`, for any sets of merchants, persons, profiles and
  requests under way, without any assumption. What makes `UsedIsApproved`, `DisabledStays` and `OneAdminEach`
  inductive is what every request under way will save (`CallsAreSound`: a change of profile asks for a review, the minute of
  the day comes with an approved profile, a decision is about the profile that the page showed and an open page shows the
  row as it is, but for merchants about which a page `misled` its auditor, a save of a member of staff who was not overtaken keeps
  administrators where they are), and that administrators and the
  merchants registered for them name each other (`AdminsOwn`, `OwnersRule`). The properties follow
  (`UsedIsApprovedCorrect`, `DisabledStaysCorrect`, `OneAdminEachCorrect`, `MerchantsTypeCorrect`).
- `LastWordIsTrueCorrect`: of a merchant that nothing disturbed, one push at most is under way,
  and it, or else the last one, if it arrived (`missed` says which did not), fits the row (`WordFits`); an audit under way has read a merchant in
  review (`ReadsRight`), and a save that finds another row makes the merchant a disturbed one.
- `DoorIsGuardedCorrect`: a request that saves the row either changes it on purpose or saves it as it was
  read, and one that read the row before its administrator was disabled makes that one `overtaken`
  (`AdminsInvariant`).
- `TokensNameClientsCorrect`: a token has one owner, the client that holds it or the handset it is being made for
  (`OneOwner`), and the session of a token in the making is the owner's or will be saved (`AnswersAreOwn`).
- `NewestTokenCorrect`: unless it is unsure, one refresh at most is under way, and the token it is about to store is
  the newest.
- `RepliesListedCorrect`: an edit that does not delete a row leaves it deleted or not as it was read, whatever it does to its
  words and rule, and a row that was deleted stays so unless such an edit undid it. Each list has a newest row per key
  (`OneIsNewest`), from which the two answers follow (`AttentionIsListed`, `MessageIsListed`).
- `NumbersProvenCorrect`: a request brings the number it read, one it found free, or one the platform typed, which makes its marketer
  `typed` (`ChangesAreOwn`); a code is stored for
  one number, for none once it has proven a change, and is about to be deleted by two requests only when they
  raced (`CodesAreOwn`).
- `ChecksCorrect`: `ChecksSpec => []ChecksInvariant`, for any limits, marketers, accounts and number of crashes. The counter of a
  day and the list of a marketer are what was paid and still is to be counted (`DaysAreCounted`,
  `ListsAreCounted`). A marketer whose requests never overlapped has one worker in the transfer (`OneByOne`),
  so that what it read is still so (`ReadIsTrue`) and the list is all of its payments or the last of them, as
  long as nobody died (`ListIsLatest`): its oldest item then bounds what lies within any window
  (`FewWithin`). Admissions to bank checks are counted by the key of the limit, by merchants created and by
  `behind` (`HourIsCounted`). `ChecksLimitedCorrect`, `PaidOnceCorrect` and `VerdictRecordedCorrect` follow.
  The proof of `HourIsCounted` failed before `behind` was in the model: the bound without it held in
  the run only because one crash could not bring it about.
- `NoticesTrueCorrect`: what a person was told and what processes are about to tell add up to what was booked, and to
  less only after a process died or when the person was not at work (`ToldSoFar`, `SpokenSoFar`).

**Model-checked only.** Liveness and everything else that rests on fairness or
ENABLED (`PaidOrderIsBooked`, `RefundEnds`, `FreezeEnds`, `GrantedIsOffered`), and the two findings. No module that
holds a theorem reaches a RECURSIVE operator.

## 5. Plan

Done: the ledger, its abstract specification, its processes, payouts and settlement, stale
saves, coupon rules, grants and dates, row locks, account checks, reports, merchants and staff,
numbers, sign-in, access tokens and replies, notices, and the proofs above. What could follow:

1. A refinement of `Treasury` to the escrow with its payouts opened, beside that of `PaymentSystem`.
2. Larger instances of `reports` (three months of two days) and of `system` (two payments and payouts).
3. The trees of areas and their administrators, if they come to be changed at run time.
