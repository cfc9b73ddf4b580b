# A verification of the Telegram AI bot

This directory holds TLA+ models of `src/` (a Telegram bot that sells AI chat for
credits), the TLC configurations that check them, and proofs for the TLA+ proof
system. It is kept beside the code: each definition that stands for code names its
lines in `PROJECT.json` (`map`), each hazard of the code names the properties that
guard it (`hazards`).

## 1. The system

Four processes share one PostgreSQL database (READ COMMITTED) and one Redis:

| process | entry point | runs |
|---|---|---|
| bot | `app/bot/main.py` | Telegram updates by long polling, each in a task of its own. `DbSessionMiddleware` gives every update one session: one transaction, unless the handler commits in between, committed when the handler returns and rolled back when it raises. |
| API | `app/api/main.py` | provider webhooks (`app/api/payments.py`) and, if enabled, the web admin panel |
| worker | `app/workers/tasks.py` | Celery tasks, started by the beat schedule of `celery_app.py` |
| beat | `celery_app.py` | dispatch of due broadcasts (30 s), recovery of stale ones (300 s), subscription notices (60 s), recovery of stale notices (900 s), reconciliation of payments (30 s) |

Sessions are made with `expire_on_commit=False` (`app/db/session.py`), and of all queries
only `lock_subscription` of the notices (`app/notifications/repository.py:262`) asks for
`populate_existing`: elsewhere an object a session still holds is not refreshed by a
later `SELECT ... FOR UPDATE`. Several of the findings and hazards come from there.
(An object nobody refers to any more is dropped from the session and read again, which
is why the unlocked balance check of an AI request does no harm to the charge after it.)

### Inventory

| component | state it keeps | operations | hard behaviours | what makes it correct |
|---|---|---|---|---|
| credits (`app/credits`) | `credit_wallets`, `credit_transactions`, `users.trial_used` | `grant`, `deduct`, `spend`, `activate_trial_bonus`; trial reset by an administrator | concurrent transactions on one wallet, retries, rollback | balance is the sum of the ledger; a key is applied once; never negative |
| payments: Stars (`app/payments`, `bot/handlers/payments.py`) | `payments`; Telegram's invoices and charges | create, pre-checkout, receipt, settle | redelivered updates, two handlers of one update, a commit in the middle of a settlement, deadline, double charge | paid exactly when delivered, once; a receipt is not lost |
| payments: providers (`app/payments`, `app/api/payments.py`, `reconcile_pending`) | `payments`; the provider's payment | create, webhook, reconcile task, check button | lost, late, repeated and unordered webhooks; an HTTP call while a row is locked; stale reads; ambiguous creation | granted once; closed is final; a payment that is made is noticed |
| promo codes (`app/promocodes`) | `promo_codes`, `promo_code_activations` | claim, instant grant, reserve, release, consume | races for the last activation; orders that fail or are never heard of | limits kept; a discount is spent once and not swapped under an order |
| referrals (`app/referrals`) | `referrals`, `referral_rewards` | register, first payment, apply pending rewards | overlapping payments of friends; wallets locked in different orders | a reward is paid once, to both levels; milestones |
| AI chat (`app/ai`, `app/dialogs`, `bot/handlers/chat.py`) | `dialogs`, `messages`, `ai_usage`; Redis lease, rate counter, mode | chat turn, new dialog, summary | a slow external call between check and charge; lease expiry | one turn at a time; a turn is charged once or not at all, and the user is told which |
| subscriptions (`app/subscriptions`) | `subscriptions`, `trials`, `users.trial_used` | activate or extend, expire, admin edits | extension against expiry | one active subscription; time is never lost |
| broadcasts (`app/broadcasts`) | `broadcasts`, `broadcast_recipients`; Redis lock | draft, schedule, send, pause, cancel, recover | crash between send and commit; two senders; lock expiry | counters agree with deliveries; what recovery finds uncertain is not repeated |
| notifications (`app/notifications`) | `notification_logs`, `error_events`, `admin_notification_settings` | reserve, send, mark, recover; report an error, alert the administrators | two scans, crash after reserve, many turns that meet one error, edits of the recipients | a notice is sent at most once per key; errors keep their cooldown; no administrator is left out |
| OpenAI client (`app/ai/client.py`) | none | one request, at most one retry | an answer that is lost after the work was done | one turn never makes two responses |
| administrators' panels (`app/bot/admin_panel`, `app/admin`) | packages, plans, prices, providers, promos, settings, broadcasts, users; the audit log; the wizard's state in the bot's memory (`MemoryStorage`) | buttons, questions and their answers, a wizard, forms; direct messages | two administrators on one row, answers handled concurrently, a crash between a change and its message | the audit log tells what the tables hold; codes stay unique; plans in use stay |
| users, API health, menus | `users` | registration, queries | little of their own | - |

What is hard to test in this code is listed, line by line, under `hazards` in
`PROJECT.json`. Most of it has one of four shapes: a row is locked, read and waited
with; an object is read and used after somebody else changed its row; a process dies
between a commit and the external call next to it; a Redis lock runs out under its
holder.

## 2. The plan

The order is that of the damage a mistake would do: money first, then what users are
sent, then what they see.

| step | module | abstract specification | status |
|---|---|---|---|
| 1 | `CreditLedger` (wallets, ledger, trial) | - | checked, proved |
| 2 | `StarsSettlement` | `PaymentPromise` | checked, proved, refinement proved |
| 3 | `ExternalSettlement` (webhooks, task, button) | `PaymentPromise` | checked, proved, refinement proved |
| 4 | `PromoCheckout` | - | checked, proved |
| 5 | `ReferralRewards` | - | checked, proved |
| 6 | `Broadcast` | - | checked, proved |
| 7 | `ChatTurn` | - | checked, proved |
| 8 | `SubscriptionNotices` | - | checked, proved |
| 9 | plan settlement with the referral rewards in days and requests (a module that composes `SubscriptionNotices`' purchase with a settlement) | subscription time as a sum of what was bought | planned |
| 10 | quotas and legacy trials (nothing calls them any more) | - | left out |
| 11 | `OpenAIRequest`, and `Alerts`, which composes it with the reports of its failures | - | checked, proved |
| 12 | `AdminTables`, with `AdminPanel` and `WebAdmin` over it, and `Administration`, which composes the two panels | - | checked, proved |

`PaymentPromise` is what a buyer may count on, stated once and implemented by the two
settlement modules (`KeepsPromise`, `INSTANCE ... WITH`). The other modules meet only in
the database, at interfaces one of them fixes: a credit grant with an idempotency key is
a request of `CreditLedger` and one counter (`delivered`, `granted`, `charged`)
elsewhere; that this is sound is `KeyAppliedOnce`, which is proved. How an order ends is
the settlement modules' matter; `PromoCheckout` has only what its promo has to do with it.

Every safety property of a passing run is proved (section 5). Theorems still worth their
proofs are those of step 9, and what `Broadcast`, `Alerts` and `SubscriptionNotices` have in
common, stated once: an outbox whose rows are handed over by the one who reserved them. All
modules are written without `RECURSIVE` operators so that they can be proved about.

## 3. The modules and the code

`PROJECT.json` maps every definition to its lines. A few conventions hold throughout:

* A transaction is one action if it waits for nobody outside the database while it holds
  a lock that others need, several otherwise. What it has written and not committed is
  in the variable `work`, `draft` or `scan`, invisible to the others. A row lock is a
  variable of its own where it matters who waits.
* A crash, an exception or a deadlock victim is an action (`Rollback`, `Abort`, `Break`,
  `Crash`) enabled at each step that can meet it.
* Operators that a comment calls a mutant of another are plausible mistakes in that
  place of the code; each property of each run is shown to notice one of them.

**`CreditLedger`** - `app/credits`. `Call` is the entry of `grant`, `deduct` or `spend`
with an idempotency key, `EnsureWallet` the `INSERT ... ON CONFLICT` and the
`SELECT ... FOR UPDATE`, `Repeat`, `Refuse` and `Apply` the three ways the call ends,
`ActivateTrial` the entry by way of the users row. A session may make several calls
before it commits and keeps its wallet locks until then, as a settlement does. The
unique index on the key is left out on purpose.

**`StarsSettlement`** - the Stars half of `PaymentService` and its bot handlers.
`OpenOrder` to `InvoiceAmbiguous` is creation: the order is committed and unlocked before
the invoice is asked for, `InvoiceShown` is the moment the buyer has it, and `InvoiceSent`
the late write of the creator (`creating`), which sets the deadline and clears the charge
id. Between the two the buyer may pay. `ApprovePreCheckout`/`ExpireAtPreCheckout` is
`validate_star_precheckout`, `TakeCharge` is Telegram, `RecordReceipt` and `Settle` are the
two transactions of `process_star_success`. The second of them works on the object the
first has left in the session: that is why `Settle` has no guard on the committed status.

**`ExternalSettlement`** - the same for YooKassa, Platega, Crypto Pay and YooMoney.
`BeginWebhook`, `ListForReconcile`/`LockForReconcile` and `ReadForCheck`/`LockForCheck`
are the three callers of `reconcile_external_payment`; `Ask` is the HTTP call made under
the row lock and `Decide` what follows from its answer. `SignedWebhook` is the
notification that needs no question. `remote` is what the provider would answer, moved
by `RemotePaid`, `RemoteEnded` and `RemoteRefunded`; webhooks may come at any time, any
number of times, or never.

**`PromoCheckout`** - `app/promocodes` with the checkout. `BeginClaim`/`CommitClaim` is
`claim` with its counts under the lock of the code, `CheckoutWithPromo` is
`prepare_purchase` and the order that is committed with it, `CloseOrder` is
`release_for_payment`. An external order is settled in one transaction (`SettleOrder`), a
Stars order in the two of `process_star_success`: `RecordReceipt` needs a pending order,
`SettleReceipt` goes on from the object it has kept, whatever became of the row. `Consumed`
is `consume_for_payment`, which has nothing to do when the reservation is gone. New external
orders are for credits and take no promo; those with one come from earlier versions, and
their webhooks are still settled.

**`ReferralRewards`** - registration by a link and `on_first_successful_payment`, with
`apply_pending_rewards` walking the recipients in the order a Python set happens to
have (`owed` is any sequence of them) and locking one wallet after another. Two
transactions may wait for each other in a cycle: the code does nothing against it, and
`Abort` is what PostgreSQL does to one of them.

**`Broadcast`** - `BroadcastSender.execute` as a worker's `Start`, `Launch` or `Resume`,
`Take`, `Repeat`, `Record`, `Complete` or `Cancel`, `Close`; `Fail` and `FailUnsaved` are its
exception paths. `Take` commits the recipient as `sending` and makes the first request,
`Repeat` is one more after a `RetryAfter`, a network or a server error, of `MaxAttempts`
(`broadcast.max_attempts`) in all. `handed` counts the requests that may have reached
Telegram and `lapsed` remembers that the lock ran out under a live execution; both are
history, the code has neither.

**`ChatTurn`** - the updates of one user through `AIService.reply` and
`start_new_dialog`: `Touch` (users row), `Acquire` (Redis lease), `Admit`,
`StartSummary`/`EndSummary`, `Ask`, then `Answer`, `AnswerUnpaid` or `Fail`, and
`Release`, `Reply`, `Return`. `Break` is an unexpected exception at any of these steps; it
ends in `GiveUp`, a rollback and no reply. `reply` is what the handler is about to send, and
`told` what it has sent. Users share nothing but the process. `next_id` is the sequence of
message ids, which a rolled-back turn does not give back.

**`SubscriptionNotices`** - purchases and edits of subscription rows against the scan of
`app/notifications/service.py`: `Begin` reads the clock and the candidates, `Skip`,
`MarkExpired`, `Keep`, `PassOver`, `Reserve` and `Record` are what may become of one.
`broken` is the effect of the rollback described in section 6.

**`OpenAIRequest`** - `OpenAIResponsesClient.create_response`. What the server and the
network do is free: a request may not arrive (`ConnectFails`), may be rejected
(`TooManyRequests`), may break at a point nobody knows (`Breaks`, `ErrorStatus`) or bring a
body of any shape (`Responds`, `Outcome`). `processed` is the server's count of the
responses it made; the code cannot see it.

**`Alerts`** - the turns of `OpenAIRequest` and the callbacks of payment providers as two
sources of notices. `Report` and `Record` are `report_error` and `ErrorReporter.record`,
which counts the error under the lock of its fingerprint and opens a notice once per
cooldown; `Notify` is one round of `AdminNotifier._send` for one recipient, `RecoverStale`
the worker's task. `CreateRecipient` to `SyncNotificationAdmins` edit the settings
meanwhile. A log row's `handed` and a job's `wanted` are history.

**`AdminTables`, `AdminPanel`, `WebAdmin`** - the rows administrators work on, and one
operator per method of `TelegramAdminService` (`AdminPanel`), and of `AdminMutationService`
and `AdminUserActionService` (`WebAdmin`). Each operator says what a transaction comes to,
given the tables as it first read them (`s`) and as they are when it commits (`t`): what a
method reads with a lock is taken from `t`, what it reads without one from `s`. It is done
with an audit entry, refused with a message, or breaks on an exception. `Replay` is a
reader of the audit log who keeps what its entries tell.

**`Administration`** - the panels at work. `Ask`, `Act`, `Home`, `Confirm` and `Audience`
are what a button of the bot does, `Receive` the message that follows, and `ReadAnswer`,
`ReadWizard`, `Update`, `ReadOther`, `ReadContent` and `Clear` the steps of its handler
between two awaits: the state it keeps for the administrator (`fsm`) may be changed by
another update meanwhile. `Submit` is a form of the web panel. `Commit`, `Refuse` and
`Break` end a transaction; `Reserve`, `CallTelegram` and `Record` are a direct message.
`Purchase` and `Launch` stand for buyers and for the broadcast worker, who use the same rows.
`Given`, `GivenSettings` and `Subscribed` are the tables at first, `Told` what the log of
earlier days tells of a row: all but how far a broadcast is, which it never tells.

## 4. The runs

| run | shows | bounds | size |
|---|---|---|---|
| `CreditLedger` | wallets are their ledgers, a key counts once, the trial flag and its credits go together | two sessions, two users, one call of each kind, a refusable deduction | 56 280 states |
| `StarsSettlement` | paid = delivered; what may happen to a receipt; the promise to the buyer | a credit and a plan order, two charges, two handlers, two approvals per invoice | 64 897 states |
| `StarsPlanTwice` | *violation*: a plan is extended twice | as above | |
| `ExternalSettlement` | granted once, closed stays closed, the promise, at each provider; a payment made is noticed without its webhook unless older ones crowd it out | two payments that go through all four providers, the task and two handlers, batches of one | 33 602 states |
| `PromoCheckout` | limits, backed discounts, nothing swapped under an order | two users, a scarce, a plenty and an instant code, two orders, one of them by Stars, three activations | 509 160 states |
| `ReferralRewards` | each reward paid once, to both levels, whatever is aborted | five users over four generations, a milestone at each friend, two transactions at a time | 16 210 states |
| `Alerts` | one response per turn, no notice twice, the cooldown, nobody left out | two turns or callbacks, two administrators and one who was, one edit, one crash, two moments | 964 692 states |
| `Broadcast` | the requests to one recipient are bounded, exact counters, it finishes | two users, two workers, two attempts, two crashes or outages | 202 326 states |
| `ChatTurn` | history, summary, limits, charges and what is said of them stay right, every update ends | two turns behind, two messages and a new-dialog command, a summary at three messages | 252 848 states |
| `SubscriptionNotices` | a notice goes out once, reminders are current, time is kept | one user, two rows, two scans, days of two ticks, one crash | 707 824 states |
| `NoticesStarve` | *violation*: a due notice starves | two users, one scan | |
| `Administration` | the audit log tells the truth, codes stay unique, plans in use stay, direct messages are recorded | two tasks, one to three rows per table, two updates, one crash, a wizard at every stage | 179 184 states |

*Why these bounds are enough.* Two sessions make every race of this code: each conflict is
between two holders of one row, one stale object, or one lock. A third would only wait
behind one of them; `ExternalSettlement` has a third because starvation needs a queue. The
batch of the reconciliation task, 100 in the code, is one there: with two payments it may
then be full of an older one, as a batch of 100 may be of a hundred. Two
charges and two approvals are the least with which an order can be charged twice.
Two recipients let one be done or in flight while the other waits, or both be in flight
under two executions; two attempts are the least with a retry (`MaxAttempts`). A summary trigger of
three with a history of two is the least the configuration allows (`LimitAssumption`), and
lets each further turn fold messages. The clock of `SubscriptionNotices` passes a reminder,
the end and the day after it. Two moments a cooldown apart are the least in which an error
may be reported again. In `Administration` the panel has more buttons than one run can
combine: `Openings` groups those that touch the same rows, and a behaviour uses one group;
buttons of different groups meet in no row. A wizard may be at any of its stages at first,
so two updates are enough to race for its end. `MaxPreCheckouts`, `MaxActivations`,
`MaxCrashes`, `MaxDeaths`, `MaxTime`, `MaxExpiry`, `MaxEdits`, `MaxUpdates`, `MaxParts` and
`MaxBalance` are the only caps, and each is a guard of the action it bounds (`MaxParts` bounds the
answers the server is given to choose from).

*Types.* A `TypeOK` that is proved (section 5) is not checked again, but for
`Administration`'s: it also says that no correction takes credits a wallet does not have.

*Symmetry* is used in `PromoCheckout`, `SubscriptionNotices`, `Alerts` and `Administration`, for safety properties only,
over sets the constants treat alike.

*Deadlock* is not checked where the system may stop for good: all orders closed, all
broadcasts finished, the clock at its end. In `CreditLedger` and
`ReferralRewards` it is checked: waiting transactions can always be ended.

*Fairness.* None is assumed of users, providers, crashes or administrators.

* `ExternalSettlement`: the beat runs the task every 30 seconds, HTTP calls have timeouts
  and PostgreSQL serves the waiters of a row in turn. That is weak fairness of every
  session; the task's own steps get strong fairness, because a webhook may hold the row
  each time the task comes, and because the provider must for no payment fail every time.
* `Broadcast`: a worker goes on, the beat and the recovery task keep enqueuing what is due
  or running, and the lock of a dead worker expires.
* `ChatTurn`: every step of a handler; the OpenAI calls are bounded by timeouts.
* `NoticesStarve` assumes all that `SubscriptionNotices` could offer and is refuted all the
  same.

## 5. What is proved

For every set of users, sessions, orders, workers, administrators, rows and texts, and every
number of crashes. A component's proofs are in a module of their own, except that
`SettlementProofs` holds those of `StarsSettlement` and of `ReferralRewards` (what one
payment sets off), and `MessagesProofs` those of `Broadcast` and of `Alerts` (what is sent
to many).

**`CreditLedgerProofs`** - `TypeCorrect` (no balance, committed or pending, is negative),
`BalancesCorrect`, `KeysCorrect`, `TrialCorrect`, `LedgerAppendOnly`. The invariants are
not inductive: a commit writes a wallet computed earlier. `IInv` (in `CreditLedger.tla`)
adds what an open transaction may rely on. Only the holder of a wallet's lock has rows
for it (`PendingContinues`); these form a chain from the committed balance to its copy,
and repeat no committed key (`Continues`); a call that is about to be applied holds the
lock (`CallHeld`). The lemmas on concatenated chains carry that through a commit.

**`SettlementProofs`, Stars** - `TypeCorrect`, `PaidIsDelivered`, `ReceiptKept`, and
`StarsKeepPromise`: the module implements `PaymentPromise` for credit orders. The receipt in
the row is no help, for the creator of the order may erase it. What makes the settlement
from a stale row harmless is `SettlingIsCharged` (a handler past the first commit has a
charge Telegram took for this order, and nothing but a settlement or the deadline has closed
the order since), `OrderedFirst` (no money is taken before the invoice is shown, and an
invoice that may still be refused is not) and, for credits, the ledger key (`CreditedOnce`).
The last is an invariant only of credit orders: for plan orders `StarsPlanTwice` refutes it.

**`MessagesProofs`, broadcasts** - `TypeCorrect`, `AttemptsHold`, `ProgressCorrect`,
`OutcomesFinal`. The first needs no lock: a recipient leaves `pending` in the transaction
before its first request and never returns, and only the worker that took it repeats the
request, up to `MaxAttempts` (`HandedMatches`). The counters and outcomes need
`Locked`, which holds while no live execution has lost the lock: whoever executes holds it
(`Exclusive`), a worker in its loop has a running broadcast with nothing on its way, and one
that sends has exactly its target on its way (`Executing`).

**`ExternalSettlementProofs`** - `TypeCorrect`, `CreditsGrantedOnce`, `ClosedStaysClosed`
and `ExternalKeepsPromise`, the refinement of `PaymentPromise`. `GrantedOnce` alone is not
inductive: a handler may decide on an answer it got before. `SessionsAreSound` says that
whoever asks or decides holds the row's lock, and that a session with an outdated view
still finds the row closed if it was closed; `AnswersAreTrue`, that an answer of the
provider holds as long as the row is locked; `RowsAreTrue` and `CreatedFirst` tie the row
to the provider's payment. In the promise, no money moves before the order is placed.

**`PromoCheckoutProofs`** - `TypeCorrect`, `LimitsHold`, `DiscountsBacked` and
`ReservationStays`. The counts are made in one step and the row inserted in a later one;
`ClaimIsSound` carries them over: a claim under way holds both locks, its id is new, and the
counts are still below the limits. `DiscountsBacked` holds for orders while they are open and
for external orders when they are paid; of a Stars order closed between its receipt and its
settlement it says only that nobody else's activation was used up by it (section 6).

**`SettlementProofs`, rewards** - `RewardsTypeCorrect`, `RewardsPaidOnce`, `UplinesRewarded`. A reward
is inserted in one step and paid in later ones, in any order of the recipients.
`CommittedIsPaid`: no reward waits in a committed row. `WorkIsSound`: what a transaction
has inserted is its own, new, and paid or still owed to a recipient it is to visit.
`InsertedApart`: no two transactions have inserted the same reward, which is what the
unique key makes of the wait.

**`SubscriptionNoticesProofs`** - `TypeCorrect`, `NoticesSentOnce`, `RemindersCurrent`,
`TimeKept`. `ReminderLocked` says why a reminder is current: the worker about to reserve it
holds the row and the end it names is the row's. `ClocksLag` (a scan's clock is never ahead),
`OneActive` and `KeyInUse` support it; `NoticesSentOnce` needs no lock, only the unique key.
`RemindersCurrent` is about the reservation: what a slow scan then sends, section 6 tells.

**`ChatTurnProofs`** - `TypeCorrect`, `ContextCurrent`, `TurnsWhole`, `SummaryExact`,
`LimitsHold`, `ChargesAnswered`. The proof makes no use of the Redis lease, which may
expire under its holder. What counts is `HoldersLock`: from its first statement to its last
commit a handler holds the users row. With it, what a handler drafted
from the committed rows (`DraftIsSound`: the active dialog, the context, what is folded
into the summary) is still true of them at the commit, and its message ids, from a sequence,
are above all others (`IdsAreTaken`). `RepliesSound`, a second invariant, follows what a turn is
about to tell the user (`reply`) from its commit or rollback to the message.

**`MessagesProofs`, alerts** - `AlertsTypeCorrect`, `ProcessedAtMostOnce`,
`AlertNeverRepeated`, `CooldownHolds`, `NobodyForgotten`. `RequestsSound`: a request that
has not ended has brought no response, and only such a one is repeated. `JobsSound`: whoever
wanted a notice when it began is still in the notifier's list or has a row in the log, his
own or one somebody else reserved. `OneHanded`: a row is handed over in the step that
reserves it. For the cooldown, a notice counts from the moment the error's row has counted
it, sent or not (`Stamped`); the row has the stamp of its last notice and all others are a
cooldown older (`StampsLag`). Reporters may be stamped in one order and get the row in
another: that one is refused which finds a later stamp there, or one too near.

**`AdministrationProofs`** - `AdministrationTypeCorrect`, `AuditTellsTheTables`,
`CodesApart`, `MessagesRecorded`, `PlansStay`. `Sound` is what one transaction owes the
tables it finds at its commit: they keep their shape and their codes apart, no row that is
in use is gone, and whatever the log told truly of them before, it tells truly after the
entry. The proof has three layers. First, each shape a change can have is sound (a row
written, a switch, a creation, a deletion, settings, credits): one lemma for each verb of
the log. Then every method of the three services is sound, on any earlier reading of the
tables, with the arguments it may be called with (`PanelLegal`, `WebLegal`). Then that every
button, answer and form makes such a call: the wizard's data name a row of the right table
and an accepted code (`DataOK`), whichever updates have written to them. `WorkOK` adds what a
task may rely on between its steps: the user it is to write to is still there, since only
plans are ever deleted, and a message that is called has its row. `TablesOK`, `FsmOK`,
`TasksOK` and `MailOK` together are inductive (`IInv`), which TLC has confirmed on the
instance of the run before the proof.

The assumptions are the named `ASSUME`s of the modules, and TLC evaluates them on every
run. `TablesAssumption`, `AdministrationAssumption` and `FieldsAssumption` say that the
placeholders are no texts, that no two given rows have one code, and that the fields of the
wizard are not named like the actions of other answers, as in the code.
`RequestAssumption` is the only one about the code's data: an idempotency key embeds
the id of its payment, activation, reward, usage or user, and so names one user.

Only model-checked: all liveness (`PaidIsNoticedUnlessCrowded`, `RunningFinishes`,
`EveryUpdateEnds`), since the prover reasons neither about fairness nor `ENABLED`, and that
the two violated properties are violated. No proof needs induction over data:
the chains of the ledger are stated with quantifiers over positions, not by recursion.

## 6. Where the code and its words part

Two runs end in a violation:

* **A Stars plan may be extended twice** (`StarsPlanTwice`). `process_star_success`
  commits the receipt and reads the row again `FOR UPDATE`; with
  `expire_on_commit=False` SQLAlchemy returns the object it already has, so the status
  check at `app/payments/service.py:496` looks at the past. Two handlers of one update
  that both passed the first check both settle. Credits are saved by their ledger key.
* **Notices starve** (`NoticesStarve`). When nothing is due for a candidate, the scan
  calls `session.rollback()` (`app/notifications/service.py:237`), which expires every
  object in the session; reading `subscription.id` of the next candidate then needs a
  query that an `AsyncSession` cannot make there, and the task ends with `MissingGreenlet`.

Three more are as serious. The models have each of them, and the property named with it says
what is left of the promise; no run is spent on the violation itself:

* **A Stars receipt may be erased.** README.md:417 counts on the stored receipt. The creator
  of an order holds no lock while it waits for `sendInvoice`; a buyer who pays before it
  returns has her charge committed, and `set_provider_created`
  (`app/payments/repository.py:116`, called at `app/payments/service.py:286` and `:382`) then
  writes `external_id = None` and the payload of the invoice over it (`InvoiceShown`,
  `RecordReceipt`, `InvoiceSent`). If the settlement was done the order is paid without the
  charge id a refund needs; if it failed, nothing in the database tells of the payment.
  `ReceiptIsKept`: nothing else takes a recorded charge out of its row.
* **Reconciliation may starve a payment.** The task asks about the oldest 100 pending
  payments (`app/payments/repository.py:100`). As many that their provider never ends, or
  whose request always fails, stay at the front of every batch, and a newer payment whose
  webhook was lost stays pending though it is paid, against the "webhook safety net" of
  `app/workers/tasks.py:130`. `PaidIsNoticedUnlessCrowded`: that is the only way to miss one.
* **A paid discount may stay unconsumed.** STAGE6_REPORT.md:204 says that the activation is
  consumed exactly once. Between the two transactions of `process_star_success` the order is
  pending, and a second pre-checkout past the deadline expires it and releases its promo
  (`app/payments/service.py:431-433`). The settlement goes on with the old object,
  `consume_for_payment` finds nothing (`app/promocodes/service.py:303`) and the activation may
  discount another order (`RecordReceipt`, `CloseOrder`, `SettleReceipt` of `PromoCheckout`).
  `DiscountIsBacked`: it happens to Stars orders only, no open order loses its discount that way, and
  nobody's activation is used up by an order that was not paid.

Smaller divergences, which the models have and no run is spent on:

* README.md:417 says that a Stars receipt is stored before settlement. A charge of an
  order that is closed, or a second charge of one order, is refused before its receipt is
  stored (`app/payments/service.py:478-482`; `RecordReceipt`): the Stars are taken and the
  database does not know it.
* README.md:597 promises at most one unreserved promo code per user. When an order closes,
  its activation becomes `claimed` again beside one claimed meanwhile
  (`app/promocodes/repository.py:128`; `CloseOrder`).
* The broadcast lock has a timeout of 600 s and is extended only every 100 recipients
  (`app/broadcasts/sender.py:245`). A slow batch lets a second execution start. It repeats no
  request of the first, but the message in flight is declared failed, then recorded, and counted
  twice. Hence the condition `~lapsed` in `ProgressIsExact` and `OutcomesAreFinal`.
* A request of a broadcast is repeated after a network or server error
  (`app/broadcasts/sender.py:211`), which may follow acceptance: a recipient may have the
  message more than once, as README.md:952 allows. `AttemptsBounded` says how often at most.
* After an unexpected exception in a chat turn the handler rolls back
  (`app/bot/handlers/chat.py:190`), which expires the user's object, and reads `user.id` for
  its log (`:193`): that raises again, outside the `try`, so that neither the report nor the
  reply of the lines below is made (`GiveUp`). A turn that is committed and charged is
  answered only afterwards (`:206`): if the process dies or Telegram refuses in between, the
  user has paid for an answer she finds in no chat.
* Two settlements that pay the same recipients in opposite orders deadlock
  (`app/referrals/service.py:251`). PostgreSQL fails one of them; whether its payment is then
  settled depends on the next webhook, update or reconciliation.
* The comments at `app/ai/service.py:229` and `app/bot/handlers/chat.py:72` say that a turn
  commits while the lease is held. When the credits are gone after the answer, the
  completed and uncharged turn commits after the lease is released (`AnswerUnpaid`,
  `Return`). The lock of the users row still keeps the next turn out.
* README.md:1092 says that a renewal wins over a stale expiry candidate. The commit of
  `MarkExpired` gives the lock back before the notice is reserved: a purchase in between is
  followed by a notice of expiry. A slow scan also works with an old clock and may send a
  reminder of an end that has passed.
* `reset_user_trial` clears the flag but not the idempotency key of the bonus: the second
  trial grants nothing, and the bot announces it.
* README.md:566 promises a reward for every configured number of paying friends. They are
  counted without a lock on the referrer (`app/referrals/service.py:217`): when the first
  payments of two friends overlap, neither counts the other,
  and the milestone between is skipped.
* `grant_plan` of the bot panel and `grant_subscription` of the web panel read
  `result.extended`, an attribute the result (`extended_existing`) does not have: both
  raise and roll back (`grant_plan`, `Broken`).
* README.md:1041-1049 calls the database the source of truth for the recipients of alerts.
  `recipients_for` (`app/notifications/repository.py:76`) takes the administrators of the
  environment and lets a row only narrow what one of them gets (`Recipients` of `Alerts`).
* An error's cooldown begins with the commit of its report
  (`app/notifications/errors.py:131`), before anyone is told: a crash there loses that
  alert, and the error stays silent for the cooldown.
* The comment at `app/bot/admin_panel/service.py:773-775` says that the stored state never
  has a legal button enabled without a url. Switching it on reads the url before it takes
  the lock of the switch; a url that is cleared in between leaves the button enabled.
* `toggle_setting` reads the value without a lock: of two clicks at once one is lost. The
  audit log names the value written, so `AuditAgrees` is not disturbed.
* `set_setting` accepts `ai.history_messages` at or above `ai.summary_trigger_messages`,
  which the web form refuses (`Valid`) and `app/ai/config.py:115` refuses at each turn: the
  chat stays shut until the setting is corrected.
* The web panel may switch off the price of a model that a mode still uses
  (`update_ai_pricing`); the turns of that mode are then refused.
* The comment at `app/bot/admin_panel/router.py:670` keeps the old wizard for those
  caught in it by a deployment. Its state is in `MemoryStorage` (`app/bot/factory.py:29`),
  which a deployment empties; nobody can be in it.
* An answer is handled with the wizard's state as it was when it began: its `state.clear()`
  wipes a wizard begun meanwhile (`Clear`), and a delayed answer of one wizard may be added
  to the data of the next (`Advance`).
* A direct message is reserved before Telegram is called and stays `pending` for good when
  the process dies there: `fail_stale_pending` sees `notification_logs` only.
* `_active_subscription_for_update` (`app/admin/stage8_service.py:47`) marks an ended
  subscription expired and raises, which rolls the mark back.
* `_extract_output_text` drops repeated texts, but the convenience field is the whole answer
  and not one of several parts: an answer of two parts that also comes in that field is returned twice over.

## 7. What is not modelled

* Amounts, prices, discounts, character budgets and token counts: only their effect (a
  credit, a refusal, a prefix that fits) is.
* Signatures and ownership checks: fixed per order, as are the tokens.
* Buttons and pages that only show something, texts and pictures; login and sessions of the
  web panel; methods of the panels that nothing calls (`add_user_requests`,
  `promo_create_subscription`).
* Referral rewards in days and requests, which change subscriptions instead of wallets.
* Quotas (`app/subscriptions/access.py`) and the activation of legacy trials: nothing calls
  them any more, credits have taken their place.
* The effect of maintenance mode (it turns updates away before any handler), API health,
  preflight, the schema and its migrations.
* Deleted users; a database restored from a backup.
