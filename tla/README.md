# Chronix Edu in TLA+

Chronix Edu is school management software sold to many schools: an Express/TypeScript API on
PostgreSQL (`apps/api/src`), a Next.js web application (`apps/web`) that only shows what the API
allows, SQL migrations (`migrations/`), Redis for caches and counters, and three services outside
the repository: Paystack (payments), Supabase (accounts, files), SendGrid and Termii (mail, SMS).

This directory models the parts of the API where several requests, jobs and callbacks write the same
rows: money owed by parents and by schools, a class's results, the queues that tell parents and send
mail, an administrator's second factor, and who is let into a school while it is suspended and
deleted. The modules are checked with TLC on small instances, and the properties that matter most are
proved with TLAPS for every value of the constants.

Contents: 1 inventory, 2 plan, 3 the modules and the code, 4 the runs, 5 bounds, 6 fairness,
7 what is proved, 8 what the checks found, 9 what is not modelled.

## 1. Inventory

Every handler is an Express route that awaits one SQL statement after another. There are no locks
in the process; what isolates two requests is PostgreSQL alone (READ COMMITTED, row locks where a
statement asks for one, unique constraints), and a restart of the API may end any request between
two statements. Almost all the hard behaviour comes from this.

| Component | State | Operations | Hard behaviour | What makes it correct |
|---|---|---|---|---|
| Fee ledger (`db/queries/fees.ts`, `feeRefunds.ts`) | fee_invoices, payments, fee_refunds | generate invoices, record a payment, refund | overlapping transactions, checks made before the write, deadlock of two billing runs, crash in a transaction | an invoice is what its payments add up to; no overpayment or double tender; refunds within their payment |
| Online fee payment (`feeCheckouts.ts`, `routes/fees.ts`, `routes/feesPublic.ts`) | fee_checkouts, Paystack's charge | initiate, webhook, return page, bursar records a reference | repeated and racing deliveries, lost answers, death between two statements | captured money is credited once, to the invoice and at the fee it was started for |
| Platform subscription (`subscriptionService.ts`, `routes/superAdmin.ts`) | platform_subscriptions, schools.subscription_tier | PATCH, extend trial, record payment, daily trial job | decisions on rows read before, writes by id | stages follow the calendar, a lapsed trial is gated, a paid plan gated by a stale decision is set right |
| Platform billing online (`platformBilling.ts`, two routes) | platform_subscription_payments | checkout, webhook, return page | as for fees | settled once and for good; captured money is settled |
| Results (`routes/results.ts`, `routes/scores.ts`, their queries) | scores, subject_result_status, result_status | enter scores, submit, approve, publish, return | no handler locks a row; check and write are separate statements | nothing unmarked is submitted, approved or published; the class moves together |
| Report cards (`reportCardService.ts`, `reportCards.ts`) | report_cards, files | batch generation, release | a batch that goes on after its request was answered | a card is complete, and shows what was published |
| Paystack pricing (`paystackPricing.ts`) | none | total for a fee | a binary search over a function that drops where the flat charge starts | the smallest total that leaves the school its fee |
| Parent notifications (`notificationWorker.ts`, `auditLogger.ts`) | audit_logs queue, notifications, notification_logs | queue, tick, tell by app, mail and SMS, stamp | two replicas, a crash after the parents were told, rows that never work, a limit read before it is used | every parent is told, again only after a fault |
| Fee reminders (`feeReminderService.ts`, `routes/fees.ts`) | the same, and a run's audit row | weekly run, the office's run | two runs that do not know of each other | texts stay within the limit and the runs in flight |
| Cron exclusion (`cronTracker.ts`) | session-level advisory locks | try, run, unlock | the lock's connection drops while the job runs | one run at a time unless it does |
| Email queue (`emailQueueService.ts`, `emailQueue.ts`) | email_queue | queue what was refused, retry, count, give up, sweep | sent and not marked, lost answers, a sweep in the middle of a run | every mail settles, goes twice only after a fault |
| Second factor (`twoFactorStore.ts`, `loginChallenges.ts`, `routes/twoFactor.ts`, `routes/auth.ts`) | user_totp, user_recovery_codes, login_challenges | enrol, confirm, new codes, move to a phone, disable, require, second step of sign-in | one code on two routes at once, a move started again, a requirement set in between | a code works once, a challenge opens one session |
| School gate and cache (`cacheService.ts`, `requireActiveSchool.ts`) | a copy of the school per process | read through, suspend, reactivate, drop | a fetch that finishes after the drop, a drop in one process only | a gate's answer is at most one cache time and one query old |
| School deletion (`scripts/delete-school-data.js`) | schools, Supabase | suspend, wait, delete logins, delete rows | no key can be dropped, a school reactivated meanwhile | no process remembers a deleted school |
| Fee lines | fee_structures | insert, update, delete a line | one writer locks the term, another does not | one line per name |
| Login lockout | Redis counters | try, lock | counter and expiry are two commands | a lockout ends |
| Sessions and terms | is_current flags | activate | two activations at once | one current term |
| Support sessions | sessions of an administrator inside a school | start, use, end | use racing the end | nothing is written after the end |

The rest is CRUD, reports, documents and the web application (section 9).

How they interact: a payment of any kind ends in `recordPayment`, so the online flow and the bulk
import stand on the ledger; what a parent is asked for online comes from the pricing; both Paystack
webhooks verify with Paystack before they believe anything; the trial job, the administrators and
`settlePayment` write the same subscription row; approval and publication read the marks and subject
statuses, report cards read marks and results, and publication releases cards and queues notices for
the notification worker. The worker and the reminders send mail that ends in the email queue when
SendGrid refuses it. Worker, retries, reminders and trial job run under the same kind of advisory
lock. Every request to a school passes the gate, whose cache the deletion script must wait out; the
script may purge rows the worker has read.

The hazards of `PROJECT.json` list, at their lines, the places where these behaviours bite.

## 2. Plan

The order was: money first, then what a class is told, then what is sent, then who may come in.

1. **Fees** (done): `FeeLedger` (abstract: each operation indivisible), `FeeTransactions` (statements,
   locks, crashes; implements `FeeLedger`), `FeeCheckout` (online flow, extends `FeeLedger`, uses its
   `Pay` as one step, which `FeeTransactions` justifies, and is shown to implement it too).
2. **Subscription** (done): the row with all its writers, the online payment included.
3. **ClassResults** (done): results and report cards of one class.
4. **Notices**, **EmailQueue** (done): the worker, the reminders and the cron lock; `NoticeDelivery`
   is the abstract promise, which `Notices` implements. Publishing in `ClassResults` is one of its
   producers.
5. **SchoolGate** (done): the read-through cache beside suspension and deletion.
6. **SecondFactor** (done): codes, challenges, moves.
7. **PaystackPricing** (done): the charge and the search.

Left out after all. *Fee lines*: the ledger takes any total, and the lines add only that the total of
a run is the sum it read, which the code never promises to be the latest. *Lockout*: two counters
whose only hazard is the gap between `INCR` and `EXPIRE`, on a store that is allowed to fail open.
*Terms* and *support sessions*: one flag and one row, a statement each.

Proofs are in a module per component, with two exceptions:
`MailAndFactorProofs` holds the email queue's and the second factor's, and the pricing, which says
what the online flow asks a parent for, is proved beside that flow in `FeeCheckoutProofs`. The
operators of `EmailQueue` and `PaystackPricing` carry their component's name for that reason
(`MailInit`, `PricingInit`).

Worth doing next: a second school in the trial job (a row that fails stops the run for those after
it), and the fee lines if the code ever promises more about them.

## 3. The modules and the code

`FeeLedger.tla`. `invoices` is fee_invoices by student and term (total, paid, balance, status);
`payments` the committed payments in order, each with what was refunded of it. `Pay`, `Refund` and
`Bill` are `recordPayment`, `recordRefund` and `generateInvoices` as if indivisible, with every check
each makes: a Paystack reference not yet recorded, no tender above the balance, no equal cash or
transfer tender within `Window` (five minutes), refunds within the payment, no refund of a waiver.

`FeeTransactions.tla`. A session carries one request; `pc` is the statement it has reached, `lock`
the holder of each invoice's row lock, `seen` what it read when it took the lock. `PayLock`,
`PayCheck`, `PayWrite`, `RefundLock`, `RefundCheck`, `RefundWrite`, `BillUpsert` and `BillCommit` are
the statements; `Rollback` every early return; `DeadlockVictim` PostgreSQL's choice when two billing
runs wait for each other; `Crash` a dead process, whose transaction the database rolls back; `Tick`
the clock. Writes become visible at COMMIT, so the last statement of a payment or refund and its
COMMIT are one action: nobody can see between them. The billing run's order is arbitrary because its
student query has no ORDER BY.

`FeeCheckout.tla`. `checkout` is the fee_checkouts row of a reference, `charge` Paystack's
record, `opening` the initiate request that waits for Paystack, `task` each request's place in
webhook, return page or bursar's route, and then in `settleFeeCheckout` (`Find`, `Judge`,
`Record`, `Consume`) and `Audit`. Paystack is external: it opens what it was asked for even if its
answer is lost, captures the amount asked or another, in naira or not, also on transactions made
outside this application, and repeats its webhook until one is answered 200. The branch of
`settleFeeCheckout` that catches SQLSTATE 23505 is not reachable here, because two settlements of
one row lock the same invoice; it would need one reference on two invoices at once.

`Subscription.tla`. `row` and `tier` are the school's row and its tier column; `admin`, `job` and
`delivery` hold what each writer in flight has read; `today` is the date. `StartPatch`/`PatchRow`/
`PatchTier`, `StartExtend`/`ExtendRow`, `StartRecord`/`RecordRow` are the administrators' three
routes cut where the code awaits; `JobSelect`/`JobWrite` the daily job on this school; `Checkout`,
`CheckoutReturns`, `CheckoutFails`, `Find`, `Settle` the online payment, whose webhook and return
page run the same `settlePayment`. `runExclusive` is modelled as one run of the job at a time.

`ClassResults.tla`. One class and term. `score`, `subject`, `result`, `card` are rows, `pdf` the
stored file, `task` a request's next statement and what it read. One action per statement of both
score entries, submit, approve, publish, return and the report-card batch, which goes on after its
request was answered. `Move` changes who is in the class, `Elsewhere` what another class does to a
pupil who left, `Die` ends a request anywhere. One `INSERT .. SELECT` is one action, as PostgreSQL
makes it. A pupil's marks in a subject stand for all the components of the assessment, which are
locked once scores exist; the teachers' assignments are fixed for the term; the status 'submitted' of
a pupil is legacy that nothing writes since migration 030. Pupils who join late (`Mover`) can be
approved unmarked or hold a class up, so the properties speak of those who are there all along.

`NoticeDelivery.tla` and `Notices.tla`. The first is the promise without workers, batches or locks:
`notice` is unwritten, open, closed or dropped, `told` the parents told; a notice is closed only when
all it is owed to were told. The second is the code. `row` is the audit_logs queue, `posts` and
`mailed` what reached a parent, `texts` and `logged` the day's texts as Termii and notification_logs
know them, `lock` the advisory locks, `run` the statement a worker or a reminder run has reached with
the batch and the parents it still has. `Tick`, `ReadBatch`, `OpenRow`, `Post`, `Mail`, `Limit`,
`Text`, `Log`, `Mark`, `EndBatch` are the worker's awaits in order; `RemindNow` and `RemindWeekly`
start the same walk for the reminders. `Throw`, `AnswerLost`, `Crash` and `DropSession` are the
faults, `Purge` a school deleted under the worker. The refinement maps the row's status and who is
reached by every channel that does not depend on a phone (`Delivery`, by INSTANCE ... WITH).

`EmailQueue.tla`. `email` is the life of a mail and its row, `accepted` how often SendGrid took it,
`job` the retry run of each replica with the attempts it read. `Send` and `Enqueue` are `sendEmail`;
`Tick`, `Resend`, `MarkSent`, `CountAttempt`, `EndRun` the retry job, whose `MarkSentFails` and
`CountFails` are its catch and what escapes it; `Retention` the daily DELETE of whatever is a week
old.

`SecondFactor.tla`. One administrator's account: `factor` is the user_totp row, `recovery` the unused
recovery codes, `challenge` login_challenges, `request` the statement each request has reached and
the code it carries. A request reads the state (`ReadState`), then the secret (`ReadSecret`), then
tries its code in one UPDATE (`Accept`); what follows is its route's own transaction (`Spend` and
`Issue`, `SavePending`, `Activate`, `DeleteCodes` and `InsertCodes`, `StartMove`, `CompleteMove`,
`Disable`). Wrong answers are counted on the challenge and on the account. A code is the secret and
the step that made it; `uses`, `sessions` and `confirmed` are history. `replaceRecoveryCodes` is cut
in two because under READ COMMITTED its DELETE does not see a set that is not yet committed.

`SchoolGate.tla`. `school` is the row, `cache` each process's copy with its expiry, `req` a query
under way in `cache.wrap`, `admin` a suspension or reactivation between its SELECT, its UPDATE and its
`cache.del`, `script` the deletion run, `logins` what is at Supabase. Time is in the model, since the
script's only protection is to wait longer than a copy lives. That an answer of the database takes at
most `FETCH` is an assumption about the deployment: the code sets no timeout. A school user created
between the Supabase step and the transaction is not modelled.

`PaystackPricing.tla`. One behaviour is one call of `totalForSchoolToReceive`; `lo` and `hi` are the
bounds of its loop, `pc` which of its two searches runs. The charge is an operator of the amount.

A definition whose comment starts with "Mutant" is a plausible bug of the definition after it. No
specification uses it; it is there to show that a property would catch that bug.

## 4. What each run checks and shows

| Run | Question | Result |
|---|---|---|
| `FeeTransactions` | Two requests of any kind on two invoices, dying anywhere: do the books balance, are references and tenders kept apart, and do the statements implement `FeeLedger`? | Holds, 352,759 states. `BooksBalance` relates every invoice to the sum of its payments less refunds; `ImplementsLedger` is the refinement. |
| `FeeLiveness` | Does every request end, two billing runs in opposite orders included? | Holds. |
| `FeeCheckout` | Webhook, return page and bursar race for one reference while the office bills and takes cash. Is the payment credited as started, once, audited at most once, its row consumed for good, and captured money credited although requests die? | Holds, 160,258 states, unless the webhook was answered 200 while Paystack could not be reached to verify (`acked`): that exception is in `CapturedIsConsumed`. |
| `SubscriptionPayments` | Two racing deliveries, an administrator and the job. Settled once and for good, restored once, captured money settled, do the job and extend-trial agree on the calendar, lapsed trials gated, wrongly gated paid plans healed? | Holds, 506,273 states. `CapturedIsSettled` begins when the initialize call has come back, and excepts a webhook answered 200 unverified. |
| `ClassResults` | Any two requests or batches on a class with a pupil who comes and goes. Is nothing unmarked submitted, approved or printed, and is the class never split? | Holds, about four million states. |
| `Notices` | Two workers and a reminder run, a row that can never be delivered, one fault of any kind. Is every parent told before a row is stamped, is every row stamped, who is told twice, how many texts beyond the limit? | Holds, 351,144 states. `ImplementsDelivery` is the refinement, liveness included. |
| `EmailQueue` | Two replicas retry two mails while the sweep deletes, with two faults. Does every mail settle, and which go twice? | Holds, 615,059 states. |
| `SecondFactor` | Two overlapping requests of four, on any routes, with any code the account ever had. Does a code work once, a challenge open one session, a move end on a confirmed secret, a required factor stay on? | Holds, 3,630,096 states. |
| `SchoolGate` | Two processes, two fetches, an administrator and the deletion script. How stale is a gate, and does a process remember a deleted school? | Holds, 1,049,841 states. |
| `PaystackPricing` | Every fee from 1 to 300 against a linear search. | Holds, 2,087 states. |
| `SubscriptionUpgrade` | The trial job's header: it never gates a paid plan. | Violated: section 8. |
| `SchoolGateLogins` | The deletion script's header: a school reactivated during the wait is never deleted. | Violated: section 8. |

## 5. Bounds, and why they are enough

- Requests in flight: two. Each hazard is a pair: a check and the write of another, a delivery and
  its repetition, two orders of locking. The proofs do not depend on it.
- `FeeTransactions`: two invoices (a deadlock needs two), amounts 1 and 2 (a part payment, an
  overpayment, a full one), three methods (a bank transfer is treated as cash in every branch), one
  reference, clock 0..1 with `Window` 1 (inside and outside the window), `MaxPayments` 2 (a payment
  and one that conflicts with it). `FeeLiveness` has one amount and one payment: what it asks is
  about locks.
- `FeeCheckout`: one reference, one invoice, `Extra` one convenience fee, so that asked and credited
  differ; at most two payments. A claim on another invoice is covered by the proof.
- `Subscription`: `LastDay` 2, `TrialDays` 0 and `Grace` 1 give a day in each stage; `LastEnd` 1
  allows one extension of a day; four PATCH bodies (to premium, back to trial, suspend, cancel); one
  reference; one administrator beside the job and the deliveries. Two administrators at once, and an
  extension that still leaves the trial read-only, which needs one day more, are in the model and
  covered by the proofs, not by the run.
- `ClassResults`: two pupils who stay and one who moves, two subjects, one mark (completeness is
  about its presence); `Batch` enters one pupil or two at once, `Followed` bounds whose cards are
  tracked.
- `Notices`: two rows, the older of which (`Poison`) never works, in batches of two; two parents, one
  with a phone; a limit of one text; one fault, which every property counts. `EmailQueue`: two
  faults, and three attempts for the code's five (first, middle, last).
- `SecondFactor`: three secrets (the one in use, a pending move, that move started again), two steps,
  two sets of one recovery code, window 0, a lock after one failure, one challenge. A wrong code is
  one value; codes outside the window are wrong codes. `MaxRequests` 4 lets two requests prepare what
  two more race for.
- `SchoolGate`: copies live 1, a query takes up to 1, the margin is 2, the clock ends at 6: suspend,
  wait 3, delete, and a copy's life after that. One school; a run over many is in the model and
  covered by the proof.
- `PaystackPricing`: the real percentage; flat charge and cap are small enough that fees up to 300
  meet the flat charge (100), the cap (134) and both sides of each.

Symmetry is used only in runs without liveness, and only on sets whose members the model never
distinguishes. `PaystackPricing` ends, and is the one run without deadlock checking.

## 6. Fairness

- `TxFairSpec`: strong fairness of each session's next statement. PostgreSQL serves the waiters of a
  row lock in turn and detects deadlocks; the API waits for nothing but the database while a
  transaction is open.
- `CheckoutFairSpec`, `SubFairSpec`: Paystack repeats the webhook of a captured charge until it is
  answered 200, so delivery is strongly fair until then; requests in flight end, if only by dying;
  and the deliveries of one charge do not die at the same statement forever (strong fairness of each
  statement for some delivery). Without the last one nothing is promised: a server that fails at the
  same statement every time credits nobody.
- The trial job is scheduled daily: weak fairness of its selection, strong fairness of its write, so
  a day whose run dies is followed by another.
- No fairness for people: nobody is obliged to start a payment, return to the page or press a button.
- `Notices`, `EmailQueue`: weak fairness of the ticks, on some replica (setInterval and cron fire for
  as long as one is up; a replica that cannot take the lock skips), and of the next step of each run
  (every await ends in an answer or a throw). None for the reminders, which people start, and none
  for faults. `NoticeDelivery` asks for fairness of telling and closing only for rows whose
  recipients can be read.
- `PaystackPricing`: weak fairness of the loop.

## 7. What is proved

Every safety invariant and action property of the passing runs is a theorem, and so is the safety part of each
refinement. Assumptions are the ASSUMEs of the modules: amounts are positive, the class, the parents
and the office's desks are finite sets, the names for "nothing" differ from values, the mark for "no
mark" is no mark, parents, rows and mails are numbered, an account can make at least one secret and
one set of codes, a query is shorter than the deletion script's margin. All else is arbitrary: any
number of sessions, invoices, pupils, administrators, days, replicas, schools, faults, charges. TLC
checked the inductive invariants on small constants before they were proved.

- `FeeLedgerProofs`: `LedgerSafe`, the safety of the indivisible ledger (every row is the one its
  total and paid amount give, refunds within payments, references unique, equal tenders apart), and
  `BooksAlwaysBalance`: every invoice says what its payments and refunds add up to. That is about a
  sum over a set (`Received`, a fold), and the library states its folds' laws by induction theorems
  that take an operator, which no installed prover instantiates. `FirstFailure` replaces them: if a
  statement about sets fails for some finite set, it fails for one of least size (`WFMin` over Nat).
  With it `SumsExist` shows that the function the fold is defined by exists, `FoldsAgree` that it
  depends only on what it adds, and `SumTakes`, `SumMoves` and `SumGrows` say what one payment more, or
  one that changes, does to the sum. `BooksInv` is then inductive: `Pay`, `Refund` and `Bill` each change an invoice's paid
  amount by what they change in the sum.
- `FeeTransactionsProofs`: the inductive invariant `TxInv` joins the types, the ledger's invariant
  and, per session, that a row under lock equals what was read, that a request past its lock holds
  it, and that what it checked is still true. The properties alone are not inductive: that refunds
  stay within a payment follows only because the refund in flight holds the invoice's lock, so its
  check is still true when it writes. From `TxInv` follow `TypeCorrect`, `NeverStale`, `ChecksHold`,
  `CreditNeedsPaystack`, and `TransactionsImplementLedger`: each `..Write` or `BillCommit` is the
  ledger's step, everything else a stutter. `NoUpdateLost`, `RefundsNeverExceed`, `ReferencesUnique`
  and `TendersApart` are carried down from the ledger along it.

  `LockInv` adds the lock table: a row's holder is at a statement that needs the lock (`LocksFit`), and
  a billing run's order has no invoice twice (`BillsOnce`), so a run never waits for itself. From it:
  `DeadlocksAreBillings` (a circle of transactions that wait for each other contains a circle of
  billing runs alone, so `DeadlockVictim`, which PostgreSQL takes among those, breaks every deadlock)
  and `LocksNeverStick` (while a request is under way, one of them asks for no held row, or a victim can
  be taken). This is the part of `RequestsEnd` that is not fairness.
- `FeeCheckoutProofs`: `CheckoutInv` joins the ledger's invariant, each row's relation to the payment
  of its reference, and what each request in flight knows (`TasksKnow`): one about to record has seen
  the charge captured at what the row asked, one about to consume has the payment of that reference,
  and at most one will audit it (`OneAuditor`). What makes it inductive is that a captured charge and
  a started row's invoice and amounts never change (`Steady`). From it: the type, `StartedIsCredited`,
  `CapturedFirst`, `OneAudit`, `ConsumedIsPaid`, `SuccessIsTrue`, `ConsumedStays`, and
  `CheckoutImplementsLedger`, so that every theorem of the ledger holds of the online flow
  (`OnlineBooksBalance` is stated).

  The pricing's `SearchInv` says that everything below `lo` is short (`ShortBelow`) and that a search
  never crosses the amount where the flat charge starts (`OneSide`), on each side of which what the
  school receives only rises (`Rising`). From it: `SmallestTotalCorrect`, `SecondSearchFinds` (the
  code's assertion that the second search is never null), and `SearchHalves` (a turn of the loop
  leaves at most half of its range, so the loop can only end), for any flat charge, threshold and
  cap. That needs the percentage to be the code's 1.5 %.
- `SubscriptionProofs`: `SubInv` adds that consumed money was captured at the right amount and that
  what the job selected was due, with the stage of a day between the end and today. The last is
  needed because the job writes later than it decides. From it: `SubTypeCorrect`,
  `PaymentsSettleForGood` (with it, that only the initialize failure can mark rightly captured money
  failed), `PaymentRestoresOnce`, `StagesAreTheCalendars`.
- `ClassResultsProofs`: `ResultsInv` adds who is in the class (`StayersIn`) and what each request in
  flight knows (`WorkersKnow`): a request about to submit has seen a mark for everyone, one about to
  approve has seen every subject submitted. It is stable because a mark is replaced and never
  removed. From it: the type, `SubjectsComplete`, `ResultsComplete`, `ReportCardsComplete`,
  `ClassMovesTogether`.
- `NoticesProofs`: `NoticesInv` adds that each lock is held only by a run of its own job
  (`LocksApart`) and that whoever is left out of a worker's remaining list has been told of the row it
  is on (`WorkersKnow`). `NoticesDeliver` is the safety part of `ImplementsDelivery`: with any number of
  replicas, rows, parents and faults, each step tells one parent, closes a row whose parents are all
  told, or is a stutter.

  The two bounds that count runs in flight against faults are accounts. `PostsPaid` says of each row
  and parent that the posts made, the one post still due (`Due`: of the worker with the lock, or of
  the open row when it has not got it), and one for each worker that lost its lock and still has the
  row to post (`Loose`) are together at most one more than the faults: a crash or a throw makes a post
  due again and is a fault, losing the lock makes a worker loose and is a fault, and reading a batch
  is free because only the lock's holder does it. `RepeatsNeedFaults` follows. `TextsOK` has two: a
  parent's texts beyond those logged, or about to be, are paid for by faults, and so are the workers
  that go on without the lock (`Astray`); hence the texts sent, or already past the limit's check, are
  at most the limit, one for each desk and the faults (`LimitHolds`).
- `MailAndFactorProofs`: `MailInv` is that account for the email queue (`SendsPaid`: what SendGrid
  accepted of a mail, what is due of it, and one for each run that lost its lock), with `BatchesFit`:
  the sweep may take a row out of a run's batch, but a run never has a mail that was not queued. From
  it `MailIsTyped` and `ResendsArePaid`: a mail goes out twice only after a fault.

  `FactorInv` joins what each request knows at its statement (`RequestsKnow`), that a challenge with a
  session, or about to have one, is spent and has one issuer (`ChallengesSpent`), that secrets in use
  and pending were made and differ (`SecretsFit`), and where used codes are (`UsesFit`): a used
  authenticator code is of a secret that was given up or no later than `last_used_step`, and a used
  recovery code is no longer among the unused. `CodesWorkOnce` alone is not inductive: the UPDATE
  that accepts a code looks at the row, and only `UsesFit` relates the row to the past. From it
  `FactorIsTyped`, `CodesAreUsedOnce`, `ChallengesOpenOnce`, `MovesEndConfirmed`, `RequiredIsKept`, for
  any number of overlapping requests.
- `SchoolGateProofs`: `GateInv` bounds every copy's expiry and every query's age, and says that a
  script past its wait has outlasted all that was read before the suspension (`WaitOutlasts`). From
  it: `StalenessIsBounded` and `DeletionIsFinal`, for any cache time, margin and query time below it.

Only model-checked: the liveness properties, since the installed provers cover neither fairness nor
ENABLED. They are `RequestsEnd`, `CapturedIsConsumed`, `LapsedIsGated`, `PaidIsHealed`,
`CapturedIsSettled`, `EveryMailSettles`, `SearchAnswers` and the liveness part of `ImplementsDelivery`.
`LocksNeverStick` and `SearchHalves` are what can be proved of two of them: that there is always a
step to take, and that it comes closer to the end.

## 8. What the checks found

Two runs are expected to fail, and each shows a disagreement between the code and its own words:

- `SubscriptionUpgrade`: the trial job decides on a row it read and updates by id
  (`subscriptionService.ts:98`). A lapsed trial upgraded in between is left in 'grace' or 'read_only'
  on a paid plan, where the header says that the job never gates one (:37). `PaidIsHealed` shows that
  a later run sets it right once its end date has passed.
- `SchoolGateLogins`: the deletion script takes a school's logins and files at Supabase before its
  transaction locks the row and looks at `is_active` again
  (`apps/api/scripts/delete-school-data.js:323`). A school reactivated during the wait keeps its rows
  and loses its logins, where the header says that it is never deleted (:50) and the message that
  nothing was deleted (:361).

The rest became plain while modelling. These states are reachable in the models, and no run states
the opposite.

- The job's late write overwrites the rest as well. A trial extended in between becomes read-only
  with an end date still to come, and one extended and then paid for a paid plan in that state: no
  run looks at either until the date has passed. A subscription cancelled in between comes back as
  grace, and a paid plan the job found in a trial status and sets to 'active' may have been put back
  to a trial meanwhile.
- record-payment writes nothing if it read a paid and active subscription
  (`routes/superAdmin.ts:1531-1541`): a trial another administrator made of it meanwhile remains.
  `settlePayment` moves no plan at all, though its comment calls it the same reactivation
  (`db/queries/platformBilling.ts:192`), so a payment started before the plan was put back to a
  gated trial leaves an active trial, which "would be free and never expire" (`superAdmin.ts:1530`).
- A lapsed trial cannot pay: the checkout refuses plan 'trial' (`routes/platformBilling.ts:99`), and
  the job leaves the plan as it is. The changelog says that it can (`docs/CHANGELOG.md:472`).
- A checkout whose initialize answer is lost is marked failed, although Paystack may have opened the
  charge; money captured on it is never settled, because a row marked failed counts as settled
  (`db/queries/platformBilling.ts:150`), and the return page shows the payer success.
  `CapturedIsSettled` starts after that call for this reason, and `SettledForGood` says that it is
  the only way rightly captured money is marked failed.
- A score entry that read the locks before a submission or an approval writes its mark after it
  (`routes/scores.ts:118`): what was submitted or approved is then not what is stored. The mark is
  replaced, never removed, so completeness stands.
- Return writes 'draft' without looking at the status again (`routes/results.ts:555`), so it can undo
  a publication, against the comment at :529. A publish that finds its rows returned has the opposite
  effect (:432): it ignores how many rows it changed, releases cards and queues notices for results in
  draft.
- Report cards printed at a first approval are released by a later publication
  (`db/queries/reportCards.ts:194`), although the marks were corrected in between.
- A request that dies between consuming a fee checkout and auditing it leaves the payment without
  audit row and receipt, since every later delivery is a duplicate. A crash between publishing the
  statuses and releasing the cards leaves the cards held. An administrator's tier write can be left
  behind its plan.
- Fifty rows whose recipients can never be read fill `BATCH_SIZE` and stop the queue for good
  (`notificationWorker.ts:159`). The email sweep deletes what was never sent, after a week without a
  mail service (`db/queries/emailQueue.ts:34`). The weekly reminders and the office's run may tell the
  same parent twice.
- The confirmation of an enrolment turns on whichever secret is pending by then
  (`db/queries/twoFactorStore.ts:110`), not the one its code was checked against; the phone move does
  compare. A code accepted after a move may have been checked against the secret before it. Two
  overlapping requests for recovery codes leave both sets valid. `CodesWorkOnce` and
  `MovesAreConfirmed` are stated so as to say what holds.
- A school reactivated and suspended again during the script's wait is deleted without a new full
  wait, which is why `DeletedIsForgotten` speaks of schools nobody reactivated. `settlePayment` drops
  no key: a school that pays is still gated until its copy of the subscription expires.

## 9. What is not modelled, and why

`PROJECT.json` lists each part with its reason. In short: CRUD behind unique constraints
(students, roster, attendance, behaviour, timetable, messages), reads (dashboards, analytics,
exports, portals, partner API), rendering (cards, receipts, transcripts, mail text), parsing of
imports, the web application, and row-level security, which is policy without state. The result
engine is arithmetic: the workflow around it needs only which marks a card was made from. Fee lines,
lockout, terms and support sessions are left out for the reasons of section 2; the plan and write
gates read the row of `Subscription` through the cache of `SchoolGate` and add one comparison each.
Together these are most of the repository's lines, above all the web application and the CRUD routes,
so the models stand for a small share of it: the share in which an order of steps can go wrong.

Within the modelled parts, audit rows are modelled only where a property is about them
(`FeeCheckout`), the bulk import of payments is one `recordPayment` per row, and the trial job is
modelled on one school (the hazard at `subscriptionService.ts:111`). A school's notification channels
and a class's teachers are constants. The mail service is configured. The password check of the
sign-in, the signing of tokens and the encryption of secrets are outside `SecondFactor`.
