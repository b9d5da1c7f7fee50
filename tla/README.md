# Verification of the Aaraagate society platform

Aaraagate runs housing societies: invoices and payments, a double-entry ledger, gate access,
amenities, helpdesk, workforce, a services marketplace. It is one NestJS API
(`src/services/api`) over PostgreSQL, with Redis for sign-in state, a timer that sweeps
background work, a payment gateway that reports by webhook, push transports, and three
clients (`src/apps/resident`, `src/apps/guard`, `src/apps/admin`).

Nearly every operation is a transaction whose correctness rests on which rows it locks and in
which order, on a unique index, or on the guard of an UPDATE; several instances of the API may
run. That is where the models are aimed: they keep every lock, guard, early return and commit,
and reduce names, texts, tenancy and amounts to what the properties tell apart. Each model is
about one society, because every statement of the code is scoped by `societyId`.

## Inventory

| Part | State | Operations and interactions | What is hard | What makes it correct |
|---|---|---|---|---|
| Payment orders, webhooks (`billing/`) | MaintenanceInvoice, Payment, PaymentEvent, PaymentWebhookReceipt | createPayment; reconcile and replay; the processor. The gateway calls, residents retry | two keys, two payers, ON CONFLICT, events duplicated, reordered, lost; crash between receipt and transaction | one live order per invoice, PAID exactly while money is held, every event applied once and never lost |
| Push outbox (`notifications/`) | PushDeliveryOutbox | enqueue, attempt, drainDue; called by every notifying service and the sweep | overlapping workers, leases that run out, late answers, death between delivery and record | bounded deliveries, no late answer undoes a newer claim, every row settles |
| Journals, periods (`accounting.service.ts`) | JournalEntry, JournalLine, AccountingPeriod, triggers | createDraft, postJournal, reverseJournal, closePeriod | posting against closing, opposite lock orders | closed books frozen, a journal reversed once |
| Expenses, payables, budgets (`finance-operations.service.ts`) | SocietyExpense, SocietyPayable, PayableSettlement | create, approve, post, settle; budget reports. Inserts into the ledger | two postings, part payments, a reversal behind the sub-ledger's back | booked once, PAID exactly when settled, reports agree with the ledger |
| Receivables, waivers, late fees | Receivable, adjustments, allocations, batches | issue, adjust, allocate, review, apply | journals inserted as POSTED against the trigger | charges reach the ledger |
| Gateway reconciliation (`payment-reconciliation.*`, `payment-exceptions`) | PaymentGatewayOperation, PaymentReconciliationCase | runner claims operations, calls the gateway, records | lost or slow answers, overlapping claims, exhausted attempts | one refund effect per operation, no settled operation reopened |
| Amenities (`amenities/`) | AmenityBooking, AmenityWaitlistEntry, its Payment, blackouts and schedule; one advisory lock per amenity | create, cancel, review, attendance, expire deposits, promote, change the schedule | row then advisory lock against advisory then row; deposit deadline against capture | capacity, fair promotion, no place given away with its money kept |
| Gate access (`access/`, `src/apps/guard`) | AccessRequest, GateMutationReceipt; the guard's stored queue and uncertain keys | approve, deny, cancel, check in, check out; offline replay | checks before the transaction, replays after a lost answer | one entry per visit, a committed action is answered, not repeated |
| Sessions, one-time codes (`auth/`) | Session in PostgreSQL, used tokens and codes in Redis | create, refresh, revoke, verify | two stores, concurrent refresh, lost answers | one live token, a code works once, attempts counted |
| Marketplace (`services-marketplace/`) | bookings, proposals, assignments, agents, quality evidence, payments, settlement batches, recoveries | book, propose, dispatch, assess, confirm, pay, refund, settle | locks on booking, agent and assignment in several orders, evidence against confirmation, refund against payout | no double assignment, no unchecked completion, each payment settled once and owed back when refunded |
| Workforce, SOS, helpdesk, notices | attendance, incidents, tickets, dispatches | clients, the sweep, offline queue | sweep against person, stale claims | one escalation, one active incident, each dispatch settles |
| Accounting exports (`accounting-export.*`, `accounting-connector-delivery.*`) | AccountingExportJob, AccountingExportArtifact, AccountingConnectorDelivery | request; runners claim, render and store, seed, claim, call the bridge, record; manual retry. Reads the ledger | leases that end under a slow worker, late answers, UPDATEs that only ask for PROCESSING | count and artifact from one reading, one content per key, final answers stay, every request ends |
| Partner licences (`entitlements/`) | capacity reservations, claims | reserve, release, transfer | capacity shared by transactions | never above the licence |
| Everything else | see `PROJECT.json` | CRUD, read projections, I/O, screens | nothing with more than one interruptible step | — |

Interactions: clients call the API; the gateway calls the webhook endpoint and is called by the
reconciliation runner; every notifying service writes the push outbox, which the sweep of
`scheduled-work.service.ts` drains; expenses, receivables, late fees, waivers and opening
balances all insert into the one ledger; deposits of amenities are paid through payment orders.
`PROJECT.json` lists each part with its status, and under `hazards` the places where the code is
hard to test, each with the properties that watch it or the reason there is none yet.

## Modules

| Module | Models | Composes |
|---|---|---|
| `InvoiceSettlement` | the promise of online payment: open, capture, fail, refund, with no lock, call or webhook | — |
| `PaymentOrders` | `payment-order.service.ts`, `reconcile` and `replay` of `billing.service.ts`, `payment-webhook.processor.ts` | implements `InvoiceSettlement` (`INSTANCE … WITH`, a mapping of orders and invoices) |
| `PushOutbox` | `push-delivery-outbox.service.ts` | — |
| `SocietyBooks` | the promise of the ledger: append-only entries, one mirror, one entry per expense, payment by standing entries; no draft, lock or call | — |
| `SocietyLedger` | `accounting.service.ts`, `finance-operations.service.ts`, the issue transaction of `receivables.service.ts`, the triggers of the accounting migrations | ledger and expense sub-ledger in one module, because they share transactions; implements `SocietyBooks` |
| `AmenityBookings` | `amenities.service.ts`, `amenity-booking-creator.ts`, the deposit branch of `payment-order.service.ts` and `payment-webhook.processor.ts`, the amenity triggers and indexes | bookings, waitlist, deposits and their payments |
| `VisitBook` | the promise of the gate: a tap moves its visitor in one step, once or never; no credential, clock, queue, network or crash | — |
| `GateVisits` | `access.service.ts`, `gate-arrival.service.ts`; `guard_controller.dart`, `offline_action_queue.dart`, `guard_api.dart` | the server, the guards' phones and the network between them; implements `VisitBook` |
| `ServiceDispatch` | consumer bookings, fulfilment, dispatch, completion, quality evidence, counter-proposals | — |
| `ProviderSettlement` | `consumer-payments.service.ts`, `provider-settlement.service.ts` | EXTENDS `ServiceDispatch`: money over the bookings it moves |
| `AccountingExport` | `accounting-export.service.ts` and `.runner.ts`, `accounting-connector-delivery.service.ts` and `.runner.ts`, `configured-http-accounting-connector.adapter.ts` | exporters, senders and the bridge between two of their tables |
| `MC…` | instances of each for TLC | the module it is named after |
| `…Proofs` | the theorems of each | the module it is named after, `TLAPS` |

Conventions. A row is a value in a function of its key; `"NONE"` is a row that does not exist.
A lock is no variable of its own: it is held by the call, handler or transaction whose control
point lies between the statement that takes it and the commit. Statements of one transaction that
nothing can separate are one action. A refused call changes nothing and is a step that is not
enabled, unless it has waited for a lock. Definitions headed "Mutant" change one definition the way
a plausible bug would; they are used by no specification, and show that each property can fail.

### PaymentOrders

A Payment row is its payer and idempotency key (the table's unique index). `createPayment` locks
the invoice and reads in one step (`CreateRepeated`, `CreateNotPayable`, `CreateJoined`,
`CreateLocked`, one for each way the code returns) and inserts and commits in a second
(`CreateInserted`, `CreateClashed` for ON CONFLICT). A webhook is stored by a statement of its
own (`Deliver`), then processed in a transaction that locks receipt and order (`ProcessApplies`,
`ProcessRejected`, `ProcessDuplicate`) and waits for the invoice (`ProcessCommits`); a failure is
marked by another statement after the rollback (`MarkFailed`). `HandlerLost` and `CreateLost`
are crashes. The gateway (external) may repeat a report under the same or another event id,
report out of order, and report a failed attempt before a capture of the same order; it refunds
only what it captured. `Legacy` are orders captured before receipts were stored.

Left out: amounts (an order copies its invoice's amount and no report carries one) and amenity
deposits, whose branch locks a booking instead of an invoice (`AmenityBookings`). Invoices are only
inserted elsewhere (`issue`, utility invoices) and updated nowhere but in the processor, so the
constant set of ISSUED invoices stands for all of them.

### PushOutbox

One row per target and dedupe key. `Attempt` and `Drain` claim rows under a new `attemptCount`,
which is the only token a claim has; `Deliver` hands one claim to the transport; `RecordDispatched`
and `RecordFailure` update the row where it is still IN_FLIGHT under that count.
`RecordingFails` is the DISPATCHED update throwing, which the catch block treats as a failed
delivery: the notification is sent again. Exactly-once delivery is therefore not a property; at
most `PUSH_MAX_ATTEMPTS` deliveries is. `Abandon` is the death of a process, or the catch block's
update throwing. Time is the flag `ripe`, which may become true at any moment: the lease may run
out under a worker that is merely slow.

### SocietyLedger

A journal is its entry number. Its lines are reduced to the net debit on the payable account and
on the expense account; the asset accounts take the balance, so the balance checks of the
posting trigger always pass and are left out. A transaction with two places to wait is two
actions (`StartPost`, `EndPost`, …): the first takes the row the code locks first, the second
takes the rest, checks and commits. A refused call changes nothing. `Named` are the sources an
accountant may give for a draft: the DTO takes any type and id. A hand-made draft that names an
expense keeps `postExpense` out through the unique index on the source; no document says what
should happen, and the books stay consistent (`ExpenseBookedOnce`). Each expense has one payable;
approving is one step because it waits nowhere else.

The sum of a payable's settlements is counted paisa by paisa (`Paise`, pairs of a journal and one of
its paise), which is the same number and can be reasoned about. `Waits` is what a call's last step
still needs, `Deadlocked` the cycle of `postJournal` and `closePeriod` that PostgreSQL breaks: calls
block each other for ever only if every one waits and none is deadlocked.

`SocietyBooks` sees of all this the entries that were ever posted (`Book`, a function on the entry
numbers in use, POSTED or REVERSED alike), the open periods, what is owed, what was paid and with
which entries. A reversal is an entry that cancels another, so REVERSED is a fact of the books, not a
state of an entry. An entry that was used to pay may be cancelled later: the code allows it, and so
do the books.

Constants rather than actions: accounts, funds, and the periods (`createPeriod` refuses
overlapping dates). The idempotency key of a settlement only returns a stored answer. Opening
balances insert a draft and post it in one transaction, as `postExpense` does, and are reversed
through `reverseJournal`. Adjustments, allocations, late fees and waivers need a Receivable, and
`Issue` shows that the API cannot make one.

### AmenityBookings

One amenity. A booking row has a unit and a window, a window is the set of instants it covers, so
that overlap is what the code computes from two dates. `policy` is what an administrator may set
(places, approval, deposit), `hours` and `blackouts` the schedule, `phase` the clock of a window.
Two kinds of lock meet: `cancelMine`, a rejection and the deadline sweep lock a booking and then the
amenity's advisory lock to promote a waiter; `markNoShow` and the creation of a booking lead with
the advisory lock. `Start…` takes the first, `End…` waits for the second, counts, writes and commits;
what a transaction wrote before it waits is invisible and so written at its end. `Abort` is a lost
transaction, `Victim` the one PostgreSQL aborts when two calls cross. Promotion is part of every
release (`Promote`) and may choose any waiter that could have the place: the code takes the first
whose row is not locked, and nothing stated here depends on which. The scheduler sweeps up to 50
bookings in one transaction (`expireUnpaidDeposits` with its default limit, from
`scheduled-work.service.ts:249`); the model has one sweep for each booking. Within an amenity the
batch is as many of these that hold their rows together and finish one after the other, and nothing
can come between them that the model does not also allow. The gateway orders, captures, fails and refunds a deposit under the row lock.

`Waits` is the second lock a call's last step needs: the advisory lock for a release that will
promote, the row for a call that leads the amenity. `Deadlocked` are the two calls of a cycle:
`markNoShow`, or a creation that waits for a slot, against a release of the same booking. The cycle
is real and the code leaves it to PostgreSQL; `SomeCallCanEnd` says that there is no other one, of
two calls or of more.

Left out: creating and closing an amenity, quotas per unit, guest limits, cancellation cut-offs,
no-show pauses, conflict groups that span amenities, and the order in which waiters joined. A window
that has started does not end. Two sweeps that release bookings of two amenities in opposite orders
could deadlock; the model has one amenity and does not show it.

### GateVisits

A guard's tap is one write under a key of its own. `LookUp`, `CheckReceipt`, `CheckWindow`, `Commit`
are the statements of a gate call on the server, each of which may be overtaken; `RollBack` and
`Recheck` are the look into the receipts after a transaction that lost. On the phone, `Tap` sends,
`TapUnanswered` keeps the action in the stored queue (a credential) or its key in the memory of the
session (a walk-in), `StartSync` … `EndSync` work through the stored queue one call at a time and
replace it as a whole, `ConfirmUncertain` and `Resend` settle a walk-in. `Break` and `Lose` cut a
call off before or after the server, `GivesUp` is the phone's own time-out while the server goes on,
`Kill` ends the application at any control point: the stored queue survives, the memory does not.

Things the model taught that no document contradicts: an action put up for review as rejected may
have been carried out (its repeat overlapped the first call across the end of the window, the
credential was replaced between look-up and commit, or the second look failed), so a review denies
nothing and `AfterSync` leaves what was told alone; a repeat of a
walk-in is refused while its first call still runs; the key of a walk-in does not survive a restart
(`src/docs/AARAAGATE-V4.90.8-GATE-UNCERTAIN-OUTCOME.md` describes the confirmation by status the
code uses instead). The society may switch off a kind of visitor at any moment, so `CheckWindow` may
refuse an entry whose window is open. Left out: `verify` and the lists, which read; who may decide; visitor passes;
gate assignments. Stored actions are a set, because no two of them depend on each other. A guard
signs out only while nothing is under way.

Of all this `VisitBook` sees the visits, what each tap meant, which taps have a receipt (`Done`) and
which the guard was told have happened (`Assured`). Of a gate call's statements only the commit
changes the book; repeats, time-outs and crashes never do.

### ServiceDispatch and ProviderSettlement

One provider. `held` names the transaction that holds each booking row: assigning an agent whose row
it does not or does hold yet, or confirming a job. `assign` is three steps (booking, agent and
overlap, INSERT), `confirmByConsumer` two, `recordForAgent` two: it matches the arrived job and the
booking in one snapshot and then waits for the booking's lock, after which PostgreSQL looks only at
the locked row again. A job's dispatch transitions lock the assignment and never the booking, so a
booking can be completed or cancelled over its agent's head; this is taken as it is. An answered or
withdrawn proposal, and one whose booking is past REQUESTED and so cannot be answered, is `None`.

A refund is two steps: the transition reads whether the payment's batch is PAID, then commits. So are
`approve` and `markPaid` (`ReviewAccepts`, then the UPDATE), and `createDraft` (the snapshot, then
what is left once the payments' locks are granted). None of the three locks what the others write.

Left out: room in an availability window, several providers (every lock and join is scoped to one),
amounts, commission and currency, duplicate provider events, extra-work quotes, disputes, warranty
snapshots, linking of agents. `startByAgent` and `requestCompletionByAgent` are one step with both
locks: they lock the assignment and then the booking, `confirmByConsumer` the opposite, so two of
them can deadlock and PostgreSQL aborts one, which is a refused call. The agent's identity is
resolved just before the transaction and is taken as part of it. Seen in the model and promised
nowhere: `setAgentActive` can leave work with an inactive agent; a cancelled draft batch keeps its
entries, so its payments are never eligible again.

### AccountingExport

What a job reads is a number, the state of the books: it stands for the rows, their count and the
bytes rendered from them. `ClaimJob` … `Store` or `Fail` are the statements of `executeClaimed`,
`Throw` any error before the commit. `Seed`, `ClaimBatch`, `Call`, `Record` are a run of the delivery
runner; `Call` is the bridge's answer, or an error that came before or after the bridge took the
content; `RecordThrows` is the UPDATE that fails and is treated as a failed call. `LoseExport` and
`LoseRun` are a process that dies or a catch block that throws. Time is a flag per row (`lapsed`,
`due`), which may rise under a worker that is merely slow. Neither runner writes under a token of its
claim, so an older claim's answer may settle a row a newer one has in hand; the model keeps this.

Left out: rows of another provider than the configured one (failed at once), so a delivery is named
by its job; rendering, digests and limits (an error of `Throw`); the log of manual retries;
`evidence`, `metrics` and the lists.

## Runs

| Run | Instance | Distinct states | Question |
|---|---|---|---|
| `orders_race` | 2 payers, 1 key each, 2 invoices, 2 calls, 1 handler | 362,889 | races of calls with each other and a webhook, and the step-by-step refinement of `InvoiceSettlement` |
| `orders_webhooks` | 1 order, every event twice, 2 handlers, 1 crash | 215,490 | events duplicated, reordered, replayed and lost |
| `orders_live` | a new order and one collected before receipts existed, 1 crash, fair | 2,412 | refunds and captures take effect in the end, and the PaymentEvent rows of the old scheme are honoured |
| `push_outbox` | 2 rows, 2 workers, 2 attempts, batches of 2 | 43,567 | bounded deliveries, late answers, settlement of every row |
| `ledger_books` | 2 periods, 3 journals, 1 expense of 2, payments of 1 and 2, 2 calls | 393,736 | the safety of the ledger and the expense sub-ledger, no call blocked for ever, the refinement of `SocietyBooks` |
| `ledger_budget`, `ledger_issue` | as `ledger_books`; violations | | what documents say and the code does not do |
| `amenity` | 2 units, 1 window, 3 bookings, 2 policies, 2 calls | 1,168,782 | capacity, promotion, deposits, schedule, lock orders |
| `gate` | 1 visit of any origin, 2 taps, 1 phone, 2 overlapping calls, 2 faults, fair | 428,707 | one entry and exit, nothing dropped, nothing untrue told, the queue drains, the refinement of `VisitBook` |
| `market` | 2 bookings, 2 times, 1 agent, 2 jobs, 1 payment, 1 batch | 1,302,625 | double work, evidence, drafts, recoveries |
| `exports` | 1 job, 2 exporters, 2 senders, 2 attempts, 1 change of the books, 1 fault, fair | 67,336 | exports over changing books, late answers, final answers kept, every request ends |
| `market_recovery` | 1 booking, 1 payment, 1 batch; violation | | a refund during the payout |

Bounds. Every hazard listed is between two actors, so two calls, two handlers, two workers or two
bookings meet it; the theorems hold for any number of them. Two keys and two invoices are what a key
conflict needs; two copies are what a duplicate needs; one crash is enough where no state remembers a
crash. Three journals are an expense, its reversal and a payment; an amount of 2 is the smallest with
a part payment. Three bookings are one that holds the place, one that is promoted into it and one
created beside them. A tap for entry and one for exit, or two for the same move, are all that a visit
meets; the second fault lets a repeat fail too. With one phone the clause of `EnteredOnce` on a gate's
own visit cannot fail in TLC: the theorem covers it. Unused keys are interchangeable, so the run checks
the behaviours that use `k1` first (`KeysInOrder`), which stand for the others. With one agent the two bookings must compete for
it, and with one payment and one batch every race of refund, draft and payout is there; a second
payment would only make a batch of two. Jobs and their
deliveries never touch each other except in a sender's batch, which is worked through one by one: one
job, taken by two exporters or two senders, meets every hazard of an export, and one change of the
books makes two readings differ. `MaxCrashes`, `MaxAttempts`, `MaxCredentials`, `MaxBooks` and
`MaxFaults` are the only counters, the second the code's own. `SYMMETRY` is used with invariants and action
properties only, never with liveness. `CHECK_DEADLOCK FALSE` everywhere: a history ends when the rows
of the instance are used up. That calls do not block each other for ever is stated by `NoLockCycle`
and, where the code relies on PostgreSQL to abort one of a cycle, by `SomeCallCanEnd`.

### Fairness

- `orders_live`: strong fairness of `Deliver`, because the gateway repeats a report until it is
  acknowledged, and of the processor's steps, because they queue for a row lock PostgreSQL hands
  on; weak fairness of the INSERT of `createPayment`. Clients are not fair. `CapturesArrive` and
  `RefundsArrive` except an order whose failure report was applied first: the code rejects a later
  capture at each retry and no document says what should happen.
- `push_outbox`: weak fairness of the clock, of the sweep (a timer that runs while the API does)
  and of a worker's own steps. `Abandon` may still happen at any moment: workers have to die only
  finitely often per row, which `MaxAttempts` bounds.
- `gate`: weak fairness of the server's steps on a call it has, of the phone's own next step while
  it is busy, of the clock behind a resting action, and of the start of a sync, which the
  application does by itself when it starts and the guard by a button. Guards, residents and faults
  are not fair; faults are bounded.
- `exports`: weak fairness of clocks, of the timers behind seeding and of the steps of a running
  process; strong fairness of a claim per row, because both claims take the oldest first; and strong
  fairness of the bridge's final answer and of its record while the row is PROCESSING: the bridge
  decides in the end, and a lease does not end under every call that gets the decision. Without the
  last, two senders could for ever settle each other's claims as UNKNOWN. An answer of ACCEPTED or
  UNKNOWN is never counted against the attempts, so nothing but the bridge ends such a delivery.
- The ledger, amenity and marketplace specifications assume no fairness: nothing in them has to
  happen, and what must never block is a safety property.

## Disagreements shown

- `ChargesIssued` (`ledger_issue`): every issue inserts a POSTED journal and is refused by the
  trigger that takes DRAFT rows only.
- `BudgetShowsLedger` (`ledger_budget`): the budget reports count POSTED journals, so a reversed
  expense shows as its negative.
- `RefundNeverKept` (`market_recovery`): `markPaid` counts the payments that are no longer CAPTURED
  without locking them; a refund that commits before its UPDATE saw an APPROVED batch and inserts no
  recovery. The provider keeps money that was refunded, which
  `src/docs/PROVIDER-SETTLEMENT-LEDGER.md:39` excludes.

Noted without a run: a resident with two keys joins the order of the first key under the second; no
row carries the second key, so its retry after the capture is refused, which the comment at
`payment-order.service.ts:78` seems to exclude. An abandoned CREATED order keeps co-owners out until
the gateway reports it. A draft by hand may name an expense or a journal as its source and then keeps
`postExpense` or `reverseJournal` out. Reversing the journal that paid a payable leaves it PAID. A new
schedule of an amenity may black out a window that is booked (the trigger of migration
`20260914220000_v2_amenity_weekly_schedule` returns early when there are no weekly hours), although
`amenities-blackout.spec.ts:28` allows such changes only when they do not invalidate bookings. A late
error of a delivery's last attempt, claimed before a manual retry, marks the retried delivery FAILED
as exhausted at its first attempt, although `src/docs/ACCOUNTING-CONNECTOR-OPERATIONS.md:76` says a
retry starts a fresh bounded cycle.

## Proofs

All constants are arbitrary sets, within the named assumptions: `SettlementAssumption`,
`PaymentAssumption` (a legacy order has one invoice and conversely; `None` is no row),
`OutboxAssumption` (at least one attempt and a batch of one), `LedgerAssumption` (positive
amounts; expenses, journals and charges are distinct sources), `AmenityAssumption` (a finite table,
at least one place), `GateAssumption`, `DispatchAssumption` (overlap of times is reflexive and
symmetric) and `ExportAssumption` (at least one attempt; `None` is no job and no reading).

- `InvoiceSettlementProofs`: `SettlementSafe`. The promise is inductive with the fact that an order
  has a target from the moment it exists.
- `PaymentOrdersProofs`: `TypeCorrect`, `NoDoubleCollection`, `PaidMatchesMoney`, `Implements`
  (refinement), `LockOrderSafe`, `NoEventLost`, `NoEventTwice`,
  `AnswersAreOwn`, `HistoryIsKept`. The strengthening says what a
  transaction past its lock still knows: a call that holds an invoice excludes every other one and
  has seen no active order (`HoldInv`); a handler that is applying holds its order alone and its
  transition is still allowed (`ApplyInv`). `EventsInv` ties receipts and claims to statuses.
- `PushOutboxProofs`: `OutboxTyped`, `DeliveriesBounded`, `LeaseRespected`, `SettledWithReason`,
  `SettledStays`. The strengthening says no claim carries a number above its row's count
  (`ClaimsNumbered`) and a claim in hand has been sent (`HandsSent`).
- `SocietyLedgerProofs`: `LedgerTyped`, `ClosedHoldsNoDraft`, `ReversalUnique`, `ExpenseUnique`,
  `ClosedIsFinal`, `PaidExactly`, `LedgerNeverStuck`, `LedgerImplementsBooks`. `Knows` says what each control point may rely on, `Exclusion` which locks
  exclude which, `Rows` that a source is named only by rows that exist. Without them
  `NoDraftInClosedPeriod` is not inductive: `EndDraft` inserts into a period it read one step before. A settlement adds the paise of one journal,
  which are disjoint from those counted before (`SamePaise`, `PaiseOfOne`, `MorePaise`), and a journal
  that settled is a row whose lines never change again (`Evidence`): so the sum moves only in
  `EndSettle`, where the payable's lock is held. Somebody can always go on (`SomeoneEnds`): a call that
  drafts never waits; without one, a period in use is being closed; and a closing call waits only for a
  draft that is being posted, which wants this very period and so makes the deadlock. The refinement has
  a lemma for each operation; most steps are `NoEffect`, and `EndReverse`, `EndExpense` and `EndPost`
  add one entry to the partial function `Book` (`OneEntry`).
- `AmenityBookingsProofs`: `AmenityTyped`, `Capped`, `DepositsTrue`, `WaitersServable`,
  `PlacesFilled`, `AmenityNeverStuck`. All rest on `Locks`: one call leads the amenity, one holds a row, and a held row
  stays cancellable. Capacity follows from counting under the advisory lock: a call that waits for its
  slot has counted, and nobody takes a place while it leads. `PlacesFilled` rests on releases alone
  freeing places, each with a promotion, and making only the unit that leaves eligible again. Whoever waits for the
  amenity waits for the call that leads it, and that one only for a release of its booking: the two are
  crossed, or the release can end (`SomeoneEnds`).
- `GateVisitsProofs`: `GateTyped`, `MovedOnce`, `TapsHeld`, `GuardsToldTrue`, `GateImplementsBook`, for any
  number of phones, gates, overlapping calls and faults. The invariant says a call carries the key of a tap
  (`Carried`), a phone waits for a call of its own (`Waiting`), a call past the look-up is at the
  gate it belongs to (`PastLookUp`), a receipt is of the move its key was made for (`ReceiptFits`),
  an answer of success has its receipt (`DoneTrue`), and the working copy of a sync covers the open
  stored actions (`SyncCopy`). The refinement adds `AskInv`: what the session remembers is never
  stored and conversely, so a tap a phone still asks about has no answer that its next one could
  withdraw. The commit of a gate call is the book's `Move`; a confirmed status and an answered call
  are `Assure`, because a receipt of that move exists.
- `ProviderSettlementProofs`: `SettlementTyped`, `OneVisitAtATime`, `ChecksHold`, `DebtsTrue`,
  `DraftsTrue`. Two invariants. `DispatchInv`: what a transaction read under the booking's lock is
  still so (`AssignHolds`, `CheckHolds`, `ConfirmHolds`), one transaction holds an agent, and an
  assignment's booking is past the state in which a proposal could move its time (`JobsPlaced`).
  `MoneyInv`: what a draft has seen or a batch has taken is captured or being refunded and belongs to
  a completed booking (`DraftsKnown`, `EntriesKnown`), and a refund in flight knows its batch. Money
  needs of the bookings only that a completed one stays completed (`FinishedStays`).

- `AccountingExportProofs`: `ExportTyped`, `ArtifactsTrue`, `OneContent`, `FinalStays`. An artifact
  exists only once its job has ended (`StoredAtEnd`), so the claim that completes a job is the one that
  stored the artifact; only a completed job is delivered, claimed or sent (`CompletedFirst`), and a
  completed job never changes.

The type invariants are proved and part of every inductive invariant; the runs spend their time on
the other properties.

Only model-checked: the five liveness properties (`RefundsArrive`, `CapturesArrive`,
`EveryNoteSettles`, `QueueDrains`, `ExportsSettle`), because fairness is beyond the prover. Every other
property of a passing run is a theorem. `SomeCallCanEnd` names what each last step waits for
(`Waits`) and uses no ENABLED, which is beyond the prover too. The properties of the violation runs are
false of the code, so there is nothing to prove.

## Plan

Next, in this order: `Sessions` (refresh rotation over two stores, one-time codes),
`GatewayOperations` (the reconciliation runner, sharing the claim-and-lease idea of `PushOutbox`),
`WorkforceAttendance` with the guard's second queue, `SosIncidents` with the sweep,
`PartnerCapacity`. For each: type correctness and the strengthened safety invariant as theorems,
liveness by TLC. Of what exists: a second provider window (availability) in `ServiceDispatch`, and
abstract specifications of the amenity (a book of places), of the settlement of providers and of the
exports, each with the refinement proved.

## Not modelled

The seven component programs modelled cover the code that moves money, stock of places, people at the gate, and
work between several actors, which is a small part of the repository's lines: most of its 81,000
lines are controllers, DTO validation, screens, SQL projections and repository checks, where an
operation is one statement or none. Not modelled and not planned: read projections (reports, search,
analytics, AI answers), screens, generated clients, file transfer, deployment, and parts whose every
operation is a single statement (`PROJECT.json` says which).
