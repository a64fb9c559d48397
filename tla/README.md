# Formal model of the EUAS utilities application suite

TLA+ modules, TLC configurations and TLAPS proofs for the transactional core
of EUAS, the FastAPI application in `src/app`.  EUAS manages the work orders,
field dispatches, stock, purchases, outages, alarms and reports of a utility.
Its data is relational (PostgreSQL in production, SQLite for demos); the
interesting logic is in the `*_store.py` modules, which re-implement the
routes of `application.py` as transactions that must stay correct when two
users, two replicas, or a user and the scheduler act at once.

## How the application runs, and what a step of a model is

- A request runs in one transaction opened by `db()` (`database.py:113-134`):
  commit at the end, rollback on any exception.  PostgreSQL runs it READ
  COMMITTED, so every statement sees what is committed when it starts.
- A row lock is a no-op `UPDATE` (`SET status=status`); it is held until the
  transaction ends.
- A claim is a compare-and-swap: `UPDATE ... WHERE id=? AND status=<what was
  read>` followed by a test that one row changed.
- Business numbers are `max + 1`; the audit trail is a hash chain extended
  under a singleton lock, the last lock a transaction takes.
- SQLite serialises writers, so its behaviours are among those of PostgreSQL.

Hence in every model: a plain read is a step of its own, remembered by the
session; a lock is a step with a guard that the row is free; and statements
that run under the locks they need, up to the commit, are one step.  Role
checks are left out: a model allows each request to whoever may make it, and
the properties must hold for all of them together.

## Inventory

| Component | State | Operations | Interacts with | Hard behaviours | What makes it correct |
|---|---|---|---|---|---|
| Event outbox (`outbox_store`, `outbox_observability`) | `event_outbox`: status, attempts, processed_at; exhaustion notifications | emit, scan, claim, POST, finalise, retry, gauges | every workflow transaction emits; the scheduler runs it; a webhook receives | crash between claim and result, lost answers, stale leases, operator retry in flight | exclusive leases, fenced results, delivered only if received, alert when the budget is spent, everything settles |
| Stock and reservations (`reservation_store`, `inventory_store`, cancellation in `application`) | current and reserved stock, reservations, requirements, materials, transaction ledger | reserve, reserve-all, release, issue, direct issue, receipt, adjustment, plan | work orders, procurement (receipts), reorder (reads) | concurrent requests on an item, recomputed totals, unlocked reads, lock order | reserved total = sum of active reservations; ledger explains stock; reserved material is safe |
| Transfers (`transfer_store`) | item rows, idempotency records | transfer, create item | stock | opposite transfers, repeated requests, destination created twice | stock conserved, no deadlock, a key replays |
| Work orders (`workflow_store`, SLA part of `application`) | status, assignee, approval rows, SLA rows and events | nine transitions, PATCH, stamps, breach scan | approvals, dispatch, reservations, automation | two claims of one transition, a scan overtaken by a completion | lifecycle respected, queue agrees with status, a breach is announced once |
| Dispatch (`dispatch_store`, `workflow_store`) | dispatches, technician accounts | assign/replace, accept, en route, arrive, complete, cancel | work orders, accounts | two dispatchers, stale screens, late field events | one active dispatch per technician and per work order |
| Approvals (`approval_store`) | approval rows, delegations | create, resolve, decide, delegate | work orders, requisitions | several routes decide one row | one decision, consistent with the record |
| Procurement and reorder (`procurement_store`, `reorder_store`) | requisitions, orders, receipts | submit, approve, reject, order, receive, scan | stock, approvals | two receipts of one order, repeated scans, unlocked candidates | record, approvals, orders and stock agree; an item is replenished once |
| Automation (`scheduler_store`, `pm_store`) | job runs, maintenance plans | daily run, PM generation, commit, delivery | most stores | replicas, crashes, failed payloads, commit in the middle | one run per window, one open work order per plan, due plans get work |
| Outages (`outage_store`) | outages, asset status | open, close | assets | overlapping outages | no route operates an asset under an outage it has seen |
| Alarms, telemetry (`alarm_*`, `telemetry_store`) | channels, readings, alarms | ingest, raise, acknowledge, clear | work orders, notifications | duplicate and late readings, races of operators | one open alarm per condition |
| Audit (`audit_store`, `audit_verification`) | hash chain, anchor | append, verify | everything | concurrent appends, a verification during one | one unforked chain, tampering is found |
| Numbers (`work_order_number_store`) | gate row | allocate | everything | equal maxima | distinct numbers |
| Accounts (`auth*`, `authorization`, `main`) | users, sessions, throttle, role permissions | sign in, migrate, revoke, deactivate, replace permissions | everything | lazy migration, counters, unlocked counts | what is revoked comes back by no later request, locks are earned, one active administrator remains |
| Inspections, assets | rounds, asset rows | create, submit, update | work orders | repeated submission | a round is submitted once |
| KPIs and analytics (`kpi_*`, `reliability`, `apm_store`) | tables, read only; `kpi_snapshot` | compute, explain, cache | tables of all stores | boundaries, several definitions of one figure, stale cache | figures agree, health is canonical, answers are recent |
| Operations (`operations_store`, `production`), schema, routes, UI | forms, DDL | - | - | - | outside the models |

`PROJECT.json` lists the same components with their sources and status, and
the individual hazards with the line where each bites.

## Modules

### `Outbox`, `EventDelivery`, `OutboxProofs`

`Outbox` models `outbox_store.py` and the gauges of `outbox_observability.py`.
A worker is the automation runner of a replica.  `Scan` is the eligible-rows
query, `Claim`/`PassOver` the committed compare-and-swap of `_claim_delivery`,
`ReadBack` the `SELECT` after that commit, `Post` the webhook call with the
three outcomes a network has (accepted and answered, accepted and not
answered, not accepted), `FinalizeSkipped/Delivered/Failed` the second
compare-and-swap with the alert that shares its transaction, `Crash` the loss
of a process or of its database connection.  `RetryRead` and `RetryApply` are
the two halves of an operator's retry.  The clock counts seconds; a lease is
active while its stamp is later than now minus the lease.

`EventDelivery` is the promise: an event that was committed is open until it
is delivered, skipped or poisoned; it is delivered only once the receiver has
it; it is poisoned together with an operator alert; only an operator reopens
it.  `Outbox!Delivery` is the refinement mapping (`Phase` of a row).

`PauseAfterClaim` is an environment assumption, not code: may a worker stall
for a whole lease (at least ten seconds) between a commit and the indexed
`SELECT` that follows?  The passing runs and four theorems assume it may
not; with `PauseAfterClaim = TRUE` TLC finds fencing violated (see the remarks).

### `Reservations`, `ReservationsProofs`

One item row per id with its current and reserved stock; the reservation
rows; the requirement of a work order for an item; sums of issued material
and of ledger entries.  A session is a transaction: `Submit` (with what it
reads before locking), `Lock` (one item at a time, in id order), one of nine
write actions (one per store function), `Commit` or `Rollback`.  Uncommitted
reservation rows are drafts, visible to their session only and locked for
others.  The settlement of a cancelled work order does not follow that path
and has actions of its own: `CancelWork`, then for each open reservation
`CancelRelease` (update the row, sum) and `CancelSync` (wait for the item,
write the sum), then `CancelCommit`.  Quantities are whole units; the sum of
outstanding quantities is the cardinality of a set of units.  `EPSILON`, the
tolerance for floating-point sums, has no counterpart for whole units.

### `WorkDispatch`, `WorkDispatchProofs`

Work orders with status and assignee, approval rows, dispatches and active
technicians.  Reads (`ReadForTransition`, `ReadApproval`, `ReadWork`,
`ReadActiveIds`, `ReadDispatch`) are separate from the claiming steps
(`TransitionWork`, `DecideApproval`, `AssignDispatch`, `TransitionDispatch`).
Assignment enters a section (`EnterAssignment`) in which it holds the
coordinator, the technician's account and the active dispatch rows, and then
claims the work order.  `Reassign` and `SetUserStatus` are the routes that
change an assignee and an account.

### `Alarms`, `AlarmsProofs`

Telemetry channels, operational alarms and the requests on them.  A session
is a batch of readings (`LockChannel` for each channel in id order, then
`Ingest` for each reading, `EvaluateAlarm` when an active alarm was found,
`OpenAlarm` when a new one is needed, `LogReading` for the audit entry of an
opened or cleared alarm) or an operator's request (`ChangeAlarm` for
acknowledge and close, `LockForWork` and `CreateWorkOrder`).  What it writes
stays in its draft until `Commit`.  Locks are explicit: channels, alarms, the
gate of `work_order_number_store` and the head of the audit chain, because the
order in which a batch takes the last two is not the order of the other
requests.  The history of readings is kept as the newest instant per channel;
`Level`, `Captured` and `Current` are the threshold and event-time functions.
A request that would be answered from the record (a replayed acknowledgement,
an existing work order) ends in `Rollback`, since it changes nothing.

### `Automation`, `Drafts`, `AutomationProofs`

Replicas sleep, take the scheduler mutex, look for a recent success and run;
users run the automation or the generator alone at any time.  A run locks the
generator row, reads the plans that are due (calendar, meter, condition),
generates work orders in its draft, and ends in success or failure, the payload
rolled back to its savepoint.  It commits before it delivers the outbox, which
releases the mutex: the window between that commit and the end of the cycle is
where two replicas meet.  Crashes lose a transaction, not what it committed.
`Drafts` has the two operators every module with uncommitted rows uses.

### `Procurement`, `PurchaseProofs`

Requisitions, their approvals, purchase orders, items.  A session is one
request: `ClaimRequisition` (submit, approve, reject by route), `DecideApproval`
(the queue), `PlaceOrder`, `ClaimOrder` and a `ReceiveLine` per line, the reorder
scan (`Replenish` for each candidate it saw low) and the consumption of stock.
Every conditional `UPDATE` waits for its row and keeps it to the commit.

### `Sessions`, `LoginThrottle`, `RolePermissions`

`Sessions` has the bearer check as a transaction before the handler's own, the
digest row a legacy token gets on its first use or at a start, revocations of
one, the others or all, changes of password and activation of accounts with the
unlocked count of administrators.  `LoginThrottle` has the counters per account
and per host, whose check deletes by scope what it selected by time.
`RolePermissions` has the seeding of the catalogue and the replacement of a
role's grants, where a deletion does not see rows committed after it began.

### `Registers`, `Outages`, `ServiceLevels`, `Inspections`, `Transfers`

`Registers` is the number gate and the audit chain with its anchor; its digest
is the sequence it was computed from, which is what collision freedom says.
`Verify` reads the rows and then the anchor.  `Outages` counts the other open
outages before the asset's row is locked.  `ServiceLevels` has the verdicts, the
stamps taken before a commit, and the scan that decides on rows it read first.
`Inspections` has the terminal submission, replayed from what was committed.
`Transfers` has the key, the coordinator under which a missing destination is
looked for again and created, and the sorted item locks; quantities against
reservations stay in `Reservations`.

### `Records`, `RecordsProofs`

The composition of the nine components above, from `Procurement` on: a variable
`scenario`, chosen at the start, says which of them a behaviour belongs to, and
the variables of the others stay as they are.  All constants of the components
are its constants, with the assumptions the proofs use.  What the components
share, the two registers, is the scenario `registers`; each of the others takes
the registers' locks for granted, except where their order matters (`Alarms`).

### `KpiScope`, `AssetHealth`, `Backlog`, `ExecutiveFigures`, `MetricTrends`, `KpiFamilies`

Pure operators, one per query or scoring function: a table is a set of rows, a
figure a set of rows or its cardinality.  `AssetHealth` has the per-asset score,
the batched map that promises to reproduce it, and the APM kernel; `Backlog` the
two rankings of open work and the five queries about secured parts;
`ExecutiveFigures` and `KpiFamilies` the two KPI engines; `MetricTrends` the
drivers and trends.  A day has three instants, the last of which is 23:59:59,
where the windows of the code end; percentages stay fractions and are compared
by cross-multiplication.

### `SnapshotCache`, `SnapshotCacheProofs`

The stored snapshot of one scope: read, compare the watermark, serve or compute
and overwrite, with mutations and a second request between any two statements.

### Modules for TLC

`MCOutbox`, `MCReservations`, `MCWorkDispatch`, `MCAlarms`, `MCAutomation` and
`MCRecords` hold symmetry sets and the constant values a configuration cannot
spell.  `MCStock` and `MCAnalytics` put several instances into one run, by a
variable `scenario` as in `Records`.

## Runs

| Run | Question | Result |
|---|---|---|
| `outbox` | two workers, two events, a crash, a retry, leases of two seconds | leases exclude, results are fenced, gauges = scan, refinement holds |
| `outbox_live` | does every event settle? | yes, under the fairness below |
| `outbox_recovery` | is every stale lease eligible again? | no: not on the last attempt |
| `reservations` | three scenarios: all single-item requests of two work orders; reserve-all against re-planning, adjustment, issue and cancellation; opposite transfers and reserve-all over two items | totals, ledger and records agree; the plan is filled, not exceeded; issued quantities survive; no circular wait |
| `reservations_cancel_race` | cancellation against reservations: the reserved total | violated |
| `dispatch` | two users on two work orders: transitions, approvals, reassignments, dispatches and field events; deactivations | one active dispatch per technician and per work order, queue consistent, final is final, nothing is replaced unseen |
| `cancel_race` | cancellation against dispatch | a cancelled work order keeps a dispatch |
| `alarms` | batches of dated, late and undated readings against operators | the queue agrees with the newest reading; no alarm regresses; one work order per alarm |
| `alarms_deadlock` | a batch of two readings against any request that needs a number | violated: gate and audit chain are taken in both orders |
| `automation` | two replicas and a user, a plan of each trigger, a crash or a failed run | scheduled successes finish an interval apart, at most one open work order per plan, calendars keep their rhythm, due plans get work |
| `records` | nine scenarios of short transactions, two requests at once | each component keeps its books; see the properties in `Records` |
| `analytics` | worlds of outages, work, parts, books, health, people; and the cache | figures computed twice agree; health is canonical; waiting never helps; answers are recent |

A property of several scenarios is a conjunction with one part per scenario.
`PROJECT.json` lists at least one mutation of the model for each property: a
plausible bug which TLC shows the property to catch; for a property with several
parts there is one for each of the parts that matter most.  The operators
marked "Mutant:" in the modules are these.

### Bounds

- Outbox: two workers are enough for every race between an owner and a
  reclaimer (`Finalize` and `Claim` involve one other party); two events with
  `BatchLimit = 1` show queueing; two attempts show a first, a last and a
  requeued one; the clock runs one second past a lease, and a crash is only
  allowed while time remains for its lease to expire.
- Reservations: two sessions, because every property is broken by one
  transaction interposed in another; two reservations and two units show
  partial issues, several reservations of one work order, and a short item.
  Two items are needed only for lock order and transfers.  `MaxUsed`,
  `MaxStock` bound issues and receipts.
- WorkDispatch: two sessions; two dispatches let a work order be re-dispatched
  to the technician it had before (the case a comparison of the assignee alone
  would miss) and two work orders compete for him; two approvals let a request
  be rejected and resubmitted.  Work starts by the arrival of its dispatch; the
  manual start and pause, the same claims on the same two statuses, are left
  out of the run to keep it short.  More technicians, dispatches and sessions are
  covered by the proofs.
- Alarms: two sessions; two alarms let a second one follow a closed or cleared
  one; instants up to 4 let a dated reading be ahead of the clock and an
  undated one follow it; batches visit a channel twice, and two channels
  against the order of their ids.
- Automation: one plan suffices since the generator serialises plans, and each
  trigger is an initial state; time is relative, so behaviours are infinite and
  `DuePlansGetWork` is about all of them; one fault may hit any step.  The age of a
  run stops at one interval and that of the latest one at two, so the time between
  two finishes is told apart up to an interval, which is what is compared.
- Records: two requests in every scenario; three session tokens, one of them
  legacy, so that one is revoked while another is migrated and a third kept; two
  accounts at one host, with three failures for the host and two for an account;
  three outages of one asset; two families of numbers and three audit rows with
  one tampering; baskets that name an item twice and an item that is not stocked;
  three item rows, one of them at the destination or created by two at once.
- Analytics: the worlds vary the rows that one group of figures reads, at every
  boundary of the windows (instants before, on and after the first and last
  second of a day), with two sites in two regions and the filters of the
  dashboards; up to two pieces of work have no asset, and no site either; two days, so that deadlines pass.  The cache runs five ticks with a
  life of one, two mutations, stamps ahead of or behind the clock.
- Sessions, workers, work orders and technicians are symmetric where a
  configuration declares it; no liveness run uses symmetry.

Deadlock checking is on except for the outbox, which stops when the clock has
reached its bound and all events are settled, and for `records` and `analytics`,
whose requests, days and mutations are bounded.

### Fairness

`FairSpec` of the outbox assumes that a worker that can step does (the
automation runner is called in a loop by `scheduler_store`), and that the
clock ticks up to its bound.  It assumes nothing of operators, business
transactions, crashes or the receiver.  `Settled` counts an event whose
attempts are spent as settled: that is what the code promises, with an alert
when the last attempt failed.

`FairSpec` of the automation assumes weak fairness of a replica's and a user's
steps once it has begun (they are straight-line code), of the clock, and strong
fairness of the two row locks: a database grants a lock to a waiting transaction
in the end, even if others take it in between.  Nothing makes a user begin a run.

## What is proved

`OutboxProofs` holds, checked by TLAPS for every value of the constants:

| Theorem | Statement | Rests on |
|---|---|---|
| `TypeCorrect` | `Spec => []TypeOK` | - |
| `LeaseSafety` | `Spec => []ActiveLeaseUndisturbed` | no stall after a claim |
| `TokensIdentifyClaims` | `Spec => []ClaimTokensDistinct` | no stall after a claim |
| `Fencing` | `Spec => FencedFinalization` | no stall after a claim |
| `DeliveredMeansReceived` | `Spec => []DeliveredWasReceived` | - |
| `GaugesTellTheTruth` | `Spec => []GaugesMatchProcessor` | - |
| `BudgetResets` | `Spec => BudgetResetOnlyWhenExhausted` | no stall after a claim |
| `Refinement` | `Spec => ImplementsDelivery` | - |

The argument for the lease theorems is one inductive invariant, `LeaseInv`.
A worker knows a pair (attempts, processed_at); the row may have moved on, but
as long as the lease the pair names is active, nobody may take it: a claim
needs the lease to be stale, a retry refuses an active lease, a finalisation
needs the pair.  That alone is not inductive, since a requeue resets attempts
to zero and the same generation numbers come round again.  `LeaseInv` adds that
a pair is never reissued while somebody remembers it: stamps never exceed the
clock, and a new claim of the same event is at least a lease later than any
remembered one.  The read-back is where the assumption enters: the worker's
copy is the row its own claim wrote only if that row cannot have been
reclaimed, that is if its lease is still active.

`ReceiptInv` (a worker in state "accepted" holds an event the receiver has)
carries `DeliveredMeansReceived` and the step `Deliver` of the refinement; for
the rest of the refinement each action is shown to be one abstract action or a
stutter.  The gauges follow from the types: five comparisons of a row with the
clock, written in another module than the scan, leave no row between them.
For `BudgetResets`, only an operator's requeue lowers attempts; it finds no active
lease on the row, and `LeaseInv` says that whoever still has one holds that row.

`WorkDispatchProofs` holds for every number of work orders, technicians,
sessions, dispatches and approvals, assuming only `WorkDispatchAssumption`:

| Theorem | Statement |
|---|---|
| `DispatchTypeCorrect` | `Spec => []TypeOK` |
| `TechnicianDispatchedOnce` | `Spec => []OneDispatchPerTechnician` |
| `WorkDispatchedOnce` | `Spec => []OneDispatchPerWork` |
| `ReplacesOnlyWhatItRead` | `Spec => NoSilentReplacement` |
| `ActiveTechniciansDispatched` | `Spec => DispatchesActiveTechnicians` |
| `DispatchesApprovedWork` | `Spec => []DispatchedWorkWasApproved` |
| `ApprovalQueueAgrees` | `Spec => []PendingMeansSubmitted` |
| `FinalStatusesAreFinal` | `Spec => FinalStaysFinal` |

"One active dispatch" is not inductive: an assignment checks first and writes
later.  `DispatchInv` says why the checks are still good when it writes: only
one session is past the coordinator's lock (`OneCoordinator`), and for that
session the active dispatches of its work order are the ones it read and its
technician is free (`ChecksStillHold`).  Assignments of others wait for the
coordinator; a field event on a row the coordinator counted waits for the row
(`FieldEventKeepsInv`), and on any other row it can only end a dispatch, which
makes no technician busy.  The accounts follow from the technician's lock in
the same way (`LockedTechnicianActive`).  The type theorem needs the same
invariant: that whoever is past the lock is an assignment.

The statuses have an invariant of their own, `StatusInv`.  A technician is
dispatched only to work that was approved, but what an assignment read may be
out of date by the time it claims the work order: `AssignsApprovedWork` says that
the status an assignment remembers is one only approved work has, so that a
claim which finds it unchanged finds approved work.  A pending approval belongs
to a submitted work order (`PendingIsSubmitted`) because every route out of
"Submitted" resolves the approvals in the transaction that claims the work order.

`AlarmsProofs` holds for every number of sessions, channels, alarms and instants:

| Theorem | Statement |
|---|---|
| `OneActiveAlarmHolds` | `Spec => []OneActiveAlarm` |
| `NewestReadingWinsHolds` | `Spec => []NewestReadingWins` |
| `AlarmsMatchReadingsHolds` | `Spec => []AlarmsMatchReadings` |
| `OneWorkOrderPerAlarmHolds` | `Spec => []OneWorkOrderPerAlarm` |
| `AlarmsNeverRegressHolds` | `Spec => AlarmsNeverRegress` |

The invariant speaks of drafts, since that is where the work happens.  A session
drafts only rows it has locked, and new alarms only while it holds the number
gate; hence no two drafts share a row and a commit is a merge of disjoint tables.
What a session sees (the committed tables under its draft) satisfies the same
properties as the committed tables, except between the step that stores a live
value and the steps that bring its alarm into line (`SessionInv`, by phase).  At a
commit there is no such exception left, and the properties pass to the tables.

`AutomationProofs` holds for every number of replicas, users and plans and every
interval:

| Theorem | Statement |
|---|---|
| `OneOpenOrderPerPlanHolds` | `Spec => []OneOpenOrderPerPlan` |
| `ScheduledRunsAreSpacedHolds` | `Spec => ScheduledRunsAreSpaced` |
| `CalendarKeepsRhythmHolds` | `Spec => CalendarKeepsRhythm` |

Only the holder of the generator row has plans in hand (`InHand`): the due dates
it read are still the committed ones, and a plan it drafts an order for has no
open one.  Only the holder of the mutex is between the look for a recent success
and its own commit (`Scheduled`); it found none, and nobody else can have added
one, so the run stays an interval or more away from the latest success (`Apart`),
while it lasts and when it is marked as finished.  A crash or a failed payload
leaves nothing to commit (`Undone`).  The run
commits and releases its locks before the cycle ends, so the invariant is by
phase.

`ReservationsProofs` holds for every number of items, work orders, sessions,
reservations and quantities, every plan, with every request, cancellation of work
orders included:

| Theorem | Statement | Rests on |
|---|---|---|
| `ReservationsTyped` | `Spec => []TypeOK` | - |
| `LedgerExplainsStockHolds` | `Spec => []LedgerExplainsStock` | - |
| `IssuedStaysOnRecordHolds` | `Spec => IssuedStaysOnRecord` | - |
| `IssuesAreConsumptionHolds` | `Spec => []IssuesAreConsumption` | - |
| `SettledOnceHolds` | `Spec => SettledOnce` | - |
| `ReserveAllFillsThePlanHolds` | `Spec => ReserveAllFillsThePlan` | - |
| `ReservedMatchesOutstandingHolds` | `Spec => []ReservedMatchesOutstanding` | no cancellation |
| `OnlyAdjustmentOverdrawsHolds` | `Spec => OnlyAdjustmentOverdraws` | no cancellation |
| `NoDeadlockHolds`, `NoCircularWaitHolds` | `Spec => []NoDeadlock`, `Spec => []NoCircularWait` | no cancellation |

`IInv`: item locks exclude; a session that holds an item has its committed row,
changed by what the session has moved and put in the ledger; a draft of a
reservation continues the committed one.  `StockInv`: whoever drafts a reservation
holds its item, or is a cancellation that waits for it (`RowsLocked`); one
transaction at a time issues or settles on a work order (`WorksLocked`); what is
drafted as issued is part of what will be recorded (`Recorded`).  `BooksInv` is the sum: what a session has reserved is the
outstanding quantity *as it sees it*.  Sums are cardinalities of sets of units
(`Units`), a unit being a reservation and a number up to what is outstanding;
a reserve-all, which writes several rows at once, needs that the fresh rows are as
many as the plan misses, counted by rank (the lemmas on ranks).

"No cancellation" is the hypothesis `"cancel" \notin Offered`: no request of the
run settles a cancelled work order.  It is not a convenience: with cancellation
TLC refutes all three.  Run `reservations_cancel_race` shows it of the total; a
stale total can exceed the stock, and the settlement locks reservations before
items, against the order of the others.

No deadlock: a transaction that waits holds only items with smaller ids than the
one it waits for, and none that holds a draft waits for an item; so among waiting
transactions the one with the largest awaited id waits for somebody who does not
wait.  `NoDeadlock` speaks of any set of transactions; the run checks pairs.

`RecordsProofs` holds for every number of requests, users, tokens, assets, outages,
work orders, inspections, rows, keys, transactions and audit rows, and every
value of the limits and times (the assumptions are named in `Records`, one per
component; they say that bounds and limits are numbers, that the lines of a
requisition have positive quantities, and of the initial data that administrators have accounts, that the administration of permissions is one
of their default permissions, and that a policy has both targets):

| Theorem | Statement | Invariant |
|---|---|---|
| `AccessSoundHolds` | `Spec => []AccessSound` | `AccountsInv`, `ThrottleInv`, `PermitInv` |
| `RevokedForGoodHolds` | `Spec => RevokedForGood` | `AccountsInv` |
| `LastAdminNeedsOverlapHolds` | `Spec => LastAdminNeedsOverlap` | `AccountsInv` |
| `UpOnlyByOutdatedReadHolds` | `Spec => UpOnlyByOutdatedRead` | `OutageInv` |
| `FieldRecordsSoundHolds` | `Spec => []FieldRecordsSound` | `LevelInv`, `CheckInv` |
| `TransfersExactlyOnceHolds` | `Spec => []TransfersExactlyOnce` | `MovesInv` |
| `RegistersSoundHolds` | `Spec => []RegistersSound` | `BooksInv` |

`ComponentSteps` splits the proof: a step of the composition is a step of each
component or leaves its variables alone, so each invariant is proved of its
component.

- Accounts: what a request has in hand is typed by its operation, and a pending
  deactivation of an administrator has counted more than one (`AccountRequest`), so
  one whose count is still true leaves another.  A digest row only changes under
  conditional updates that keep `revoked`, and the insert of a moved token ignores a
  row that exists.  A raw token without a row gets one only from a request that has
  it in hand already (`TokenSteps`), and none takes it up any more (`NoMoveBegins`).
- Throttle: failures that are committed are counted unit by unit (`Units`).  A
  counter is at most the failures since its window started (`CountEarned`), and a
  lock was set at an instant when the window held a threshold's worth of them, for
  `LockMax` at most (`LockEarned`).  A reset of the counter, by expiry or by a
  success, only lowers what it claims.
- Permissions: whoever wrote one of the administrators' grants wrote the
  administration of permissions too, which only one row can say; so their grants,
  the seeded ones apart, are of one request.  For that, a replacement under way has
  seen a row of another request only with all its rows (`Replacement`).
- Outages: what an act is going to write is computed from what it read before it
  had the asset's row (`OutageAct`).
- Service levels: `announced` is a function of the events (`Announcements`), an
  escalated row is on record (`Escalated`), and a scan inserts only rows that are not
  escalated and knows all that are there (`ScanSound`).
- Inspections: one that is not completed has neither answer nor corrective work
  order (`Untouched`).
- Transfers: source and target are rows of other warehouses (`MoveSound`); a claimed
  key is not committed and nobody else's (`Alone`); whoever adds a row holds the
  coordinator, and whoever found no destination keeps it until its commit.  Stock is
  conserved because a debit takes as many units as the credit adds (`UnitsRaised`,
  `UnitsAdded`).
- Registers: numbers are distinct because the gate is held from the reading of the
  maximum to the commit, and `NumbersInv` needs that they have no gaps.  `ChainInv`
  says what the anchor counts, every row that was ever written; while no row is
  lost, the digests of the log and of every draft, altered rows included, are
  prefixes of what was written, so an undamaged log is one chain that ends at the
  anchor.  `VerifierInv` ties the rows a verification read to the anchor it reads
  next: they agree unless something was appended or damaged in between, which is
  the exception in the property.

`PurchaseProofs` continues `RecordsProofs` with `Procurement`, for every number of
requests, items, requisitions, approvals and orders, every stock, reorder point
and basket:

| Theorem | Statement |
|---|---|
| `RecordsAgreeHolds` | `Spec => []RecordsAgree` |
| `ReplenishesOnceHolds` | `Spec => []ReplenishesOnce` |
| `ReplenishesWhenLowHolds` | `Spec => ReplenishesWhenLow` |

One invariant, `PurchaseInv`, carries the three.  `Shape` says what a request has
written, stage by stage, in terms of the committed rows it holds: `Claiming`,
`Raising` and `Raised` (a requisition and what its new status calls for),
`Receiving` and `Closed` (an order, item by item up to the line that was reached),
`Scanning` (automatic requisitions, each for an item that is held, low and has
none under way).  `Apart` says that no row is locked or written by two.  Hence a
step of another request spares what a request relies on (`Spares`), its draft is
still right when it commits (`ShapeStays`), and the commit takes `Trails` (the
papers of a requisition tell one story) and `Refers` from one committed state to
the next.  The counts in `PaperTrailAgrees` follow from `Trails`, where "one" is an
equality of rows instead of a cardinality.  The receipts of an item are counted
as sets of units, line by line (`UnitsUpTo`), because a sum over a sequence would
be an induction over data; an order that becomes Received adds the units of its
lines, which is what the request has booked on the item.

`SnapshotCacheProofs` holds for every number of requests and mutations, every time
to live and every duration of a request (`CacheAssumption`):

| Theorem | Statement |
|---|---|
| `CacheInvariant` | `CacheSpec => []IInv` |
| `SnapshotsAreRecentHolds` | `CacheSpec => []SnapshotsAreRecent` |

A payload contains every mutation committed before its request arrived, and is
calculated at most one request later; a snapshot that is served was at most the
time to live old when its request arrived, which may in turn last as long.  The
sum of the three is the bound of the property.  The sharper half, for tracked
mutations, needs that a watermark covers every stamp and, while no stamp runs
ahead of the clock, is no later than the payload it is stored with.

### Theorems and runs

The type invariants of `Outbox` and `WorkDispatch`, `ClaimTokensDistinct`,
`DeliveredWasReceived`, `OneDispatchPerWork` and `DispatchesActiveTechnicians` are
proved for every instance and no longer repeated by a run.  The runs of
`reservations` state, per scenario, conjunctions of what is proved: the parts of
`StockBooksAgree` are `TypeOK`, `ReservedMatchesOutstanding`,
`LedgerExplainsStock` and `IssuesAreConsumption` (the total only where no work
order is cancelled), and `ItemsLockedInOrder` is `NoCircularWait`.

### Model-checked only

- The figures: `FiguresReconcile`, `HealthIsCanonical`, `WaitingNeverHelps`.  They
  compare functions of tables over bounded worlds; sums over rows are inductions
  over data, which the prover cannot do.
- The reserved total when work orders are cancelled: it is refuted, not proved.
- `EventuallySettled` and `DuePlansGetWork`: liveness under fairness is out of the
  prover's reach.

## Where the code and its documentation disagree

1. `outbox_store.py:157` scans only rows with attempts left, so a worker that
   dies on the last attempt leaves an event that is Pending, not eligible, and
   never alerted, against INTEGRATIONS.md:11 (`outbox_recovery`).  It shows up
   only in the "exhausted" gauge.
2. `application.py:1409-1411` releases the reservations of a cancelled work
   order without locking the item first: the reserved total is stale when it
   is written (`reservations_cancel_race`).
3. `telemetry_store.py:332` audits a cleared alarm in the middle of a batch: a
   later reading of the batch that opens an alarm then waits for the number
   gate with the audit chain in hand, against the "global deadlock-safe"
   coordinator of README.md:71 (`alarms_deadlock`).
4. `workflow_store.py:82-87` tests for an active dispatch without a lock
   (`cancel_race`).

Remarks that no run carries.  They are behaviours of the models (a property is
stated around them), or differences met in the code while it was modelled.

Outbox and stock:

- `outbox_store.py:105` reads the row back after committing the claim; a worker
  that stalls there longer than its lease adopts the claim of the worker that
  reclaimed the event (`FencedFinalization` fails with `PauseAfterClaim`).
- The settlement of item 2 locks a reservation before its item, the reverse of
  every other reservation path and of the comment at `reservation_store.py:26-27`.
- The target of an ADJUSTMENT is not validated, so a level below the reserved
  quantity is possible (`OnlyAdjustmentOverdraws` is stated accordingly); item
  creation and demo data set `reserved_stock` without reservations, so `Init` is
  the state of items created without; material can be reserved for a closed or
  cancelled work order; a release sets the requirement to Required even if it
  was Fulfilled.

Accounts (`Sessions`, `LoginThrottle`, `RolePermissions`):

- Two administrators can deactivate each other: `main.py:451` counts without a
  lock (`LastAdminNeedsOverlap` allows exactly the overlap).
- A raw token is revoked by deleting its row.  A request or a starting process that
  had read the row before inserts a digest row that is good after it
  (`auth_store.py:211-218` against 309 and 318), and the token admits again.
  `RevokedForGood` allows exactly the moves under way; the run reaches the case.
- A sign-in under way survives a revocation or deactivation that commits before
  it; with a legacy hash it overwrites a password changed meanwhile.
- A check of the throttle that overlaps a failure may delete the fresh counter,
  or leave the failure without a row to count.
- Two replacements of the permissions of a role other than admin may leave the
  union of both.

Records (`Outages`, `Registers`, `ServiceLevels`):

- An opening leaves an asset that is not up as it is, so a closing that counted
  before the opening committed puts the asset into operation under an open
  outage, against the docstring at `outage_store.py:34` (`UpOnlyByOutdatedRead`
  allows only that).
- A verification reads the rows before the anchor, so an append in between makes
  an intact log look broken; an altered row whose digests are recomputed up to
  the end is anchored by the next append.
- The breach scan may overwrite "Met" by what it read before, and a changed
  policy makes recorded verdicts pending again.

Analytics:

- `portfolio_risk_view` selects neither condition nor status, so both count with
  their default penalty; `severe_trend` of `compute_asset_risk` has no caller
  that supplies it; among equal risks the portfolio ranks healthier assets first.
- The watermark of a snapshot is read after the figures were computed
  (`kpi_service.py:2241-2255`): a mutation in between is hidden until the snapshot
  expires; a stamp in the future masks later ones; a slow writer overwrites a
  newer snapshot.  `SnapshotsAreRecent` says what is left of the promise.
- `_maintenance_overdue_drivers` scopes by the asset's location and today, the
  metric by the work order's location and the end of the period, and it serves
  the drivers of metrics that are not about overdue work.
- Corrective work without an asset is one group of the repeat offenders in the
  maintenance figures (a LEFT JOIN, `kpi_service.py:650-656`): two such failures are
  listed under no asset and take one of the ten places.  The asset figures
  (506-514) never list it; `FiguresReconcile` compares the lists without it.
- Outage time is scoped by the site stored with the outage, the period hours by
  the asset's location; the asset profile divides all downtime, planned included,
  by the forced outages.
- The last second of a day is in no window of costs and incidents; finishing on
  the target day is late; the executive engine counts ongoing outages, the family
  engine does not; stockouts are counted over at most 50 rows.
- `run_cbm_evaluation` looks for a prefix that its texts never have ("1 warning
  excursion(s)"), and `convert_cbm_to_work_order` claims nothing before it
  creates a work order.

## Plan

Done: `Outbox` with its abstraction and proofs; `Reservations`, `WorkDispatch`,
`Alarms`, `Automation`, `Records` and `SnapshotCache` with their proofs;
`Procurement` with its proofs, and the analytics.  What would come next:

1. A lock-order module for all stores over the number gate, the audit chain, the
   item rows and the work orders.
2. Delegations of approvals, work order tasks, maintenance of plans.

## Not modelled

- Approval delegations, task check-lists, notes, maintenance of plans and
  assets: single-row forms whose only promise is the statement they execute.
- Condition-based maintenance, deterioration signals, forecasts and configured
  KPI targets (`apm_store`, `reliability`, `operations_store`, parts of
  `kpi_store`): statistics over floating-point series without a stated relation
  to other figures.
- The permission check of each route: a model allows a request to whoever may
  make it.  Password hashing and the client address behind proxies.
- Wording, numbering and audit text except where a property is about them;
  reports, exports and the browser client; schema migrations and seed data;
  backup scripts.
- The receiver of webhooks is external and appears only as the set of events it
  has accepted.
