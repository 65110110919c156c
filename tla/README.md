# Soroban Smart Block Explorer backend: TLA+ models and proofs

A verification development kept beside the TypeScript service under `src/`. It
models six subsystems with concurrency, failures and durable state of their
own, checks them with TLC on small instances, and proves the main safety
properties with TLAPS for every value of the constants:

1. **webhook delivery** and its outbox **batching**,
2. the **cron scheduler**,
3. the indexer's **parallel catch-up**, cursor and checkpoints,
4. **reconciliation** and the gap repair it triggers, beside that indexer,
5. the orders of the **fiat ramp**,
6. the **two-level cache**.

File names below are relative to the repository's `src/` directory (so
`webhooks/dispatcher.ts` is `src/src/webhooks/dispatcher.ts` in PROJECT.json);
documents are under `docs/` at the repository's root. Numbers after a colon are
lines.

## 1. Inventory

### The system

One Node process indexes the Stellar/Soroban network and serves an API; it can
run as several replicas over one PostgreSQL database. The replicas share only
the database and Redis. Within a process everything is asynchronous code on one thread: state
can change at each `await`, and timers and detached promises outlive the call
that started them.

```
 Soroban RPC --> indexer --> PostgreSQL <-- API (REST, GraphQL, WS)
                   |            ^   ^
                   v            |   |
            dispatchWebhooks    |   +-- PATCH / DELETE subscription
                   |            |
             outbox rows --> delivery worker --> receivers (HTTP)
                                ^
  cron scheduler --> retention, key rotation, gas alerts ...

  reconciliation --> gap repair --> processLedgerRange() --> PostgreSQL
  API --> fiat ramp orders <--> payment provider (HTTP, callbacks)
  API --> L1 Map --> Redis (L2) --> pub/sub invalidation --> every L1
```

### Components

| Component | State | Operations | Hard behaviour | What makes it correct |
|---|---|---|---|---|
| Webhook delivery (`webhooks/dispatcher.ts`) | `_webhook_deliveries` rows: status, processing status, lease, next retry, attempt; executions in memory | fan-out, claim, attempt, record outcome, test delivery | replicas claim concurrently; leases expire under running executions; crash between any two writes; late answers | one owner per row until a lease runs out under it, no stranded row, no invented success, bounded attempt numbers, final outcomes |
| Outbox batching (`dispatcher.ts`, `batch-utils.ts`) | `_webhook_outbox_events` rows, `batchPayload` | enqueue, read queue, choose batch, claim transaction, settle | events arrive in any order; queue is read before the claim; two replicas flush; body limit | order per contract of what is queued, stable membership, events settle with their row |
| Subscription API (`api/webhooks.ts`) | `active` column | PATCH, DELETE | two transactions per deactivation | no retry to an inactive subscription |
| Retention (`webhooks/retention.ts`) | none | hourly deletion of finished rows | late answers meet deleted rows | unfinished work is never deleted |
| Gas fee alerts (`services/gasFeeAlertDelivery.ts`) | delivery rows | enqueue | relies on another component's claim | every alert is sent |
| SSRF guard (`webhooks/ssrf-guard.ts`) | none | verdict on a URL | — | a refused URL ends the delivery |
| Cron scheduler (`scheduler/cron-scheduler.ts`) | job map, `isRunning`, timers, `isShuttingDown` | register, start, stop, run, retry, shut down | retry timer beside a tick; abandoned tasks; re-registration after a shutdown | no overlap, no job blocked for good, shutdown waits |
| Indexer catch-up (`indexer/indexer.ts`, `catch-up.ts`) | ledger rows, events, cursor, per-window checkpoints | sync loop, parallel workers, roll-back | workers outlive a rejected `Promise.all`; crash between persist and checkpoint; reorganisations | nothing missing behind the cursor; checkpoints sound; catches up |
| Repair and reconciliation (`indexer/repair.ts`, `indexer/reconciliation.ts`) | none durable that decides anything | reconciliation with gap repair; a sweep of hard and soft gaps, which always throws (section 6) | runs beside the indexer and calls the code that moves its cursor | every ledger of the lookback gets its row |
| Fiat ramp orders (`api/ramp.ts`, `services/ramp/*`) | order rows, audit events, KYC usage counters | place, callback, synchronising GET, refund, reconcile | status is read, checked, then written unconditionally; late, repeated and reordered callbacks; request dies between two writes | settled once and as the provider settled it; audited; usage counted once |
| Cache (`cache.ts`, `cache-ttl.ts`) | a Map per process, Redis, pub/sub messages | get, set, delete, invalidate, expire | a fill races a write; messages are lost; Redis fails between two commands | stale copies are dropped, copies converge |
| Indexer control (`indexer/worker-control.ts`) | `paused` | pause, resume | pause at any depth of the loop | resumes where it stopped |

PROJECT.json lists every part with its sources and the reason where it is not
modelled, and the hazards with their lines. Section 8 says what is left and what
stays out.

### Interactions

- The indexer calls `dispatchWebhooks()` for each event it stores: an
  immediate subscription gets a detached `deliverOnce()`, a batched one an
  outbox row. A retry reads the Event again, which a roll-back may have deleted.
- The delivery worker of each replica flushes the outbox and claims due rows.
  It meets the API (PATCH, DELETE) and retention only through the rows.
- Gas alerts create delivery rows and leave sending to the same worker.
- Reconciliation's repairs call the indexer's `processLedgerRange()`, which stores rows, rolls back a reorganised chain and
  then resets the cursor the indexer reads.
- The ramp's requests meet each other, and the provider's callbacks, only in the
  order row; KYC usage is shared by all orders of a user.
- Cached values pass between processes through Redis; a writer publishes an
  invalidation that every process, itself included, receives.
- The scheduler runs retention and other jobs; its module treats tasks as
  opaque, because the jobs share no state with it.

## 2. Modules

| Module | Models | Depends on |
|---|---|---|
| `WebhookDelivery` | delivery rows, executions, subscription | — |
| `WebhookBatching` | outbox and flush, composed with the delivery rows | extends `WebhookDelivery` |
| `CronScheduler` | the scheduler | — |
| `LedgerIndex` | abstract: an index that only grows, complete up to its cursor | — |
| `IndexerCatchUp` | sync loop, workers, checkpoints, cursor, chain | instantiates `LedgerIndex` |
| `IndexerRepair` | reconciliation and its gap repair, composed with the indexer | extends `IndexerCatchUp` |
| `RampOutcome` | abstract: an order is settled once, as at the provider | — |
| `RampOrders` | order rows, events, KYC counters, requests, provider | instantiates `RampOutcome` |
| `TwoLevelCache` | L1 of each process, Redis, invalidations | — |
| `*_proofs` | the theorems of each | extends its module and TLAPS |
| `MC*` | model values and constant functions for TLC | extends its module |

### WebhookDelivery

`row` is the table, `jobs` the executions of `deliverOnce()` in the memory of
the replicas, `active` and `patch` the subscription, `cancelling` the PATCHes
between their two writes, `rolledBack` the deliveries whose Event is deleted.
`acked` (history) are the rows the receiver answered with a 2xx, `overlaps`
(history) says how often a row was opened to a second execution.

| Action | Code |
|---|---|
| `DispatchImmediate`, `CreateDelivery` | the detached fan-out and the row it creates |
| `FlushClaim`, `FlushTooLarge` | row side of the flush transaction |
| `EnqueueGasFeeAlert`, `SendTestDelivery` | rows created elsewhere |
| `RetryPendingDeliveries(R)` | the claim transaction, by all of `R` in one millisecond |
| `PayloadMissing`, `StartAttempt`, `PostOutcome` | one `deliverOnce()` up to the answer |
| `RecordSuccess`, `RecordBlocked`, `ScheduleRetryOrFail`, `RecordCancelled`, `RowDeleted` | its outcome writes |
| `Deactivate`, `CancelPending`, `Reactivate`, `DeleteSubscription` | PATCH and DELETE |
| `DeleteExpired` | retention |
| `RollbackEvent`, `ReindexEvent` | the indexer deletes, and stores again, the Event |
| `LeaseExpires`, `RetryFallsDue` | time |
| `Crash`, `JobFails`, `SuccessWriteFails`, `PatchDies` | faults, at most `MaxFaults` |

Time is abstract: a lease is held, then expired; a retry is later, then due.
Nothing is assumed of how long an execution takes. A lease may run out under it
(a claimed row can wait in a pool of ten slots of up to ten seconds each, the
lease is sixty seconds), and two replicas may compute the same `leaseExpiry` and
both read the claimed rows back. Each is counted in `overlaps`, at most
`MaxOverlaps` times per row: without a bound one attempt could be repeated for
ever, its executions always overtaken by the next claim. The properties that an
overlap can break exempt the overlapped row and no other, so each says that
nothing else can break it. `MaxPatches` bounds the deactivations under way at a time.

A retry rebuilds its payload from the Event (or from the stored batch, or from a
gas alert). If there is none, `deliverOnce()` returns and the row keeps its
lease, to be reclaimed when it runs out (`PayloadMissing`): always for a test
delivery, and for an event delivery while its Event is rolled back.

Executions that are identical in every field are one element of `jobs`. A
claim transaction is atomic: that its `updateMany` does not compare `nextRetryAt`
again, so that a row rescheduled since the `findMany` could be retried early, is
not modelled. Reads from the read replica see current data, or
nothing yet (`JobFails`). A batch is retried indefinitely, so its attempt
numbers above `MAX_ATTEMPTS` are one value.

### WebhookBatching

Each action is an action of `WebhookDelivery` conjoined with what the same
transaction writes to the outbox; `FlushRead`, `FlushCheck` and the claim are
separate steps because the code awaits between them. Events are numbered in
delivery order and enqueued in any order: catch-up workers of later windows,
repairs and the order of an RPC answer put younger ones first. `passed`
(history) holds the pairs of an event and a younger one of its contract that a
flush had taken up, or that had left the queue, when the older one was enqueued.
`Oversize` is the set of event sets whose body is too large. The feature flag
`webhook_batching` is taken as on.

### CronScheduler

An instance is one `register()` call, because timers and suspended executions
keep the job object of a forgotten registration. `frames` counts `executeJob()`
calls awaiting their task, `orphans` tasks that lost the race against their
timeout, `timers` pending retries. An action is the code between two awaits.
`runNow()` changes no state; health bookkeeping decides nothing.

### IndexerCatchUp

`chain` and `tip` are the network, `hash` and `indexed` the stored rows,
`cursor`, `checkpoint` and `paused` the durable state of the indexer, `sync`
and `workers` the executions. A worker is one async function of `catchUp()`, or
the single range of a short gap; `owned` becomes false when its `Promise.all`
has been rejected and it runs on beside the next attempt. `Jobs` names the other
callers of `processLedgerRange()`, whose workers no round awaits; it is empty
where the indexer is alone.

| Action | Code |
|---|---|
| `Iterate(p, target)`, `Advance(p)` | one round of `syncToLatest()`: start, and cursor update at the end |
| `OpenWindow`, `BeginWindow`, `StartBatch`, `CommitBatch` | a worker's loop over windows and batches in `catch-up.ts` |
| `AcceptParent`, `StoreLedger`, `StoreEvents` | `processLedgerRangeInternal()`: the row before is read and compared, the row and then the events are written |
| `DetectReorg`, `Backtrack` | the row before has another hash; one step back at a time to the common ancestor, or until a row, the depth or the RPC ends it |
| `RollbackLedgers`, `ResetCursor` | roll-back of a reorganised chain, two separate writes |
| `SetIndexerPaused` | the operator |
| `CloseLedger`, `Reorganise` | the network (external) |
| `WorkerFails`, `Crash` | faults |

`IndexerNext` is all of this but `Reorganise`, and `FairSpec` is about it: where
the indexer is alone, catching up is promised only on a chain that is not
reorganised. With reorganisations, `IndexerRepair` says what is promised.

`IndexSpec` is the refinement: seen through the ledgers that have a row, the
ledgers whose events are stored, and the cursor, the indexer implements
`LedgerIndex!Spec` on a chain that is not reorganised.

`setLastIndexedLedger()` detects a concurrent write and writes anyway; it is
modelled as that blind write. Left out: `LedgerGap` rows (the indexer never
reads them), the P2P cursor (off), the leader lease (no callers), `stop()`, and
the contents of transactions and events. Prefetched metadata is one snapshot,
and a step back reads the local row and the network's metadata at once; the read
replica is taken as current.

At this commit `processLedgerRangeInternal()` uses names it does not declare
(`network`, `indexedLedgerSequences`; `indexer/indexer.ts`:381, 401, 550,
729-732) and upserts ledgers by a key the schema does not declare unique. The
model reads them as the active network and the sequences stored, as every other
query of that function does. It therefore describes the function's evident
intent at those lines, not the literal text.

### IndexerRepair

`job` says what each caller of `runReconciliation()` is at, the indexer's timer
or an API request (`api/protocol.ts`:21-27), and which ledgers it has still to
repair. `Reconcile` is the query (`LedgerGaps`: from `Lookback` ledgers before the
latest row to that row), `Backfill` the loop of `triggerAutomatedGapRepair()` over
the ranges found, one at a time; `JobFails` a crash or a query that throws. A
repaired range is a worker of `IndexerCatchUp` that no round awaits, so everything
`processLedgerRange()` can do, the roll-back and the cursor reset included,
happens beside the indexer's own rounds. A crash of the indexer and one of a job
are separate faults.

The sweep of `repair.ts` is left out because it repairs nothing: its queries name
tables that do not exist (section 6).

### RampOrders

`row`, `log` and `kyc` are the three tables, `exec` the `POST /execute` of each
order, `req` the other requests, `prov` the provider (external), `lost`
(history) the orders an event of which was not written.

| Action | Code |
|---|---|
| `CheckKycAllowance`, `CreateOrder`, `LogCreated`, `GatewayExecuteOrder` | `POST /execute` up to the provider's answer |
| `AttachProviderOrderId`, `LogAttached`, `ReadKycUsage`, `RecordKycUsage` | the order was taken |
| `RefuseOrder`, `LogRefused` | it was not, or the answer was lost |
| `Webhook`, `GetOrder`, `Reconcile`, `GetProviderOrderStatus` | the three ways to learn the provider's status |
| `TransitionRead`, `TransitionWrite`, `TransitionAppend` | `transitionOrder()` |
| `Refund`, `MarkRefundInitiated`, `LogRefundInitiated` | `POST /refund` |
| `ProviderMoves`, `Midnight` | the provider (external) and the calendar |
| `ExecuteDies`, `RequestDies` | faults; `AppendEvent` and the gateway may fail too |

Every `await` ends an action. A callback reports any status the order went
through: late, twice, out of order or never. It is assumed of the provider that
a decision is final and that only a completed order is refunded. Orders are those of
one user and have an amount of 1. The audit log is a set: how often an event is
written is not told apart.

`SettledOnce` is the refinement: through `Truth` and `Outcome`, the ramp
implements `RampOutcome!Spec`.

### TwoLevelCache

One key. `l1` is each process's copy, `redis` the payload, `inbox` the
invalidations under way, `calls` the calls between two Redis commands, `latest`
(history) what the last write left. Values are numbered as they are set. Each
round trip of `cacheGet()` and `cacheSet()` is a step, because another process
can write between the `GET`, the `pTTL` and the fill. Only the origin of a time
to live is kept (the key's policy or the default), and any entry with one may
expire. Payload and version travel in one `MULTI`.

## 3. Runs

State counts are distinct states.

| Run | Checks | Instance |
|---|---|---|
| `WebhookLeases` | `TypeOK`, `ExclusiveDelivery`, `Recoverable`, `NoFalseSuccess`, `OutcomeFinal`, `NoRetryWhileInactive` | 2 replicas; a batch and a test delivery; 1 fault; 1 overlap per row; 2 PATCHes at a time (2.0 million) |
| `WebhookSettles` | `ExclusiveDelivery`, `Recoverable`, `AttemptsBounded`, `EventsSettle` | 2 replicas, an event and a gas row, 2 attempts, 1 fault, 1 overlap per row, 2 PATCHes at a time, fair (260,001) |
| `BatchOutbox` | `BTypeOK`, `OrderedOnceQueued`, `BatchedIsPending`, `DeliveredWasReceived`, `MembershipStable` | 2 replicas, 2 rows, batches of 2, 1 fault; two events of one contract, both of ordinary size, or the younger one too large for any batch and then with 1 overlap per row (1.9 million) |
| `CronSafety` | `TypeOK`, `NotWedged`, `ExactFlag`, `DrainsPlainJobs`, `Unblocks` | 3 registrations of 2 job ids: a plain job registered again with a timeout, beside one with timeout and retry; 2 live executions each |
| `CatchUpFaults` | `TypeOK`, `NoGaps`, `CheckpointSound`, `IndexSpec`, `CatchesUp` | 1 process, 4 ledgers in 2 windows, batches of 1, 2 workers, 1 fault, pauses (97,004) |
| `RepairHeals` | `RTypeOK`, `RepairsInTurn`, `RecentGapsHeal` | 1 process, 1 reconciliation with a lookback of 3, 6 ledgers, 1 reorganisation of any depth (protection depth 2), 1 fault, pauses (601,488) |
| `RampSettles` | `TypeOK`, `AuditedStatus`, `MonthlyUsageCounts`, `SettledOnce`, `TableExceptLateCompletion` | 2 orders, one of them followed after it is placed, 2 requests at a time, 1 fault, 1 midnight, limits 1 a day and 2 a month (2,703,997) |
| `CacheCoherent` | `TypeOK`, `Coherent`, `Converges` | 2 processes, 2 calls, 2 writes, 1 fault |
| `WebhookStranded`, `WebhookGasAlert`, `BatchLate`, `CatchUpReorg` | one documented promise each, which TLC finds violated | section 6 |

Why the bounds are enough for the cases that matter: two replicas (or two
workers) are what an overlap takes; a second attempt is the first one a crash,
a stale answer or an off-by-one can spoil; a single fault can fall between any
two steps; one overlap is what a late write takes; two events of one contract are
the least that can be out of order; two windows with two batches each give every combination of
partial progress, and a disowned worker beside its successor. Two registrations
of one id around a shutdown show what a forgotten instance can do to its
successor. In `RepairHeals` a fault between roll-back and cursor reset, or a
roll-back that finds no ancestor, leaves gaps behind the cursor on either side of
the lookback, and a job finds up to two ranges; a gap older than the lookback
stays in some of its behaviours, as in the code. In `RampSettles`
two requests at a time are what `transitionOrder()`'s check-then-write needs to
go wrong; the second order is only placed, which is what the KYC counters need.
In `CacheCoherent` two writes and a fill give every order of write, publication
and fill. In
`WebhookLeases` and `BatchOutbox` a row's one overlap is a lease that ran out or
a shared millisecond, with the row's executions in any stage. The two state
constraints of `BatchOutbox` are bounds like the others: what lies beyond them is
left to the theorems. What these instances cannot show by size is what section 5 proves.
Two indexer processes without a reorganisation were explored with TLC at other
bounds with the same result, and so were two reconciliations at a time (with two
faults on four ledgers, and with one on five); the safety theorems cover them.

Symmetry over replicas, batch rows and ramp requests is used only in runs without liveness.
Deadlock is checked in the indexer's runs. The other models may stop: every row
settled and deleted, every registration cleared, every order and write of the
instance made.

Each property of a passing run has a mutant of the code that breaks it: a
dropped lease or status comparison, an off-by-one in the attempt limit, a
missing `finally`, a checkpoint written at the window's end instead of the
batch's, and so on. They are the definitions commented "Mutant of".

## 4. Fairness

- **Promises settle**: weak fairness of an execution's steps. HTTP requests
  have `REQUEST_TIMEOUT_MS`, database calls the `statement_timeout` of `db.ts`. Which outcome they have is free.
- **Timers fire**: weak fairness of `LeaseExpires`, `RetryFallsDue`,
  `Timeout` and of the end of the shutdown's polling loop (`maxWaitTime`).
- **The worker keeps ticking**: strong fairness of a claim by some replica.
  A tick is skipped while one is running, so the claim can be disabled again
  and again by work on other rows, but the 25 ms interval starts the next tick
  as soon as none is running, and that tick claims every due row.
- **The indexer keeps polling**: strong fairness of `Iterate(p, tip)`; the loop
  restarts after each round, each error and each restart, with the latest
  ledger. A pause disables it, so `CatchesUp` is conditional on the operator
  leaving it unpaused eventually.
- **Reconciliation is run again and again**: strong fairness of `Reconcile`, weak
  fairness of a job's steps. It runs a minute after the start and then every 24
  hours (`reconciliation.ts`:291, 308), and the error of a run is logged and
  swallowed. The indexer's own work may close the gaps in between, so the
  fairness is strong. `RecentGapsHeal` speaks of a chain that has come to rest,
  as `MaxLedger` makes it: on one that moves on, a gap that has left the lookback
  of 1000 ledgers before the next daily run is not seen any more.
- **Copies expire**: weak fairness of a cache call's round trips, of an
  invalidation's arrival and of the expiry of an entry with a time to live.
  Nothing is assumed of Redis becoming available again.
- **A second write follows**: weak fairness of `CancelPending`, unless its
  process dies.

Nothing is assumed of users, crashes, the receiver or the network, and cron
tasks may hang for ever.

## 5. Proofs

All theorems hold for arbitrary constants within the named `ASSUME`s of their
module: any sets of replicas, rows and events, any bounds on faults and overlaps.

| Theorem | States | Further assumptions |
|---|---|---|
| `TypeCorrect` | `TypeOK` (delivery) | — |
| `SuccessIsReal` | `NoFalseSuccess` | — |
| `RetriesBounded` | `AttemptsBounded` | — |
| `LeaseExcludes` | `ExclusiveDelivery` | — |
| `CrashesRecoverable` | `Recoverable` | — |
| `OutcomesFinal` | `OutcomeFinal` | — |
| `DeactivationHolds` | `NoRetryWhileInactive` | — |
| `BatchTypeCorrect`, `NoEventStranded`, `DeliveryIsReal` | `BTypeOK`, `BatchedIsPending`, `DeliveredWasReceived` | — |
| `MembershipHolds` | `MembershipStable` | — |
| `OrderHolds` | `OrderedOnceQueued` | — (events enqueued in any order) |
| `SchedulerTypes`, `NeverWedged`, `Backpressure`, `ShutdownDrainsPlainJobs` | `TypeOK`, `NotWedged`, `ExactFlag`, `DrainsPlainJobs` | — |
| `CatchUpTypes` | `TypeOK` (indexer) | — (any reorganisations) |
| `CursorHasNoGaps`, `CheckpointsAreSound` | `NoGaps`, `CheckpointSound` | `MaxReorgs = 0` |
| `IndexOnlyGrows` | `IndexSpec` | `MaxReorgs = 0` |
| `RepairTypes`, `RepairsTakeTurns` | `RTypeOK`, `RepairsInTurn` | — (any reorganisations) |
| `RepairKeepsNoGaps`, `RepairImplementsIndex` | `NoGaps`, `IndexSpec` beside the repair jobs | `MaxReorgs = 0` |
| `RampTypes` | `TypeOK` (ramp) | — |
| `OrdersSettleOnce` | `SettledOnce` | — |
| `TableIsKept` | `TableExceptLateCompletion` | — |
| `UsageIsCounted` | `MonthlyUsageCounts` | `Orders` is finite (`OrdersAssumption`) |
| `StatusIsAudited` | `AuditedStatus` | — |
| `CacheTypes`, `StaleCopiesAreDropped` | `TypeOK`, `Coherent` (cache) | — |

**Delivery.** A claim copies the row's attempt number into the execution, so
typing needs `PendingNumbered` (a pending row has one). A success is written by
an execution that no longer looks at the row, so `NoFalseSuccess` needs
`AckedJobs`. The lease theorems rest on one invariant, `JobHoldsRow`: while an
execution of a row that was never overlapped exists, the row is not created yet,
or leased to it, or cancelled or gone. With it a claim never matches a row that
has an execution, which gives exclusion; and an outcome is only ever written over
a pending, cancelled or deleted row, which makes success and failure final. No
theorem assumes anything of time: `LeaseExpires` and `RetryPendingDeliveries` may
open any row to a second execution, and the invariant is kept for every other
row. For a row that was opened it fails, and the run `WebhookStranded` shows one
consequence. `NoRetryWhileInactive` needs `RetriesCancelled` besides: once all
deactivations under way have cancelled the rows, a retry that still waits for a
slot finds its row no longer pending. A claim made after that does not queue its
rows to be sent, and with one execution per row nobody else makes the row of a
waiting retry pending again.

**Batching.** The
outbox properties need `LinkedRows` (a linked event is in its row's payload,
and the row exists) and `AckedPayload` (what an execution with a 2xx sent has
been received), because an outcome is written to the events linked to the row
and the receiver saw the stored payload. Membership needs `QueuedUnlinked`: an
event still in the queue has no delivery row, and the two writes of a flush that
link one, the claim and the filing of an oversized event, compare the status
again.

Order is the hard one, because a flush decides on a queue it read earlier and
older events keep arriving. The invariant follows the pairs of events that are
not in `passed` through the stages of a flush: a queue that was read has, with an
event, every older one still waiting (`QueueInOrder`); so has a selection, every
older one that is not settled (`SelectionInOrder`), because a contract with an
open batch is left out when the selection is made and because dropping events
until the body fits drops the newest (`FittingFacts`); and events are settled in
order (`SettledInOrder`). An event that is enqueued late enters `passed` with all
younger ones of a queue that was read or that have left the queue, and with no
other. The claim takes a selection only if all of it is still pending, so a flush
whose selection another replica has overtaken links no event.

**Scheduler.** The flag is shared by all executions of an instance, so it is
exact only where a second execution cannot arise: `NoTimers` says that a job
without `retryOnFailure` never has a retry timer, and a job without a timeout no
abandoned task.

**Indexer.** `TypeInv` adds that a worker inside a window is inside its range
(`WorkersInRange`). `SoundInv` adds what a worker relies on (`WorkersGrounded`:
all before its range, and all of its window before its batch, is indexed) and
`Covered`: whatever a round will move the cursor over is indexed, or still owed
by a worker the round waits for. `Covered` is what makes `NoGaps` inductive: the
cursor moves at the end of a round over ledgers that many workers have indexed,
some of them skipped because of checkpoints another process or an earlier
attempt wrote. The arithmetic of windows and batches is in lemmas of its own
(`LeastWindow`, `WindowHolds`, `WorkOfWindow`, `BatchInside`). The refinement of
`LedgerIndex` adds `WorkersRowsFirst`: a worker has stored the rows of its batch
up to the one at hand, so the events it persists have their rows; the guard of
the abstract cursor move is `NoGaps` in the next state. Because detection,
backtracking and roll-back are separate steps, typing follows a worker back
through them (`Unwind`, lemmas `WayBack` and `UnwindStep`): what it will delete is
an interval that ends before the ledger at hand. On a chain that is not
reorganised no worker is ever there (`NoUnwind`).

**Repair.** The workers of the jobs are workers like any other, so the
indexer's step lemmas are stated with `Jobs` from the start, and cover the
repairs without being proved again. `JobsKeepIndex` says that the jobs' own
steps add a worker that relies on nothing before its range, and leave the index
alone. `RepairsInTurn` needs `JobsAtRest` (a job that is over has nobody at
work) and `FirstRangeFacts`: the first range is an interval of what was found,
and what remains begins at least one ledger behind it, whatever the query has
returned. `RepairTypes` and `RepairsTakeTurns` do not restrict reorganisations.

**Ramp.** `transitionOrder()` writes over a status it has not compared, so the
refinement cannot come from the row alone. The invariant says, of each order,
where its `POST /execute` stands (`Placing`: before the reference is attached
no other request can know the order), that a row with a reference follows the
provider (`Following`: what the row says is something the provider has
decided), and that a request carries the provider's news and has read a status
the row is not behind (`Requesting`). A late write can then only repeat a
decision or, in the one case `TableIsKept` names, take back a refund, which
leaves the outcome "paid". `CountInv` relates the monthly counter to the orders that
have recorded their usage, `AuditInv` the log to the row and the writer between
the two.

**Cache.** `Coherent` is inductive together with the types: of every stale copy
it names the message, the announcement or the write of the same process that
will remove it, and each step either keeps that one or hands over to the next.

**Refinements.** `SettledOnce` (the ramp implements `RampOutcome`) and `IndexSpec`
(the indexer, alone and beside reconciliation, implements `LedgerIndex`), both
checked by TLC and proved. TLC checks `IndexSpec` on the indexer alone, because
the run with reconciliation has a reorganisation.

**Only model-checked.** Liveness (`EventsSettle`, `Unblocks`, `CatchesUp`,
`RecentGapsHeal`, `Converges`): the prover reasons neither about fairness nor about
`ENABLED`. Every safety property of a passing run is a theorem. `NoGaps` and
`IndexSpec` do not hold with reorganisations and parallel workers;
`RecentGapsHeal` shows what of the missing rows is repaired. No module uses `RECURSIVE` operators, and no theorem needs
induction over data, which the installed provers do not support.

## 6. Disagreements between code and documentation

Each has a run in which TLC finds the violation.

1. **`WebhookStranded` / `CrashReclaimed`** (`webhooks/dispatcher.ts`:774).
   Starting an attempt clears `nextRetryAt` on any pending row, whoever holds
   the lease. A first execution is still posting when its lease runs out, and a
   second one reclaims the row and waits for a slot; the first gets an error and
   reschedules the row as idle; the second then starts, clears that retry time
   and dies with its process. The row has neither lease nor retry time and no
   claim ever matches it. `docs/webhook-batch-delivery-runbook.md`:106-107 says
   the lease expires and the row is reclaimed.
2. **`WebhookGasAlert` / `GasAlertsSettle`**
   (`services/gasFeeAlertDelivery.ts`:86). Alert rows are created idle with a
   null `nextRetryAt`; the claim asks for `nextRetryAt <= now`, which null does
   not satisfy. `docs/GAS_FEE_ALERTS.md`:17 promises at-least-once attempts.
3. **`BatchLate` / `OrderedPerEntity`** (`webhooks/dispatcher.ts`:278). An event
   is enqueued when the indexer hands it over, and workers of later windows
   (`indexer.ts`:712, 767-787), repairs and the RPC answer's order within a
   ledger hand over younger ones first. One that comes after a flush is batched
   behind them. `docs/webhook-batch-delivery-runbook.md`:8-9 says without
   condition that events are ordered per contract. What the flushes do keep is
   `OrderedOnceQueued`.
4. **`CatchUpReorg` / `NoGaps`** (`indexer/indexer.ts`:447, 393). A worker in a
   later window that meets a reorganisation finds no earlier row, because other
   workers have not stored it yet, and takes `prevSeq - 1` for the common
   ancestor: the cursor moves forward over windows that are not indexed.
   `docs/indexer-checkpointing.md`:9-10 says the cursor does not advance over
   missing rows.

Observations without a run of their own:

- Two replicas that claim in the same millisecond read the rows back by an equal
  `leaseExpiresAt`, so both deliver (`dispatcher.ts`:646; the comment at 606-607
  says the opposite), and so do two when a lease runs out under an execution. The
  answers of both are written: the later one may turn a delivered row into a
  failed or pending one (`dispatcher.ts`:863, 1022).
- An event delivery whose Event was rolled back and does not come back, and a
  test delivery whose process dies, are reclaimed again and again without a
  payload to send (`dispatcher.ts`:720-734, 1087; `indexer.ts`:274-279).
  `EventsSettle` is therefore stated for event rows whose Event is there in the end.
- `MAX_ATTEMPTS` bounds attempt numbers, not requests: an attempt whose outcome
  was not recorded is made again with the same number.
- The receiver can see an older event after a newer one of the same contract: a
  cancelled batch whose request is still out, or is rescheduled (:1022), lands
  after a reactivation. `OrderedOnceQueued` is about batching, not arrival.
- The scheduler's retry timer clears `isRunning` before it runs the job, also
  while a scheduled run is in progress (`cron-scheduler.ts`:313), although the
  file's header (line 6) promises backpressure. `ExactFlag` is therefore about
  jobs without retries.
- A shutdown does not wait for tasks that timed out (`cron-scheduler.ts`:330,
  426), and a retry timer pending across a shutdown runs a job that was stopped
  (:312, 468). `DrainsPlainJobs` is therefore stated for jobs without either
  option.
- Indexer: a crash between roll-back and cursor reset (`indexer.ts`:446, 447)
  leaves the cursor ahead of deleted ledgers; so can a second process during a
  reorganisation. Completed checkpoints survive a roll-back. A reorganisation
  deeper than the protection depth resumes at `prevSeq - 1`.
- Repair: the sweep's raw SQL (`repair.ts`:55, 70-75) names `"Ledger"`,
  `"Transaction"`, `"Event"` and `"ledgerSequence"`, while the tables are
  `_ledgers`, `_transactions`, `_events` with `ledger_sequence`
  (`schema.prisma`:28, 102, 135). Every sweep throws and is caught at line 262,
  although the header (4-7) promises that hard and soft gaps are healed. What is
  left is reconciliation, which looks at rows only and at the last 1000 ledgers:
  a ledger whose row is there and whose events are not, and a gap older than the
  lookback, are not repaired.
- Repair: the comments of `repair.ts`:13-14 and `repair-run.ts`:14-15 say that a
  repair never touches the indexer's cursor; a roll-back during a repair resets
  it (`indexer.ts`:447). Reconciliation's lookback may index ledgers before the
  configured start.
- Cache: a fill that was overtaken by a write stays until its time to live ends,
  and one whose key vanished between `GET` and `pTTL` gets the default of 300
  seconds instead of its policy (`cache-ttl.ts`:4 says otherwise).
- Ramp: an order that the provider took but whose answer was lost, or whose
  process died before the reference was attached, is never healed
  (`api/ramp.ts`:292), because reconciliation looks only at rows with a
  reference; nor does it heal a missed refund. Nothing calls
  `runDailyReconciliation()`. `attachProviderOrderId()` logs the status it has
  just written as the old one, so `pending -> processing` is never in the log.
  `markRefundInitiated()` may overwrite a completed refund
  (`order-management.ts`:179). Concurrent executes pass the KYC check together
  and exceed the daily limit, and the monthly counter is never reset. Two orders
  around midnight can leave the daily counter wrong (`services/ramp/kyc.ts`:174);
  `MonthlyUsageCounts` is about the monthly one.
- The transactional checkpoint commit that `docs/indexer-checkpointing.md`
  describes (`commitCatchUpCheckpoint()`) has no callers.

## 7. How to run

From this directory, `tlc -config WebhookLeases.cfg MCWebhookDelivery` (and
likewise for each run in PROJECT.json), `tlapm WebhookDelivery_proofs.tla` (and
likewise for the other `_proofs` modules). Every run takes at most a few minutes.

## 8. Not modelled, and what is next

The map covers a small share of the repository's lines, and would with every
protocol in it modelled. Most of the code has no protocol to check: about 180
REST route files validate a request and read the database; the client SDK, the
OpenAPI description and the mobile app are generated or user interface; XDR
decoding and classification are parsing; analytics, reputation, MEV and
composability are numerical scoring of stored data; contract verification and
the sandbox run external compilers. A model of those would be a transliteration
of data handling with nothing to interleave. RBAC is a static relation. The
checkpoint verification of `indexer/checkpoint.ts` has no callers. Billing, the
NATS queue and adaptive polling leave their protocol to an external service or
to measured time.

What is worth adding, in order of what a failure would cost:

1. **Webhooks**: the claim split at its `findMany`; the batching flag switched
   off while events are queued (`dispatcher.ts`:255); the outbox at its limit
   (:299).
2. **Indexer**: error queue with backoff and replay; RPC circuit breaker and
   failover; `NoGaps` with reorganisations for one sequential worker as a
   theorem; a second indexer process beside the repair jobs.
3. **Regions**: hybrid logical clock (monotonic, bounded drift) and the CRDTs,
   with convergence under lost, duplicated and reordered messages, against an
   abstract set; then the coordinator's majority decisions.
4. **Edge**: token bucket; login lockout and key rotation with its grace period;
   HTTP shutdown.
5. **Fan-out**: event hub and gateways with slow consumers; feed; peer-to-peer
   range ownership under changing membership.

Modules to be proved about keep the conventions used here: constants with named
assumptions, one action per operation, invariants as named conjuncts, recursion
only as functions or folds.
