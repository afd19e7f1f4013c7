# TLA+ models of the analytics backend

These modules model the parts of the backend in which several requests,
processes, queue workers and scheduled jobs act on the same documents: the job
scheduler and its lease lock, the email outbox, the tracked syncs of a
connector, the stored-rows quota, subscriptions and the payments that buy them,
login sessions, and the deletion of a workspace. TLC checks each on small
instances, and for each TLAPS proves type correctness and the safety properties
that matter most for every size (section 5).

Paths below are relative to the repository (`src/` here is the checkout, so
`src/src/jobs/scheduler.js` is the repository's `src/jobs/scheduler.js`).

## 1. Inventory

### What the system is made of

The backend is an Express API with MongoDB as its only durable store, and Redis
as an optional lock, cache and queue backend. Work that is not answered within a
request runs in one of two ways: **scheduled jobs** (`src/src/jobs`, node-cron in
every process, one lease lock per job), and **queue jobs** (`src/src/queues`,
BullMQ or an in-memory queue). Processes never talk to one another: they meet in
documents, each changed by single-document conditional updates. Nothing runs in
a transaction across documents in the modelled parts, so the order of the
writes, and what a crash or a failed write leaves between two of them, is the
design.

| Component | State it keeps | Operations | Meets others through |
|---|---|---|---|
| Job scheduler and lease lock (`jobs/scheduler.js`, `jobs/lock.js`) | `JobLock` or a Redis key per job, `JobRun` records, the set of running jobs, heartbeat timers | fire, acquire, renew, release with a fence, record, beat, finish, close stale, stop | every scheduled job below; shutdown |
| Email outbox (`services/outbox.service.js`) | `OutboundEmail` records: status, attempts, due time, lease | enqueue, drain, dispatch one, mark sent / retry / dead, requeue | the email job; every service that sends mail; SMTP |
| Connector syncs (`services/connector.service.js`) | the sync slot on `Connector`, `SyncRun` records, queue jobs | request, claim, close superseded runs, enqueue, deliver, renew, release, finish, reap, requeue | the connector queue; the stale-job reaper |
| Stored-rows quota (`services/usage.service.js`) | `UsageCounter`, `UsageReservation`, the `ConnectorRow`s themselves | consume, reserve, draw, give back, settle, cancel, reconcile | webhook requests, sync workers, the reconcile job |
| Subscriptions (`services/subscription.service.js`, `billingLifecycle…`) | one `Subscription` per workspace: plan, state, period, grace, scheduled change, hold | provision, apply a paid term, schedule or withdraw a change, cancel, reactivate, override plan or state, advance | payments; the lifecycle job; every access check (`computeAccess`) |
| Payments (`services/billing.service.js`, `billingWebhook…`, `billingReconcile…`) | `PaymentTransaction` rows with an apply claim, `WebhookEvent` rows with a processing lease | checkout, ingest, process an event, reconcile, re-apply, abandon, capture, apply | the provider; the subscription; the tenant's status |
| Sessions (`modules/iam/auth`) | `Session` documents linked into families by rotation | login, refresh, logout, change or reset the password, revoke all, deactivate | every request; the account's and the tenant's status |
| Tenant deletion (`services/tenantDeletion.service.js`, `tenantLifecycle…`) | `TenantDeletion` records, `Tenant.status`, every collection of the tenant | request, cancel, suspend, restore, disable, archive, schedule archived, claim, purge, verify, mark | the purge job; logins; stored files |
| Webhook receiver | replay claims, key cache, the ownerless sync slot | verify, claim, enqueue | connector syncs, quota |
| Idempotency middleware | one claim per key | claim, store the response, replay, expire | write endpoints |
| In-memory queue | buffer, running count, timers | enqueue, schedule, drain, retry, close | connector syncs, audit |
| Shutdown | order of steps, a deadline | stop jobs, drain queues, close connections | all of the above |
| Audit chain, ownership, support access, lockout, alerts, reports | one document or chain each | see `PROJECT.json` | scheduled jobs |
| Analytics engine, dashboards, AI, storage, HTTP layer, RBAC, flags, WebSocket | derived data, or none | queries, CRUD, I/O | — |

`PROJECT.json` lists every component with its sources, its status and, where it
is not modelled, the reason.

### What is hard, and what correctness means

* **Scheduler.** Processes fire the same cron tick seconds apart, by clocks that
  disagree, and the job may be over before the last of them asks for the lock.
  Requests to the lock may be applied and their reply lost; a renew may arrive
  after a release; a process may stall past its lease, crash or be stopped at
  any await. *Correct:* a tick is given to one process only; a late process
  disturbs neither the next holder nor a run that has a verdict; every `JobRun`
  gets a verdict.
* **Outbox.** Two drains overlap, a sender outlives its lease, dies after SMTP
  accepted, or cannot write `sent`. *Correct:* every further copy is paid for by
  a lost acknowledgement, no more sends than the budget, a late outcome changes
  nothing, every message settles.
* **Syncs.** Slot, run and queue job are three documents written in sequence by
  request, worker and reaper. *Correct:* a superseded worker is silent, a
  verdict is final, two open runs ingest only when a takeover failed to close the
  older one, the slot always comes back.
* **Quota.** Capacity moves between a counter, a ledger and the rows in separate
  writes by requests, workers (perhaps two for one job) and a reconciler that
  reads four things at four moments. *Correct:* capacity is conserved, the
  limit holds, leaks heal.
* **Subscriptions.** What a workspace may do is computed from the stored row and
  the clock; requests, payments, administrators and a job that may be late by
  any amount rewrite the row, some of them without comparing what they read.
  *Correct:* paid access adds up to what was sold, an administrative hold is
  lifted by nobody else, the stored state follows its graph and the job finds
  whatever lags.
* **Payments.** The provider's events arrive late, twice, out of order or never;
  the same transaction is moved by webhook processing, by the reconcile job and
  by the customer; claims lapse under slow holders. *Correct:* a term is granted
  for captured money only, once, and a captured row is never left half done.
* **Sessions.** Two tabs refresh with one token, an answer is lost, a revocation
  walks over the sessions while a refresh adds one. *Correct:* a login has one
  live session in anybody's hands, a revoked family stays dead, no rotation
  prolongs a login.
* **Tenant deletion.** A purge is dozens of deletes without a transaction, in
  which later filters need ids that earlier deletes remove; it may die anywhere,
  be retried, or overlap with a second worker, while requests and administrators
  reopen the workspace. *Correct:* a workspace in use is whole, what was begun is
  finished, `purged` means nothing is left but what was written too late to find.

The `hazards` of `PROJECT.json` give each of these with its line in the code and
the property that would catch it.

## 2. Modules

| Module | Models | Lines of the code |
|---|---|---|
| `TickMutex` | abstract: what the job lock promises | — |
| `JobScheduler` | one job, N processes, both lock backends, `JobRun`s, shutdown | `jobs/scheduler.js`, `jobs/lock.js`, `repositories/jobLock…`, `repositories/jobRun…` |
| `JobScheduler_proofs` | theorems about `JobScheduler` | — |
| `Outbox` | the outbox | `services/outbox.service.js`, `repositories/outboundEmail…`, `jobs/email.job.js` |
| `Outbox_proofs` | theorems about `Outbox` | — |
| `ConnectorSync` | tracked syncs of one connector | `services/connector.service.js`, `repositories/connector…`, `…/syncRun…`, `jobs/stale-job-recovery.job.js`, `queues/` |
| `ConnectorSync_proofs` | theorems about `ConnectorSync` | — |
| `StoredRows` | storedRows metric of one tenant | `services/usage.service.js`, `repositories/usage*`, `…/connectorRow…` |
| `StoredRows_proofs` | theorems about `StoredRows` | — |
| `Subscription` | the subscription of one workspace and all its writers | `services/subscription…`, `services/billingLifecycle…`, `repositories/subscription…`, the two controllers |
| `Subscription_proofs` | theorems about `Subscription` | — |
| `Payments` | payment transactions of one workspace, from checkout to the applied term | `services/billing…`, `billingWebhook…`, `billingReconcile…`, `billingLifecycle…`, `repositories/paymentTransaction…`, `…/webhookEvent…` |
| `Payments_proofs` | theorems about `Payments` | — |
| `Sessions` | the sessions of one account | `modules/iam/auth/auth…`, `session…`, `password…`, `repositories/session…`, `services/profile…`, `services/user…` |
| `Sessions_proofs` | theorems about `Sessions` | — |
| `TenantDeletion` | deletion and status of one workspace | `services/tenantDeletion…`, `tenantPurge.registry.js`, `tenantLifecycle…`, `repositories/tenantDeletion…`, `…/tenant…` |
| `TenantDeletion_proofs` | theorems about `TenantDeletion` | — |
| `MC…` | instances for TLC | — |

Each module keeps one rule: a step is what happens between two awaits. A database
command is atomic, as the server makes it; what the code does before the next
command belongs to the same step. A caller's place is its `pc`, and what it read
earlier and still uses (a clock value, a set of open runs, a count) is kept in
its record, so that it can be stale when it is used.

Operators under a comment that begins `Mutant:` are not part
of the models: each is a variant of the definition after it with one plausible
mistake, and `PROJECT.json` says which property notices.

### JobScheduler

| TLA+ | Code |
|---|---|
| `Fire` | the node-cron callback and `runJob` up to `lock.acquire`; `noOverlap` |
| `AcquireGranted`, `AcquireRefused`, `AcquireFailed` | `acquire` of either backend; refused, failed, or taken with the reply lost |
| `RecordRun` | `execute`: `jobRun.start`, whose failure is swallowed |
| `TimerFires`, `RenewApplied`, `RunBeatApplied`, `BeatLost` | the heartbeat: a timer, then `renew`, then the `JobRun`'s heartbeat |
| `HandlerEnds`, `CloseRun`, `Release` | the handler's end, `finish`, and `release` with `holdUntil` |
| `StopBegins`, `StopEnds`, `Exit` | `stopScheduler` and the process' end |
| `Crash`, `Restart` | environment |
| `CloseStale` | `closeStale`, called by the stale-job reaper |
| `Advance` | time |

A lock request is judged by the clock the caller read (MongoDB) or by the
server's when it arrives (Redis): `JudgedAt`. Each process has a constant
`Skew`. The document left by an expired lock is kept, as MongoDB keeps it (its
TTL index removes it a day later); on Redis an expired key cannot be told from an
absent one, which `lock.until <= now` expresses. `acquiredAt`, which nothing in
the code reads, is left out.

### Outbox

`rec` is the `OutboundEmail` per dedupe key, `worker` a drain or a dispatch.
`BeginDrain` reads the clock once for the whole batch, as `drainOutbox` does, and
its `age` says how old that value is when the next claim uses it. Times are kept
relative to the present and `Pass` shifts them, so the state space is finite
without a last moment. `Take`, `Send`, `Outcome`, `Mark`, `WriteFails` are
`claimNext`/`claimById`, the transport call, the branch on its result, and the
conditional writes of `markSent`, `markRetry`, `markDead`; `RequeueDead` is the
operator's requeue.

### ConnectorSync

`slot` is `syncStatus`, `currentSyncRunId` and whether the lease is live; `run`
the status of each `SyncRun`; `msg` its queue job. `Claim` … `FailSlot` are the
writes of `enqueueTrackedSync` in order, used by requests and by the reaper's
requeue (`FindOpen` and `CloseOthers` are `closeOpenRuns`, which passes over a
read that fails and over each run it cannot finish); `Scan`, `Reset`,
`CloseFound`, `Recover`, `RequeueRefused` those of `recoverStaleConnectors`,
where the first `finish` that fails ends the recovery; `Deliver` … `Settle` those of `processSyncMessage`,
whose closing writes are a list (`todo`) because which of them happen, and in
which order, depends on how the sync ended. `Expire` lets a lease lapse,
`Stall` is BullMQ's redelivery, `Drop` the in-memory queue's loss on close.
`Faults` says which faults may happen and `MaxFaults` how often. `stray` is a
history variable: the open runs a takeover that had the slot could not read or
finish (`Missed`), and those a request inserted after it had lost it (`Opened`).

### StoredRows

`counter`, `ledger` and `rows` are the three collections; a delivery is a set of
row ids. `Consume` … `Return` are the webhook request (reserve, enqueue, and
cancel when the queue refuses); `Deliver` … `Settle` the worker through the sink
of `createStoredRowsSink` (which rows are new, draw, consume the rest, write,
give back, settle); `ReadCounter` … `Correct` one `reconcile`. `lost` is a
history variable: capacity that a crash or a failed release left on the counter.

Abstractions, each of which limits what is shown:

* recency and staleness are flags (`recent`, `stale`), not clocks. They are frozen
  while a reconciliation is under way, which judges by the `now` of its start;
* whoever holds capacity between two writes acts within the settle window
  (`USAGE_RECONCILE_SETTLE_MS`); nothing in the code enforces it;
* rows are never deleted, the limit is hard, there is one reconciler (the
  scheduler's lock gives that, see `JobScheduler`);
* the release on the counter after a failed batch and the one for its undrawn rest are one step;
* a reply lost after the ledger or the counter applied a write is not modelled.

### Subscription

`sub` is the row without its history. Every operation is three steps: a read
(`Request`, `Pay`, `Sweep`), for those that read again a `Reread`, and `Commit`,
which computes the patch of the row *as it was read* and writes it over the row
*as it is*. Operations that go through `casUpdate`, and `applyPaidTerm` with its
own comparison, write only if nobody wrote in between; the others write anyway,
and `blind` remembers that one of them did so on a row that had moved.

| TLA+ | Code |
|---|---|
| `Access`, `Due`, `GraceEnd` | `computeAccess` |
| `Table`, `Allowed` | `assertTransition` |
| `Provisioned`, `PaidTerm`, `Changed`, `Cleared` | `createForTenant`, `applyPaidTerm`, `scheduleChange`, `clearScheduledChange` |
| `Cancelled`, `Reactivated`, `PlanSet`, `StateSet` | `cancel`, `reactivate`, `changePlan`, `setState` |
| `LifecycleDue`, `Sweep`, `Advanced` | `listLifecycleDue`, `runLifecycleSweep`, `advanceLifecycle` |
| `Accepts` | what the controllers check before they call the service |
| `Checkout`, `Capture`, `Pay` | the payment, of which `Payments` has the detail |

The calendar is a line of ticks, a term a number of them; `balance` counts the
ticks of paid plan sold, tried out or given away less those had. It is a history
variable, like `blind`. Grace, the trial and the default window are constants;
prices, intervals and proration are data the properties do not look at.

### Payments

`row` is the `PaymentTransaction`, `event` the `WebhookEvent`, `paid` what the
provider holds. A processor is one activity: `BeginEvent` (processing a stored
event), `BeginReconcile` and `BeginReapply` (the two halves of
`reconcilePending`), `BeginAbandon` (`cancelCheckout`, or the switch to another
plan's checkout). All but the simple events go through the steps of
`confirmAndApplyCapture`: `Fetch` asks the provider, `TakeCapture` flips the
row, `ClaimForApply`, `ReadTerm`, `WriteTerm` and `MarkApplied` are
`applyCapture` with `applyPaidTerm` inside. `Refused` and `Fail` are the 4xx and
the 5xx outcome. `ReadTerm` is refused for a workspace that may not be served
(`blocked`; `Suspend`, `Reinstate`) and under an administrative hold (`UnderHold`;
`Hold`, `Lift`), which a repeated apply of the last transaction is answered before.

Abstractions: leases have no clock (`ClaimLapses`, `LeaseLapses`): one whose
holder is gone lapses at some time, one whose holder is at work only at the cost
of a fault. Amounts either match or do not. Of the subscription there are
`lastTransactionId`, the queued payment and whether `updatedAt` moved;
`OtherWrite` stands for all the writers of `Subscription` but those that set and
lift a hold. The sweep lists `Batch` waiting rows, the longest captured first;
`Elsewhere` counts those of other workspaces that are refused each time. The trail that a failed payment or a refund
leaves on the subscription is not modelled, nor is provider downtime other than
as a fault or as `reconcileOne`'s "not paid".

### Sessions

`session` is the collection, numbered by creation; `rotated`, `next` and
`rotatedAt` are `revokedReason`, `replacedBy` and `revokedAt` of a rotated
session. `held` and `tokens` say which sessions anybody can use: a successor that
was created but never answered is in nobody's hands. `BeginRefresh`, `Chase`,
`Check`, `CreateSuccessor`, `MarkRotated`, `Answer` and, for the loser of the
race, `Undo`, `Rejoin` are the awaits of `refresh` and `rotate`. `StartsSweep`
and `Sweep` are `revokeAllForActor`, whose `updateMany` visits the sessions one
by one in the order of its index. `BeginLogout`, `BeginChangePassword` and
`RevokeNext` read a set of sessions and end them one after another; a logout
follows a rotated cookie for three hops (`ThirdHop`). A request can
die anywhere (`Crash`), which is also how an answer is lost.

`active` is the status of account and tenant together. The in-process cache of
an actor's status, lockout, MFA, step-up and restricted sessions are not
modelled. `ended` is a history variable.

### TenantDeletion

| TLA+ | Code |
|---|---|
| `BeginRequest`, `CreateRecord`, `CloseTenant` | `requestDeletion`; the unique index on open records |
| `BeginCancel`, `Cancel`, `LookAtTenant` | `cancelDeletion` |
| `BeginTransition`, `GuardRestore`, `WriteStatus` | `transition` of `tenantLifecycle.service.js` |
| `ScheduleArchived` | `scheduleArchivedTenants` |
| `ClaimDue` … `MarkOutcome`, `Throw` | `runDuePurges` and `purgeTenant`, one step per collection |
| `BeginLogin`, `recordAttempt`; `BeginGrant`, `attachPermission`; `CreateRole` | a refused login; `addPermission` and `syncDefaultRolePermissions`; `create` of a role: writes that do not look at the workspace's status |
| `GraceElapses`, `WaitEnds`, `Ages` | `purgeAfter`; `leaseUntil` or `retryAfter`; the archive's retention |

Abstractions: of the registry's collections the model keeps one of each kind,
because only the order between a collection and the one its filter reads, and
whether it is still written to, make a difference: `LoginAttempt` (filtered by
tenant), `RolePermission` (its filter needs the ids of `Role`), `Role`, `Tenant`,
and the files. Roles and permissions are told apart by the role's id, and every
collection is counted by a step of its own. The first three are written to while
the workspace is closed: a login appends its attempt, and administrators create
roles and attach permissions to a role they read some awaits before (`writes` is
what such requests have yet to write). The grace period passes in two halves, each of which
waits for the requests begun before it: the period lasts days and no request
does, but a request may straddle one of its two ends. A purge may outlive its
lease at any time. `stray` is a history variable: what was written too late for
a purge to find (`Late`), that is after the count of its collection; or a
permission of a role that no longer exists, or that a purge under way has not
collected or is past deleting permissions for.

## 3. Runs

All bounds are constants of the cfg files. Two actors are enough for every race
the properties are about, since each is between one that acts late and one that
took its place; where a third role matters (the reaper, the reconciler) it is
there besides.

| Run | Instance | Checks and what it shows |
|---|---|---|
| `job_lock` | Redis; 2 processes, 2 ticks 2 apart, lease 3, fence 2, 1 heartbeat, 1 crash or shutdown, horizon 5 | `TypeOK`, `TickOnce`, `RunVerdictFinal`, `FencedReleaseStands`, with fairness `RunsEventuallyClosed`, and that the lock passes from the run of one tick to that of the next as `TickMutex` says (`ImplementsTickMutex`) |
| `outbox_settles` | 2 workers, 1 message, batch 1, 2 attempts, 1 crash, 1 failed write, 1 requeue | `TypeOK`, `DuplicateOnlyAcrossLostAck`, `SendBudget`, `EveryMessageSettles` |
| `outbox_stale` | 2 workers, 2 messages, batch 2 that can outlast the lease, 1 failed write | `SendBudget`, `StaleOutcomeIgnored` |
| `sync_safe` | BullMQ; requester, reaper, 2 workers, 2 runs, any 1 fault | `TypeOK`, `OneOpenSync`, `VerdictFinal`, `SupersededIsSilent` |
| `sync_freed` | in-memory queue; requester, reaper, 1 worker, 2 runs, any 1 fault | `SlotIsFreed` |
| `rows_safe` | 2 deliveries sharing a row, 2 workers, limit 3, 1 fault | `TypeOK`, `Conservation`, `WithinPlan` |
| `rows_healed` | the same with 1 worker and limit 2, so that a delivery is refused or partly consumed | `Conservation`, `Healed` |
| `sub_terms` | 2 actors, plans free, low, high, a trial of high, 1 payment for low, 2 requests of 8 kinds, 4 moments, every duration 1 | `TypeOK`, `PaidAccessBudget`, `HoldStands`, `StateGraph`, `LagIsSwept` |
| `sub_queued` | the same | **violated:** `QueuedTermStarts` |
| `pay_once` | 2 processors, 1 payment with a capture and a refund event, 2 attempts, sweeps of 25 rows, 24 refused rows elsewhere, 2 faults, holds or suspensions | `TypeOK`, `SecondTermNeedsRival`, `GrantedWasPaid`, `CapturedIsApplied` |
| `sessions` | 2 requests, 3 sessions, 2 logins, 3 moments, lifetime 1 of at most 2, grace 1, 1 crash or revocation | `TypeOK`, `LoginNeverForks`, `EndedStaysEnded`, `LoginEndsInTime` |
| `deletion` | 2 requests, 2 purge workers, 2 attempts, 1 record, 2 role ids, 1 fault, login, new role or grant | `TypeOK`, `OpenIsWhole`, `TornStaysDoomed`, `PurgedLeavesNothing`, `DeletionSettles` |

Why the bounds are enough: the job horizon of 5 leaves room for a run of either
tick, its crash, the end of its lease and the reaper; the second tick fires as
the first one's fence ends, so that the lock is handed over from a released run
to the next, and refused while a run keeps it. Two attempts give a retry and a last
attempt; two runs give a superseded and a superseding sync, and a recovery. Two
rows of which one is shared give a batch of which one row is new, and limit 3
exactly what both deliveries ask for. With every duration one tick, the four
moments of `sub_terms` take a row through trial, term, grace and beyond it, and
two requests give a change and its reversal, or a hold set behind a payment. Two
faults in `pay_once` are a lapsed claim and one failure more, or a hold or
another write of the subscription; 24 refused rows are as many as leave room for one more in
a sweep (with 25, `CapturedIsApplied` fails, section 3). Three sessions are a login rotated twice, or a login rotated
beside another one; two moments past the first separate the sliding expiry from
the family's deadline. In `deletion` a first attempt that dies half-way and a
second that finishes overlap in every way, and the one late write can be an
attempt, a role or a permission, of the role the workspace began with. One fault at every possible place is
what most of the code is written to survive; it does not claim to survive every
pair.

Larger instances, too slow to be run each time, were explored to the end without
an error: the safety properties of `JobScheduler` with horizon 6 (3.9 million
states), in which the second tick also succeeds a lease that ran out;
the invariants of `Payments` with two payments and one fault or hold (4.7 million
states), which lets a payment rather than another writer be the rival of
`SecondTermNeedsRival`; and the invariants of `TenantDeletion` with two faults or
late writes (9.1 million states).

Deadlock is checked in the job, outbox and row runs. The others turn it off: when
every run id, session, record or moment is used and nothing is under way, the
model, like the system, may rest for good.

### What the violated run shows

`sub_queued`. A workspace on the trial of a higher plan buys a lower one.
`applyPaidTerm` takes the trial for a running term and queues the bought one to
start at its end. When that comes, `computeAccess` consults a due change only
in the stored state `active` (`subscription.service.js:208`); in `trialing` it
answers that the workspace is on the free plan, and `advanceLifecycle` writes
that down with `scheduledChange: null` (`:972-980`). The term was paid for and
never starts. The same happens behind a canceled term, which expires. It
disagrees with `subscription.service.js:648-650` ("queue it to start at the
period end") and `billingLifecycle.service.js:18-19` ("so a charged customer
always ends up with the term they paid for").

### Deviations the models have and no run reports

Met while modelling; each follows from the actions named.

* **A renew overtaken by its release (MongoDB).** `renew` and `release` travel on
  different connections; a renew applied after the release lengthens the fenced
  lock by a lease, and the job misses ticks that `scheduler.js` says it runs. It takes a lease under three fences, which `env.js` accepts; the defaults
  (5 minutes, 30 seconds) are safe. `FencedReleaseStands` is therefore checked on
  Redis. (`RenewApplied` after `Release`)
* **Drained, but not quiet.** `stopScheduler` waits for the jobs that run when it
  is called; a `runJob` that awaits the lock's answer is not among them and
  executes afterwards. (`StopBegins`, `StopEnds`, `AcquireGranted`)
* **A batch leased from its start.** `drainOutbox` reads `now` once
  (`outbox.service.js:402`) and every claim of the batch is leased from it. In a
  batch that lasts longer than `OUTBOX_LEASE_MS` the later claims are over when
  they are taken; an overlapping drain takes and sends the same messages,
  although `outbox.service.js:24` says "concurrent drains never send it twice".
  `DuplicateOnlyAcrossLostAck` is therefore checked with batches of one, and
  proved for any batch that its lease outlasts. The defaults, batches of 50 and
  leases of 2 minutes, meet that only while a message takes 2.4 seconds or less.
  (`BeginDrain`, `NextMessage`)
* **A failed `sent` write is a failed send.** It is inside the same `try`, so the
  message is retried and a second copy leaves without any crash. The models count
  it as a lost acknowledgement. (`Outbox!WriteFails`)
* **A finishing sync closed as abandoned.** `processSyncMessage` frees the slot
  (`connector.service.js:1657`) and then closes its run (`:1661`). A request that
  claims the slot in between takes the finishing run for one left by a crash and
  closes it as `abandoned`; its `succeeded` is then dropped, against
  `SyncRun.js:13`, which has only an expired lease lead there. (`Write`, `CloseOthers`)
* **Rows stored and not counted.** `upsertRows` can throw after every row was
  stored (its `bumpDataVersion` fails, `connectorRow.repository.js:90`, or the reply
  is lost), with an error that has no `upsertedCount`. The sink takes nothing for
  stored and gives the capacity back; the retry finds the rows and draws nothing.
  They stay uncounted until a reconciliation, which is off by default, against
  `usage.service.js:497`. (fault `blind`, in neither run)
* **A timed-out enqueue that was taken.** The request marks the run failed, but a
  worker that already began keeps the slot `running` and imports the data,
  although `connector.service.js:1130` says nothing is left in flight. (`Enqueue`
  with fault `timeout`)
* **A run left running.** A worker that dies between freeing the slot and closing
  its run leaves it open; the reaper looks only at slots in flight, so only the
  next sync of that connector closes it. (`CrashWorker` between the `release` and
  `finish` writes)
* **Two open runs.** `closeOpenRuns` takes a failed read for "none"
  (`connector.service.js:1224-1225`) and passes over each `finish` that fails
  (`:1228-1238`); the takeover goes on, and the superseded worker, if it lives,
  goes on importing for a run that is still open. A request slower than its lease
  between its claim and its run inserts a run beside that of the request which took the slot
  over, whose live run it may have closed. `OneOpenSync` claims nothing of these
  runs (`stray`) and holds of all others. (`FindOpen`, `CloseOthers`, `Insert`;
  faults `unread`, `write`, `slowclaim`)

* **Subscription writers that compare nothing.** `cancel`, `reactivate`,
  `changePlan` and `setState` check the row they read and write over whatever is
  there: a cancel can end a term paid for meanwhile, a reactivate lift a hold set
  meanwhile. `createForTenant` is an upsert that sets the trial or free plan on a
  row another request provisioned, and a payment perhaps upgraded, after both saw
  none. The change-plan controller compares the plan with the one it
  read (`subscription.controller.js:133-146`); if the lifecycle job or an
  administrator moves the row before `scheduleChange` reads it, the old paid plan
  is granted unpaid. All of these set `blind`, under which three of the properties
  claim nothing.
* **A late payment meets a due change.** A payment that is applied after a queued
  prepaid term became due and before the job started it finds no running term of
  the stored plan, starts its own and drops the queued one. (`PaidTerm`, last case)
* **A term applied twice.** `applyPaidTerm` remembers only the last transaction.
  If the term is written, `markApplied` fails, another payment is applied, and
  the reconcile job re-applies the first, its term is granted again, against
  `billingReconcile.service.js:7-9` ("Every action is idempotent"). It is the one
  exception `SecondTermNeedsRival` makes.
* **Claims without an owner.** `markApplied` and `releaseApply` do not compare who
  claimed the row, so a slow processor can release its successor's claim; a refund
  recorded in between leaves a term applied to a refunded row, never marked.
  (`MarkApplied`, `ReleaseApply`)
* **Captured under a hold.** `applyPaidTerm` refuses a restricted subscription
  (`subscription.service.js:683-685`) and `applyCapture` releases the claim: while
  the hold stands, the captured row is neither applied nor refunded nor marked,
  only tried again by every sweep. So with a suspended workspace.
  `CapturedIsApplied` promises nothing meanwhile. (`ReadTerm`, `Refused`)
* **Starved by the refused.** `listCapturedUnapplied` takes the 25 rows captured
  longest ago, and rows that are refused each time stay first. Behind 25 of them,
  of any workspaces, no younger captured row is re-applied, although
  `billingLifecycle.service.js:17-19` says a charged customer always ends up with
  the term. The fairness of `pay_once` asks for the row only while the batch takes
  every waiting one (`Listed`); with `Elsewhere = Batch` TLC finds the row that waits for ever.
* **Money at a closed row.** The customer can pay after `cancelCheckout` asked the
  provider and before it writes `cancelled`; nothing captures such a row. One
  expired or failed is captured only when the provider's webhook arrives, and the
  reconcile job also expires a pending row when the provider does not answer.
  The refund's and the failure's trail on the subscription is written after the
  row has moved and is lost with the process. (`BeginAbandon`, `Close`)
* **A logout with an old cookie.** A cookie that was rotated more than three times
  since leaves the login's live session alone: `liveDescendantOf` gives up after
  `LOGOUT_MAX_ROTATION_HOPS`. (`ThirdHop`; three sessions are too few to show it,
  the proof of `EndedIsOver` is what asked for the condition)
* **A logout beside a refresh.** `logoutByRefreshToken` reads what to end; a
  successor that a refresh has created and not linked yet survives. So it does
  when `changePassword` lists the other sessions (`profile.service.js:41-43`). A login that proved the old
  password creates its session after the reset's revocation. (`BeginLogout` with
  `quiet` false, `BeginChangePassword`, `SignIn`)
* **A lost answer ends everything.** If the answer of a refresh is lost and the
  client comes back after the grace, its old token counts as a replay and all
  sessions of the account are revoked. (`BeginRefresh`)
* **A deletion nobody can undo.** If the request dies between creating its record
  and closing the workspace, a workspace in use is scheduled; every purge of it
  is refused until the attempts run out, and the `failed` record stays open: no
  new request, no cancellation, no restore. (`CreateRecord`, `CheckTenant`)
* **A purge that stays `purging`.** A worker that dies on the last attempt leaves
  it so, although `tenantDeletion.service.js:25-27` says the record "stays
  `failed` for an operator". `DeletionSettles` therefore accepts any record that
  is out of attempts.
* **Two purges of one workspace.** The lease is never renewed, so a slow purge is
  claimed a second time, against `tenantPurge.job.js:12-14` ("overlapping runs
  never purge the same tenant twice"). What the purge guarantees survives it.
* **Out of the archive.** A restore or a cancellation that read the tenant before
  it was archived writes `active` over `archived`, though archived tenants
  "cannot change status" (`tenantLifecycle.service.js:64`). And an attempt that a
  refused login records after the verifying count outlives the purge (`stray`).
* **Permissions nobody finds.** Roles are created, and permissions attached to
  them, without a look at the workspace (`role.service.js:119-137`, `:213-221`). A permission attached
  between the delete of the permissions and that of the roles, or to a role
  created after the ids were collected, belongs to no role the next attempt could
  collect; the deletion is recorded as purged and the document stays. Likewise a
  role created after the count. (`attachPermission`, `CreateRole`; `stray`)

## 4. Fairness

Liveness is checked under `FairSpec` only:

* `JobScheduler`: weak fairness of what every process does next (a request
  is answered or its connection fails, a shutdown ends, a supervisor restarts it), of
  requests under way, of the reaper (a scheduled job), and of time.
  Crashes, shutdowns and the heartbeat's timer are not fair.
* `Outbox`: of each worker's steps and of `BeginDrain` (the email job's cron
  keeps ticking) and of time; nothing makes a send succeed, or anybody dispatch a
  single message.
* `ConnectorSync`: of requests once begun, the reaper, workers and deliveries; of
  the expiry of a lease nobody renews; of BullMQ's stalled check for a job whose
  worker is gone. Nobody is obliged to request a sync, or to renew.
* `StoredRows`: of requests, workers, deliveries, and of each step of the
  reconcile job. The end of the settle window and of a reservation's TTL are
  *strongly* fair: both are disabled while a reconciliation is under way, which
  takes seconds of a day, and the window (two minutes by default) ends between two runs of the
  job. Weak fairness would allow a schedule in which no time passes except
  within reconciliations.
* `Payments`: of each processor's steps once begun, of the end of an apply claim,
  and of the re-application of a captured row while one sweep of the reconcile job
  (a scheduled job) lists all that wait. Nothing makes an administrator lift a
  hold, an event arrive or be processed, a customer pay, or an open order be
  reconciled: `CapturedIsApplied` needs none of it.
* `TenantDeletion`: of each request once begun, of the passing of grace
  periods, leases and backoffs, and of the claim of a due deletion and the purges
  once begun, taken together: the purge job, so where it is enabled (`JOB_TENANT_PURGE_ENABLED`, off by default; with it
  off, deletions are requested and never purged). Nobody is obliged to request,
  cancel, restore or archive.
* `Subscription` and `Sessions` state safety only: a late job costs a
  subscription nothing (`LagIsSwept`), and a client may never come back.

## 5. Proofs

`JobScheduler_proofs`, for every set of processes, lease, fence, skew, jitter,
cron expression and bound:

* `TypeInvariant == Spec => []TypeOK`;
* `TickOnceInvariant == Spec => []TickOnce`: no tick is ever granted to two
  processes, on either backend;
* `VerdictStands == Spec => RunVerdictFinal`: finish, heartbeat and reaper never
  change a `JobRun` that has its verdict, and no run is recorded twice;
* `Implements`: if the clocks agree, `Spec => ImplementsTickMutex`, on either
  backend;
* `FenceStands`: on Redis, with no process' clock ahead of the server's by as much
  as the lease is longer than the fence, `Spec => FencedReleaseStands`.

`TickOnce` is not inductive: that nobody has been granted tick *T* does not stop
a late acquire for *T* after the first run is over. What stops it is the fence,
so the invariant `IInv` says that

* the lock is taken at least to the end of the fence of *every* grant ever made
  (`LockInv`);
* a granted tick is in the past of its process' clock and below its `nextTick`
  (`GrantInv`);
* a request under way was fired within the jitter of its tick, and when an
  executing process that still has the lock last read its clock, the fences of all
  other grants were over (`Alone`, in `RunInv`), as they were when any heartbeat
  under way for the lock was sent (`BeatInv`): a renew or release therefore never
  moves the lock's end before a fence that must hold.

A granted acquire means `lock.until <= JudgedAt`, the request is judged within
the jitter of its tick (`JudgedInWindow`), and the fence of an earlier grant of the
same tick ends later than that: contradiction (`TickIsNew`). The assumption doing
the work is `FenceAssumption`, that a tick fires on every process before the
fence of the earliest one ends (`Jitter + Drift(i) <= Span + Drift(j)`); it is
what `TICK_FENCE_MS` is for, and TLC evaluates it on every run. On MongoDB the
skew cancels, since the fence and the request are judged by clocks of processes
that count from the tick.

`VerdictStands` needs one more invariant besides (`RunsInv`): a `JobRun` belongs
to a grant, and a call about to record one has none yet. It rests on `TickOnce`'s
neighbour `RunInv`: a request under way has a token never granted before.

`FenceStands` needs to tell a released lock from one a dead process left. While
an execution of the tick is under way, or a renew of it that its dead process had
sent, the lock outlasts the fence (`SentInv`), since every lease begins once the
tick's time has come and is longer than the fence; and when a release lands, the one
connection has delivered every renew sent before it. Were a clock ahead by
`Lease - Span` (four and a half minutes at the defaults), a lease taken early could
end exactly at the fence, and an orphaned renew would rightly extend it.

`Implements` maps `holder` to the lock's token while its lease lasts. A renew, a
release and the passage of time only keep, lose or regain the lock for the grant
that had it (`KeptOrFreed`, from `HoldInv`: a taken lock's token is a grant); an
acquire finds it free *at the server's time* because the time it is judged by is
never ahead of it (`TakesFree`), which is where the clocks must agree.

`Outbox_proofs`, for any messages, workers, batches, budgets and faults:

* `TypeInvariant == Spec => []TypeOK`;
* `SendsAreBudgeted == Spec => []SendBudget`;
* `OneCopyPerLostAck`: where `MaxAge <= Lease`, that is a lease outlasts the
  longest batch, `Spec => []DuplicateOnlyAcrossLostAck`;
* `LateOutcomesAreDropped == Spec => StaleOutcomeIgnored`, whatever the lease.

A claim counts the attempt before anything is sent, so each attempt is spent by
one worker that may hand the message over once; `BudgetInv` adds those workers
(`Pending`) to the sends made. A worker that lost its claim before a requeue is
thereby paid from the old budget. `Timely` bounds how old a clock value can be
when the batch it was read for has so many messages left; under `MaxAge <= Lease`
a claim therefore never lapses under its worker (`Mine`, `LeaseHolds`), two
workers never have the same message in hand (`OneOwner`), and a copy whose
accept was not lost is in the record or about to be (`Paid`).

`ConnectorSync_proofs`, for any requests, workers, runs, attempts and faults,
slow claims and failing reads and writes included:

* `TypeInvariant == Spec => []TypeOK`;
* `FirstVerdictStands == Spec => VerdictFinal`;
* `SupersededStaysSilent == Spec => SupersededIsSilent`;
* `OneSyncAtATime == Spec => []OneOpenSync`.

Closing, starting and retrying a run are conditional writes; creating one is
not. `VerdictFinal` needs to know that a call which has claimed the slot and not
created its run yet has the id to itself, whatever became of its claim
(`ReservedInv`), and that a worker closes a run only with a verdict (`HasPlan`,
from which it also follows that nobody writes to the slot without a run).

`OneOpenSync` follows from more: at most one open run is not `stray`
(`Confined`). A run opens only when its call inserts it. An insert by a call that
has lost the slot is stray at once. A call that has the slot, and that may still have
something to close, has seen every open run that is not stray: since its claim no other
call could insert a run that is not, and what it fails to read or finish becomes
stray. By the time it inserts its own run there is therefore no other left.

`StoredRows_proofs`, for any deliveries that share rows or not, any workers,
limit, batch size and faults:

* `TypeInvariant == Spec => []TypeOK`;
* `CapacityConserved`: where every failed batch says how many rows it stored
  (`"blind" \notin Faults`), `Spec => []Conservation`;
* `PlanHolds`: under the same condition, `Spec => []WithinPlan`.

The condition is the one of the checked instances: an error that says nothing of
the rows it stored leaves them uncounted until a reconciliation (section 3).
A sum over workers or deliveries is the number of units its keys have between
them (`Total`), so that what the library knows of finite sets says how a
sum changes when one key does (`TotalMoves`) or splits over a part of its keys
(`TotalSplits`).

Every step of a request or a worker is `Orderly`: it either leaves the counter
alone or shows on it, moves capacity without losing any, and puts none in
anybody's hands unless the counter or the ledger changed within the window. What
remains is the reconciler, which writes a sum of four readings. The invariant
says what its readings are worth as long as it trusts them (`RecOK`): if neither
the counter nor the ledger was changed recently, nobody has capacity in his hands
(`WindowOK`), so the rows counted are the rows stored, and what the ledger still
holds is all that anybody has; and if somebody moved on since, either the counter's
stamp shows it, or he only turned what the ledger held into rows or gave up the
difference. So the correction takes at most what was abandoned (`lost`), and the
compare-and-set refuses all else. A worker took enough for the rows of its batch
that are still missing (`Covers`), whatever others store meanwhile.

`Subscription_proofs`, for any actors, transactions, plans and tiers, and any
lengths of terms, trial, grace and default period:

* `TypeInvariant == Spec => []TypeOK`;
* `BudgetKept == Spec => []PaidAccessBudget`;
* `HoldsStand == Spec => HoldStands`;
* `GraphKept == Spec => StateGraph`;
* `LagsAreSwept == Spec => []LagIsSwept`.

Each operation is a function from a row to a patch, so most of the work is about
those functions: what a patch may contain (`IsPatch`), that it follows the graph
and leaves a hold alone (`Legal`, `Lawful`), and that no patch adds more than it
grants (`PatchLe`). Two invariants connect them with the steps. `Typed` keeps
rows `Sound`: a past-due row has its grace end, without which the sweep would not list
it. `Aware` says what an operation under way knows of the current
row: a compared read is the row itself or worthless, and so is any read since
which nobody wrote. A reactivation that counts therefore starts from `canceled`
or `active`, not from a hold.

`PaidAccessBudget` is not inductive: a balance of zero may belong to a row with
a year to run. `Covered` says that the balance is at least what the row still
stands for (`Owed`): the running term or trial, and the queued term from the
end of what runs now. A tick of paid access takes one from both; a renewal moves
the queued term by as much as it lengthens the running one, which is right only because
a queued change waits no longer than the term and is for another plan (`Ordered`).
Were a change queued to the plan the row has, a payment after the term's end
would count as a renewal of a term already eaten from the queue. A trial keeps the queued term whole, since
`computeAccess` does not start it from `trialing` (section 3).

`Payments_proofs`, for every set of transactions, events and processors, any
number of attempts and faults:

* `TypeInvariant == Spec => []TypeOK`;
* `PaidBeforeGranted == Spec => []GrantedWasPaid`;
* `SecondTermsHaveRivals == Spec => []SecondTermNeedsRival`.

That a grant is backed by money is known at the provider only, at `Fetch`, some
awaits before `WriteTerm`. The invariant (`Backed`) carries it along: a row that
is captured or refunded, a row that was ever granted, and a processor anywhere
between the provider's answer and `MarkApplied` all belong to money the provider
holds or held in the order's amount; money received is never unreceived, only
refunded.

`SecondTermNeedsRival` rests on two halves, neither of which `claimForApply` or the
check of `lastTransactionId` gives alone. Until a claim of a payment lapses (`Solo`)
it has one holder; a holder before its write has granted nothing, and a term that
was granted is marked, or its claim is still there to keep others out. That is
why a claim may be given back after a refusal, which comes before the write, but
not after a failure between the write and `markApplied`: `Fail` counts it as lapsed.
A hold changes none of this: it refuses before the write, and a hold set
between read and write moves `updatedAt` like any other write.
And once claims lapse (`Remembered`), a granted payment stays the row's last
transaction until another granted one follows it, and a read that is still fresh
at the compare-and-set saw another transaction's name.

`Sessions_proofs`, for any number of requests, sessions, logins and events and
any lifetimes and grace:

* `TypeInvariant == Spec => []TypeOK`;
* `OneLiveSession == Spec => []LoginNeverForks`;
* `EndedIsOver == Spec => []EndedStaysEnded`;
* `LoginIsBounded == Spec => []LoginEndsInTime`.

A family is a chain of sessions plus loose ends: successors created for a
rotation that is undecided, or was lost. `Chained` tells them apart, and the
invariant says that the chain of a family has one end (`FamiliesInv`), that
only chained sessions are ever handed out (`HandsInv`), and that a successor about
to be linked is not chained and nobody else's (`RequestsInv`); `MarkRotated` then
moves the end of the chain and nothing else does. For `EndedStaysEnded` a sweep knows
that every session before its place is inactive, and that new ones come
behind it; a logout that counts (`QuietInv`) has the end of the chain among its
targets, and no request in its family may rotate. `MarkRotated` cannot carry an
ended family on because the predecessor it compares is chained, hence not active.
`Min` is the least element of a set of naturals by `WFMin` of the library.

`TenantDeletion_proofs`, for any number of requests, workers, records, attempts
and faults:

* `TypeInvariant == Spec => []TypeOK`;
* `InUseIsWhole == Spec => []OpenIsWhole`;
* `TornIsDoomed == Spec => []TornStaysDoomed`;
* `PurgedIsEmpty == Spec => []PurgedLeavesNothing`.

The code checks the workspace's status once, before the first delete; what keeps
it shut for the dozens that follow is that nobody is left who could reopen it.
So the invariant says what a request about to write `active` knows: every record
that existed when it began is over, and none became purgeable since, for a request
does not outlast a grace period (`Knows`). A worker's record is doomed
(`purging`, `failed` or `purged`), it found the workspace shut, it deletes
permissions before the roles that name them, and it says `ok` only of collections
it has counted empty (`Purges`).

`PurgedLeavesNothing` cannot be about all of `data`, since a request that read the
workspace earlier may write at any time. The invariant is about what was not
written late (`Kept`, that is `data \ stray`): a permission in it has its role, so
that the next attempt collects the role's id, and nothing in it is overlooked by a
purge under way (`Overlooks`): no permission of a role the purge did not collect,
none at all once it is past deleting them, and nothing of a collection it has
counted empty. A write that lands where a purge would overlook it is late
(`NothingMissed`), and a delete or a count moves the purge on only past what is
gone. When the last count is done nothing is kept, and the record may say purged.

That no request outlasts the grace period is an assumption of the model (section 2).

Assumed are only the ASSUMEs of the modules: sizes are natural numbers, leases
and fences what `env.js` accepts, and `FenceAssumption`. TLC evaluates them on
every run.

Five theorems have a premise of their own, named where they are listed above:
`Implements`, `FenceStands`, `OneCopyPerLostAck`, `CapacityConserved` and
`PlanHolds`. The runs that check their properties satisfy it; nothing is claimed
beyond it. Other exceptions are part of the properties: `PaidAccessBudget`, `HoldStands`
and `StateGraph` claim nothing once a write was `blind`, `OneOpenSync` and
`PurgedLeavesNothing` nothing of what is `stray`.

Only model-checked: all liveness. Liveness under fairness and induction over data
are out of the prover's reach and stay with TLC.

## 6. Plan

In the order of how much goes wrong when they do:

1. `WebhookIngest`: replay claims and the ownerless use of the sync slot, beside
   tracked syncs; composes with `ConnectorSync` (slot) and `StoredRows` (quota).
2. `Idempotency`: the claim of a key, a crash before the response is stored,
   replay and expiry.
3. `MemoryQueue` and `Shutdown`: the in-memory queue's backoff, concurrency and
   close, and the order of the shutdown's steps, with the scheduler's stop.
4. `AuditChain`, ownership transfer, support access, lockout.

For the modules there are: lost replies in `StoredRows`; an abstract "one holder
of the slot" that `ConnectorSync` implements, and "a term per captured payment"
for `Payments` over `Subscription`. The project keeps a dozen runs, so new
questions join a run with the same instance where they can.

Every safety property of the runs has its theorem. Theorems next: those of the
modules to come, and the two refinements above.

## 7. Not modelled

See `PROJECT.json` for every part. In short: CRUD over one document, request
validation and routing, and I/O have no protocol to check; the analytics engine
evaluates queries over unbounded data, out of TLC's reach; hashing, tokens,
SMTP, BullMQ, node-cron and the databases are libraries, of which the models have
only what the code relies on. Within the modelled components, logging, metrics,
listings, formatting and health counters are left out.

## 8. Running

    tlc -workers 2 -config job_lock.cfg MCJobScheduler
    tlapm JobScheduler_proofs.tla

and likewise `Outbox_proofs`, `ConnectorSync_proofs`, `StoredRows_proofs`,
`Subscription_proofs`, `Payments_proofs`, `Sessions_proofs`, `TenantDeletion_proofs`.

Each cfg belongs to the `MC` module of its prefix: `job_` to `MCJobScheduler`,
`outbox_` to `MCOutbox`, `sync_` to `MCConnectorSync`, `rows_` to `MCStoredRows`,
`sub_` to `MCSubscription`, `pay_once` to `MCPayments`, `sessions` to `MCSessions`
and `deletion` to `MCTenantDeletion`.
