# Verification of zmdb

TLA+ models of the parts of this repository whose behaviour depends on order:
several processes over one table, awaits between a read and a write, leases,
timeouts, retries, shutdown. TLC checks each model on small instances, and
TLAPS proves the results that matter most for every value of the constants.
Paths are relative to the repository root (`src/` in `PROJECT.json`).

Run everything from this directory: `tlc -config X.cfg M` for a model,
`tlapm M.tla` for the proofs of a module.

1. [Inventory](#1-inventory-of-the-system) of the system and what it must keep
2. [Modules](#2-modules-and-the-code-they-model) and the code they model
3. [Runs](#3-runs), their bounds and what they show
4. [Fairness](#4-fairness)
5. [Where code and documents disagree](#5-where-code-and-documents-disagree)
6. [Proofs](#6-proofs)
7. [Only model-checked, and not modelled](#7-only-model-checked-and-not-modelled)
8. [Plan](#8-plan)

## 1. Inventory of the system

zmdb is a TypeScript toolkit in 27 packages: a schema-first compiler and
validator, a SQL builder, an ORM with drivers for six databases, a web
framework, an application runtime (modules, injection, lifecycle, messaging),
durable jobs, message transports, and clients. Most of its lines are pure
transformations: types to IR, IR to SQL, DDL, validators, SDL, clients. The
parts that keep state over time:

| component | state | operations | what is hard | what makes it correct |
|---|---|---|---|---|
| Job queue (`packages/jobs/src/queues`) | active runs, key locks, in-flight work, `#stopping`; the table `zmdb_job` with lease and holder, the markers `zmdb_job_done` | enqueue, pass (scan, claim, process), handler with timeout, settle, give back, drain, replay | workers in several processes; a lease that ends under a running handler; late handlers; store calls that fail after they took effect; a crash between any two statements | one settler per row; each attempt counted once; done implies marker; completed work not repeated; slots and caps bound handlers; drains resolve and give rows back; every job settles |
| Scheduler (`packages/jobs/src/schedule`) | `nextAt` of each task, runs in progress, lease sessions | start, tick, acquire / renew / release, run, finish, timeout, stop | two instances tick at once; a lease ends during a slow run; stop during an acquire; timers served late; a run that ends while the loop sleeps | one runner while leases hold; no start without the lease; no late tick silent; no wake-up lost; stop resolves and tells every run |
| Job stores (`packages/jobs-sqlite`, `packages/jobs-postgres`) | tables; a reserved connection and a queue of operations | one statement or transaction per port call; `Operations.run` with a deadline; close | a caller rejected on its deadline while its SQL goes on; close during calls | statements are atomic; a connection serves one operation at a time; close settles everything |
| Jobs extension (`packages/jobs/src/extension.ts`) | entered workers and schedulers, one stop | start, stop: schedulers, workers, then stores, each in reverse, under one deadline | a stop that rejects or outlasts the deadline while the next begins | a store closes only after the work that uses it, or after the deadline |
| Outbox (`packages/orm/src/outbox`) | the table `zmdb_outbox` with status, attempts, owner token, lease; passes of a loop and of callers | write in the caller's transaction, list, claim, read back, publish, mark, stop | several dispatchers; a crash between publish and mark; leases that end under a pass; results of fenced updates ignored | no committed row is lost; a fenced mark never undoes another's; a dead row failed as often as it says |
| Transactions (`packages/orm/src/transactions`) | the connection, a savepoint counter, open scopes, open streams | begin, savepoint, release, roll back, commit, retry, stream | savepoints of one scope run at once on one connection; a failing commit or rollback; streams left open | what a committed scope wrote stays, what a failed one wrote goes; nothing runs in a closed scope |
| Result cache (`packages/orm/src/cache`, `Repository` in `packages/orm/src/index.ts`) | entries with expiry and tags, in LRU order | cached read (get, query, set), write then invalidate, eviction | an invalidation between another read's query and its set; an invalidation inside a transaction that has not committed | after a write has returned, no cached read returns what it replaced |
| Loaders, replicas (`packages/orm/src/loaders`, `replicas`) | batch of the current microtask; round robin index | load, dispatch; route | a load while a batch is dispatched | each key is answered by its own row; writes go to the primary |
| Migrations (`packages/migrations/src/runner.ts`) | the ledger `_zmdb_migrations` and the schema | up, down, rollbackTo, status | two runners at once without a lock; a crash inside a file where DDL is not transactional; an edited file | a file is applied once, in order, and its ledger row says so |
| Application (`packages/app/src/application.ts`, `lifecycle.ts`, `modules`) | created, starting, running, stopping, stopped, failed-cleaned; entered extensions; lazy loads | init, dispose | dispose during init; a failing start or hook; lazy modules loading at shutdown | what was entered is stopped once, in reverse; every error is reported |
| Messaging (`packages/app/src/messaging`, `packages/transport`) | entered transports; a timer per request | dispatch, settle, request with timeout, close | a reply after the timeout; close with deliveries in flight | an event is acknowledged only after its handler; retries are bounded |
| Web pipeline, gateways, upload, health (`packages/web`) | contexts, sockets, buffers | handle, upgrade, close | a client gone during a handler; back-pressure | one response per request |
| Client runtime (`packages/client`) | one body stream per response | call, read, cancel | a body used twice, or cancelled while read | a stream is taken once and released |
| Drivers (`packages/postgres`, `mysql`, `mssql`, `sqlite`, `cockroach`, `singlestore`) | third-party pools, connections, streams | acquire, query, stream, release | a cancelled stream; a broken connection | every connection is released once |

The jobs, the schedules and the outbox share no tables. They meet in the
process that runs them: the application stops its extensions in reverse order,
the jobs extension stops schedulers, workers and stores in that order under one
deadline, and each of those drains under its own grace. Workers and schedulers
meet the stores through the ports `JobStore` and `LeaseStore`, whose calls may
reject although they took effect, be answered late, or never be answered. Other
processes are met only through the tables.

`PROJECT.json` lists every component with what is modelled of it, and the
hazards of this code at the lines where they bite.

## 2. Modules and the code they model

| module | what it is | code |
|---|---|---|
| `JobStore` | the tables of the queue and the statements that change them, each one atomic | `packages/jobs-sqlite/src/index.ts` (the statements of `jobs-postgres` have the same conditions) |
| `JobWorker` | worker processes over one `JobStore` | `packages/jobs/src/queues/index.ts` |
| `JobLifecycle` | abstract: the life of a job as its caller knows it | status, attempts and marker of a row |
| `JobWorkerProperties`, `MCJobWorker` | properties, instances | |
| `JobWorkerProofs` | proofs | |
| `LeaseStore` | the table `zmdb_job_lease` | `packages/jobs-sqlite/src/index.ts` 303-333 |
| `LeaseScheduler` | schedulers that coordinate once-per-cluster tasks, and their shutdown | `packages/jobs/src/schedule/lease.ts`, `index.ts` |
| `LeaseSchedulerProperties`, `MCLeaseScheduler`, `LeaseProofs` | properties, instances, proofs | |
| `CronPlan` | the instants of a cron expression under a clock that is put forward and back | `packages/jobs/src/schedule/cron.ts` |
| `ScheduleTick` | the loop of one scheduler: instants, sleeps, wake-ups, missed and skipped instants | `packages/jobs/src/schedule/index.ts` |
| `ScheduleTickProperties`, `MCScheduleTick`, `ScheduleTickProofs` | properties, instances, proofs | |
| `OutboxDispatcher` | dispatchers over the outbox table | `packages/orm/src/outbox/index.ts`, `sql.ts` |
| `OutboxDelivery` | abstract: what becomes of a committed row | status and attempts of a row |
| `OutboxProperties`, `MCOutbox`, `OutboxProofs` | properties, instances, proofs | |
| `Transactions` | `transaction()` and its savepoints over one connection | `packages/orm/src/transactions/index.ts` |
| `AtomicScopes` | abstract: nested scopes that hand their gain outwards or lose it | the same, as its callers know it |
| `TransactionsProperties`, `MCTransactions`, `TransactionsProofs` | properties, instances, proofs | |
| `Application` | one application: `init()`, `dispose()`, hooks, extensions, lazy modules | `packages/app/src/application.ts`, `lifecycle.ts`, `modules/index.ts` |
| `JobsExtension` | an application one of whose extensions is a `jobsExtension` | `packages/jobs/src/extension.ts` |
| `ApplicationProperties`, `MCApplication`, `ApplicationProofs` | properties, instances, proofs | |
| `ResultCache` | cached reads and writes of repositories, over memory stores | `packages/orm/src/index.ts`, `cache/index.ts` |
| `ResultCacheProperties`, `MCResultCache`, `ResultCacheProofs` | properties, instances, proofs | |
| `MigrationRunner` | `up`, `down`, `downTo` by several processes over one ledger | `packages/migrations/src/runner.ts` |
| `MigrationProperties`, `MCMigration`, `MigrationProofs` | properties, instances, proofs | |

`JobWorker` extends `JobStore`, and `LeaseScheduler` extends `LeaseStore`: the
actors compose with the table they share. `ScheduleTick` extends `CronPlan`, whose
search plans its cron tasks. `LeaseScheduler` and `ScheduleTick`
are two views of one class, `AppScheduler`. The first keeps what several
schedulers do to each other and takes instants as they come, and the second
keeps the clock and takes what a lease answers as it comes. `JobLifecycle` and
`OutboxDelivery`, like `AtomicScopes`, are instantiated with a refinement
mapping in the property modules. `JobsExtension` extends `Application`: it
refines what one extension's start and stop do, and keeps of the workers and
schedulers only whether their shutdowns are asked for and have settled.

All modules follow one rule for atomicity: an action is what runs between two
awaits, microtasks of already resolved promises included. A request that a step
sends is executed by the store, and answered, in later actions. A request that
rejects may or may not have been executed.

**Job queue.** Time is abstracted: `lease_until` is only ever compared with the
clock, so a row is `hidden` or not, and `LeaseExpires` unhides it.
`LeaseExpiresUnderRun` does so while a run still works under that lease, and
counts as a disturbance. Jobs are numbered in the order of the scan,
(`enqueued_at`, `id`). `Key(j)` is the dedupe key or the job itself. `run[w][j]`
is an entry of `#active`, and its phases are the awaits of `#process`,
`#runHandler` and `#settleFailure`. `executing` holds handler calls that have
not returned, which outlive their run after a timeout. `mode` is `#stopping`
and the progress of `#drain`. `#process` returns the promise of `#runHandler`
without awaiting it, so the key lock is released before the handler starts, and
the model does the same. A loop whose pass rejects halts (`RunRejects`,
`PassRejects`); a worker driven by `runOnce()` does not. Every handler has the
same retry policy. In `JobLifecycle` a job may die before its attempts are used
up only if it is one of `Refused`, those whose payload cannot be read or is
rejected.

**Leases.** One row per task, of a holder, `live` until it expires. A scheduler
has one holder id for all its runs, as the code has. `run[s][t]` is
`task.running` with its session: whether the lease is held, what the renewal
does, and who called `release()` first. `stray` holds requests without a caller
that the store may still execute, and `disabled` the tasks that lost their
lease. `left` is what `#stop` has still to abort and release.

**Clockwork.** Every stored instant is read against the clock, so variables
hold offsets from now and the schedule runs for ever in finitely many states.
`phase` is the clock modulo `Cycle`, after which zone and calendar repeat, and
`Following[t][p]` is what `NextInstant` of `CronPlan` finds from phase p. `wake` is the end of
the loop's sleep, and `Never` before `start()`. `reported` is history: the
instants that the last tick gave to `onSkipped` (`Skipped`). `Advance` may pass an instant
that has not been ticked by at most `MaxLate`.

**Cron plans.** Pure definitions without state. Instants and wall times are
integers of one unit, with `Hour` and `Day` counted in it; `Zone` says how far
the wall clock is ahead at each instant, and `Calendar` gives each date its
month, day and weekday. A field is what its segments match and whether it is the
lone `*` (`ParseField`). `ResolveWallTime` takes the earlier of two instants of a
time that comes twice and moves a time that a gap leaves out forward, from
offsets sampled a quarter of a day apart (`OffsetsNear`), and
`CandidatesOnDate` looks at the times in each gap apart, as the code does.
`IsInstant` is the reference: it says by definition which instants an
expression has, from the rules of `schedule/SPEC.md` section 5, without a search.

**Outbox.** Rows are numbered by `created_at`. `hidden` stands for
`lease_until >= now`, which serves as lease and as back-off. A token is drawn
per pass, so the owner of a row is a pass, or `Past` when no pass has the token
any more. The pass keeps the attempts it read back, `seen`, and writes
`seen + 1`. A statement that rejects ends the pass, applied or not.

**Transactions.** A scope is a pair of a round (one BEGIN) and a savepoint
number, 0 for the transaction. A connection executes statements in the order
they are sent, so a statement takes effect with the step that sends it, and its
answer is a step of its own; other scopes of the connection may send theirs in
between. `session` is the database's side: open, broken by an error until a
rollback, dead, and the stack of savepoints with what was written before each.
`Careful` says that a callback awaits each promise and lets a rejected statement
reject it; without it every context may be used at any moment. A round that was
rolled back may be retried (`Retry`).

**Application.** `main` is the one thread of control of `start()` and of a
cleanup. The hook passes read the live `ledger`, as `runInit` iterates it, so
that instances recorded by a `load()` meanwhile are passed over too. Each lazy
load is a thread of its own; it constructs what `Without` leaves of its order,
the instances that no one has constructed before. `called` counts the hooks, starts and stops.
The participants of a `jobsExtension` are `asked` to shut down and settle, or
not; `late` is the deadline of the application's grace, which the extension
races with every one of them. What is left of the grace at the stop is one of
`Graces`, or 0 once the deadline has passed; `StopRefused` is the stop that
rejects at once because no timer can wait that long (`MaxDelay`).

**Result cache.** A result is the set of writes it reflects, so that staleness
is a comparison of sets. A cached read is get, query, set, and a write is
execute, invalidate, each an await. Repositories are `base` or `bound` to the
one transaction, and `store[r]` is the repository's `#cacheStore`: the one given
at construction, its own from the first cached read on, or the base's if that
existed at `withTransaction`. A store holds entries and the order of their last
use, as pairs of queries (`before`), so that `Oldest` is what an LRU map evicts.
`clean` is a history flag of an entry: no write of
its tables was under way while it was loaded, and none could fail to reach it.

**Migrations.** `reading` verifies the ledger, `body` runs the file, `record`
writes the ledger's row, and `commit` ends the transaction where DDL has one.
`files` are the texts a command was started with, `checksum` those of the rows.
`Waits` is the database's part: a row that another transaction has written is
waited for. `Exclusive` is the caller's: the runner takes no lock, and the
documents ask for one.

Left out everywhere: payloads, reasons, logging, jitter, the lengths of delays,
and what only reads (`listDead`).

## 3. Runs

| run | instance | what it shows |
|---|---|---|
| `queue_one_job` | 1 job, 2 workers, 2 attempts; one each of: failed store call, crash, lease that ends under its run, replay, shutdown | 191,312 states. The fence, the attempt count and the marker hold in every interleaving; the table implements `JobLifecycle` |
| `queue_three_jobs` | 1 worker with 2 slots, 3 jobs, two of a name capped at one, one that shares the key of another; one expiry, replay, shutdown | 1,228,952 states. Slots and caps bound handlers that outlive their timeout; a drain gives back every row and resolves without fairness for handlers or store |
| `queue_liveness` | 1 job, 2 workers of which one has no handler for it; a crash, an early expiry, a shutdown | 152,642 states. Every submitted job ends done or dead |
| `lease_two_schedulers` | 2 schedulers, 1 clustered task, 2 instants, one of each disturbance | 835,250 states. One runner while no lease ends early; a loser is told, also when its own old release, executed late, freed the lease under its next run; no start without the lease |
| `lease_stop` | 1 scheduler, 3 tasks of which 2 clustered; a fault, an early expiry, a shutdown | 143,024 states. `onShutdown` resolves, and every run was told by then |
| `tick_three_tasks` | a cron task, two intervals, one behind a lease; a day with an hour left out and a day with an hour twice, timers late by up to 5 | 203,752 states. A late tick answers for the first instant that passed and for the one it comes at, no wake-up is lost, the schedule goes on; the cron search is right for every expression over the instance's calendar |
| `outbox_two` | a polling dispatcher and one called, 2 rows of which one malformed, 2 attempts; every pair of disturbances | 342,366 states. The outbox implements `OutboxDelivery`; every row settles |
| `transactions_nested` | 1 call with 1 retry, up to 2 savepoints nested or in sequence; a rejected statement, a refused COMMIT, a lost connection | 1,014,363 states. What `transaction()` answers is true of what is durable; the savepoint stack implements `AtomicScopes` |
| `application` | 2 extensions of which the second runs a worker, a scheduler and a store; 2 eager instances; 2 lazy roots that share a module; a grace that is taken and one that is refused | 469,560 states. What was started or constructed is stopped once and in order, nothing starts once stopping began, and both calls settle |
| `result_cache` | 2 clients, 2 tables, 2 queries of which one depends on both tables, stores of 1 entry, 2 writes, 1 failing store call | 1,379,574 states. An entry that no write overlapped returns what the database holds |
| `migrations` | 2 processes, 3 files, 4 commands, 1 edit; transactional DDL, reverting under the lock | 141,374 states. A migration is in force once if the ledger has it; the ledger has no gaps |
| `lease_two_fires` | 2 undisturbed schedulers | ends in a violation: section 5 |

Why the bounds are enough. The queue's statements touch one row each, and rows
meet only in slots, caps and keys. So one row with two workers has every
interleaving of claims and settlements, and three rows of two names have every
meeting. Four holders suffice because a holder is recycled once nothing refers
to it (`Fresh`). Two attempts is the least number with a failure that retries
and one that kills. Each disturbance happens at most once per run of the queue
and the leases, but in any order with the others and at any step. A second
crash finds the same states as the first, since a crash leaves nothing but the
tables, and the proofs of section 6 have no bounds at all. Leases of different
tasks are independent rows, so `lease_two_schedulers` needs one task; several
are needed only by the shutdown, which releases them one after the other. Two
instants let a second run meet what the first left behind:
a release, say, that executes late. In the clockwork a
day has two hours of two units and the zone repeats after two days, one of which
leaves its first hour out and one of which has it twice. The cron task fires
half past that hour, so that both its instants are moved or chosen by the
change, and they lie 2 and 6 units apart. `MaxTimer` = 3 makes the long gap take
several sleeps, and a tick that is `MaxLate` = 5 late may land on an instant or
pass one and more of each task; with instants 2 units apart it may pass two of one
task, of which the first alone is reported (section 5). `SearchFindsTheNext`, an ASSUME of
`MCScheduleTick`, compares the search with `IsInstant` for every set of minutes,
hours, days and weekdays of that calendar, from every instant: changes of an
hour on the hour, not over midnight, are what it is right for. In the outbox `Limit` = 2 bounds the disturbances in all
to two, since three kinds at once multiply the states without a new meeting:
each acts on one pass or on one row. `Batch` = 2 takes every row, so LIMIT
never cuts a batch.

A transaction has one connection, and calls follow each other on it, so that
one call with one retry meets all that a second would find; two savepoints are
the least number that can be nested and the least that can be siblings, and one
disturbance of each kind makes a rollback fail that follows a failure. The
application's lists are as short as an order can be seen in: two extensions,
two eager instances, two lazy roots that share a module, and one participant of
each kind. A cache of one entry evicts with every second query, and two writes
let one overlap a load and the other follow it. Three files leave one pending
between two others when the processes diverge. The proofs of section 6 have no
such bounds.

Symmetry is used for workers, holders, clients and processes in runs without
liveness. `CHECK_DEADLOCK FALSE` is set where the system may stop:
all jobs are settled and all workers halted or resolved, all schedulers are
stopped with no instants left, all calls were made, the application is disposed
of, or all commands were given.

One more configuration passes beside the runs. `JobWorkerRefused.cfg` checks
`ImplementsLifecycle` with an unreadable and a rejected payload and three attempts
(18,908 states): a job dies with attempts left only for its payload.

For every property of a passing run `PROJECT.json` names a mutant: a change of
one definition, a plausible bug, under which TLC finds the property violated.

## 4. Fairness

- Steps of an event loop (`PassStep`, `RunStep`, `StopStep`, `LoopTick`) are
  weakly fair: a promise that has resolved is continued and a timer that is due
  is served at last. `ScheduleTick` lets it be late.
- Store calls are answered, one way or the other, in the liveness runs. In
  `queue_three_jobs` they are not fair, nor are handlers: `ShutdownResolves`
  rests on the drain and its grace timer alone (`DrainSpec`), as `#drain` races
  them. In `lease_stop` methods need not settle but the store answers, because
  `#stop` awaits releases without a deadline.
- Handlers of the queue and `publish` of the outbox settle in `queue_liveness`
  and `outbox_two`: nothing in the code outlives one that does not, except the
  queue's timeout, which is not fair.
- Leases run out and processes that went down are started again, as the clock
  and a supervisor do. Both are external to the code and marked so.
- Timeouts, faults, crashes, early expiries, shutdowns, replays and calls of
  `runOnce()` or `tick()` are never fair.
- Hooks, constructors and the starts and stops of other extensions settle in
  `application`, and so do the jobs extension's own steps and its deadline. The
  shutdowns of workers, schedulers and stores are not fair: `CallsSettle` rests
  on the deadline alone.
- Transactions, the cache and the migrations are checked for safety only and
  assume no fairness.

`EveryJobSettles` is checked without failed store calls, because one such call
ends the loop of a started worker for good (`packages/jobs/src/queues/index.ts`
422): with them no worker may be left.

## 5. Where code and documents disagree

One disagreement is a run of `PROJECT.json`:

- `lease_two_fires`, `OncePerInstant`. A replica whose tick comes after another has run and
  released fires the same instant again, without any stall
  (`packages/jobs/src/schedule/index.ts` 404; `schedule/SPEC.md` 304).

Two show in the instances of passing runs, by a property that their configurations
leave out because it is false.

- `EveryPassedInstantReported`, among the `PROPERTIES` of `ScheduleTickOne.cfg`.
  When several instants of a cron task pass before a tick, the code reports the
  first and goes on to `nextAtOrAfter(now)`: those between are neither run nor
  reported (`packages/jobs/src/schedule/index.ts` 386-393).
  `docs-site/content/web-task-scheduling.md` 206 says that "an instant passed during
  a clock jump or event-loop pause is reported". `AnswersForPassedInstants` says
  what holds instead.
- `EveryParticipantAttempted`, among the `INVARIANTS` of `Application.cfg`. An
  application takes any positive integer as `graceMs` (`application.ts` 233,
  `app/SPEC.md` 145), but the stop of a `jobsExtension` rejects one above 2^31 - 1
  before it asks any participant (`packages/jobs/src/extension.ts` 62).
  `jobs/SPEC.md` 182 says "Every participant is attempted". `CleanedUpOnce` has
  this as its exception.

The others are kept as configurations beside the runs. Each ends in a
violation of the property named.

- `JobWorkerSlotLost.cfg`, `SlotsBoundHandlers`. When the settlement that
  follows a timeout rejects, `#runHandler` leaves before it awaits the handler;
  the slot is free while the handler runs
  (`packages/jobs/src/queues/index.ts` 609; `docs-site/content/web-queues.md`
  229 says the slot stays occupied).
- `JobWorkerCappedHides.cfg`, `CappedNamesHideNoOther`. A batch full of
  candidates of a capped name hides a claimable job of another name (line 483;
  the comment at line 482 says it must not).
- `ScheduleTickDelayed.cfg`, `DelayedTimersFire`. A tick a millisecond late
  reports the instant as missed; with timers that are always late an interval
  never runs (`packages/jobs/src/schedule/index.ts` 386; `schedule/SPEC.md` 271
  says "a late run and never a drifting series", while
  `docs-site/content/web-task-scheduling.md` 206 describes the code).
- `OutboxBare.cfg`, `DeliveredWasPublished`. `publish` rejecting
  with `undefined` is taken for success and the row marked delivered
  (`packages/orm/src/outbox/index.ts` 326; `outbox/SPEC.md` 242).
- `TransactionsOutlived.cfg`, `AnswerIsHonest`. A callback that does not await
  its savepoint and rejects: ROLLBACK is sent while the nested context is still
  open, and what that context executes next commits by itself
  (`packages/orm/src/transactions/index.ts` 301;
  `docs-site/content/transactions.md` 11).

- `ScheduleTickHalfHour.cfg`, `AnswersForPassedInstants`. Where the clock is put forward
  by half an hour, as on Lord Howe Island, a time before the gap and one that the
  gap moves behind it may fall on instants in the other order. `firstAfter` takes
  the first candidate by wall time and tests only that it is later than `after`,
  and the one that comes first as an instant is lost: `20,35 2 * * *` skips 2:35
  on the day of the change (`packages/jobs/src/schedule/cron.ts` 352;
  `schedule/SPEC.md` 241 says that a time the clock has once fires as written).

With `Exclusive = FALSE` the properties of `MigrationRunner` fail: the runner
takes no lock of its own, and `docs-site/content/cli-migrate.md` 80 asks for one.

Smaller things met on the way, which no document contradicts.

- Instances that a `load()` recorded before or during `init()` get
  `onModuleInit` and `onApplicationBootstrap` from both
  (`packages/app/src/application.ts` 136), and a lazy root that shares a module
  with another reports loaded while the shared module's hooks still run
  (`packages/app/src/modules/index.ts` 148).
- The stores given to a `jobsExtension` are closed by its stop. An application
  whose `init()` fails before it comes to the extension never closes them
  (`application.ts` 139, `packages/jobs/src/extension.ts` 43).
- A cached read whose query was answered before a write, and whose entry is
  stored after the write's invalidation, stays stale for its ttl; a cached read
  of a transaction leaves uncommitted rows in a shared store
  (`packages/orm/src/index.ts` 1216, 753). `FreshUnlessOverlapped` excuses
  these and says that nothing else is stale.
- `#process` returns the promise of `#runHandler` without awaiting it, so its
  `finally` releases the key lock before the handler starts
  (`packages/jobs/src/queues/index.ts` 580): two rows with one key may have their
  handlers run at once by one worker. Only the claim is serialised.
- Without transactional DDL a crash between a body and its row leaves them
  apart; `up` warns of it, `down` does not.

- A second `release()` of one lease session returns at once, so `onShutdown` may
  resolve while the release that `#finishRun` began is in flight (`lease.ts`
  103; `IdleKeepsNoLease` and `LeaseScheduler` include it). And a lease store
  that never answers keeps `onShutdown` pending beyond its grace.

## 6. Proofs

All theorems hold for every value of the constants: any number of jobs, workers,
holders, attempts and disturbances, any names and caps; any schedulers, tasks and
instants, zones and calendars; any rows and dispatchers of the outbox; any
processes, migrations and edits; any calls, retries and depth of savepoints; any
clients, queries and stores of any size; any extensions, modules and participants. They
rest on the named assumptions of the modules (`JobsAssumption` to
`AttemptsAssumption` of `JobStore`, `WorkerAssumption`, those of `LeaseStore` and
`LeaseScheduler`, `CalendarAssumption`, `TickAssumption`, `SearchAssumption`,
`OutboxAssumption`, `MigrationAssumption`, `TransactionsAssumption`,
`CacheAssumption`, `ApplicationAssumption`, `JobsAssumption` of `JobsExtension`).
Where a theorem needs more, its statement has it as a hypothesis: `Exclusive`,
transactional DDL, `SearchIsExact`, `Careful`, no failed store call, a finite set
of jobs, or no early expiry. TLC evaluates the
assumptions on each instance.

Each proof goes by an invariant that the steps preserve, one step of the proof
per action. The property alone is hardly ever inductive; what follows says what
has to be added to it.

**Job queue.** `JobWorkerProofs` proves `TypeInv`: the type invariant with what
it needs to be inductive. Pending rows have attempts left, so does every run,
a run has a holder, and the rows of an answered claim are runs that wait for it.
`AfterFailure` adds one to a count, so typing itself depends on the last
failure going dead. `TypeCorrect` and `AttemptsLeft` follow.

Its second part first classifies every step by what it does to the store
(`StoreSteps`): it keeps the rows, claims some for a fresh holder, settles or
releases one behind the fence, or enqueues, replays or unhides one. The other
proofs then go by kind of step and not by action.
- `SnapshotCurrent`: while a run's holder is the row's owner, its attempt count
  is the row's. A row with an owner keeps its count as long as it keeps its
  owner (`OwnedRowKept`), and a claim's holder is fresh, so that no other run
  has it.
- `OneSettlerAtATime`, from `HoldersApart`: no two workers know the same
  holder, be it in a run or in a release in flight. The property alone is not
  inductive, because a holder may outlive its ownership of the row.
- `OwnerLosesRow`: a lease that lies ahead is taken away by nobody but its
  holder. Needs that a row with an owner is pending, or a replay could take it.
- `DoneMarked`, `DoneFinal`: the fence asks for status pending.
- `Implements`: every step maps to a step of `JobLifecycle` or a stutter. The
  settlement case needs `SnapshotIsCurrent`: `snapshot + 1` is an increment
  only because the snapshot is current. And it needs `RunsAreEarned`: a run goes
  to a dead settlement only with the last attempt used up or a refused payload, so
  that no job is buried early. The proof comes after the third part, whose
  classification of moves `RunsAreEarned` uses.

The third part classifies steps once more, by how they move one run through its
phases (`RunsMove`).
- `MarkedNotRepeated`: a marker is never removed, and a run gets ready only by a
  look at the marker after its claim.
- `NoStartAfter` from `LeftIsAbandoned`: every active run of a resolved worker
  is abandoned, and a worker that is not open makes no claimed row active.
- `RowsGivenBack`: a row keeps its owner until the release takes it away.
- `SlotsBound`, `CapsBound` from two invariants. `BusyFits`: active runs and the
  rows a pass is about to start fit into the slots and the caps together. Here
  `Ranked` counts what a scan selects: a set whose members each have fewer than
  c smaller ones has at most c members. `CallsAreRuns`: each handler call in
  progress is that of one active run. A rejected settlement breaks it, which is
  why the theorems exclude failed store calls (section 5).

**Leases.** `LeaseProofs` proves `TypeCorrect`, then:
- `LoserRenews` from `SoundRuns`: the phase of a run, `held`, `renewal`,
  `giving` and `by` agree with each other. A method that runs untold has a
  session that is held and renews.
- `OneRunnerHolds` and `StartsHoldingHolds` from `HoldersOwn`: with no early
  expiry and no late request, whoever holds a session, or has been granted one
  whose answer is on its way, owns the live row of the table. One row has one
  owner, so there is one runner.
- `LeaseFreedHolds`: no step but a release request of the holder takes a live
  lease away. Needs no disturbance bounds.
- `NoStartHolds`, with `AcquiringEnabled`: a task that is disabled is not
  acquiring, and a grant that arrives after `#stop` released the session is
  given back.
- `ResolvedUntold` from `StoppedAreTold`: while `#stop` works, each run is still
  in `left` or was told, and once it has resolved all were.
- `IdleKeepsNone` from `ThriftyRuns`, `AwaitedInStop` and `OwnersAccount`: where
  no call failed and no process died, whoever owns a lease has a run that holds
  it, is about to learn of the grant, or has the release on its way. Needs that
  no request is left without its caller (`NoStray`).

**Clockwork.** The invariant of `ScheduleTickProofs` says that a cron task is
always planned, that an interval has no instant at the construction, and that the
last tick is not ahead of the clock. `NeverOversleeps` needs `CallerKeepsDue`:
while the loop has time left to sleep no task is due, so a tick that somebody else
calls plans nothing earlier. `PassedAnswered` and `CronStarts` have the hypothesis
`SearchIsExact`: the search finds the next instant from every phase, which the
instance of the run satisfies, gap and repeated hour included. What remains is
that a plan keeps its instants while the phase wraps, by lemmas on residues.
`PassedAnswered` rests on `PlannedNext`: `nextAt` of a task that has been ticked is
the first instant of its plan after the last tick. So what a late tick reports is
the first instant that passed, and what `nextAtOrAfter` leaves is due now exactly if
the plan fires now (`CaughtUpFires`, `TickAnswers`). It does not say that the
instants between are reported, which is false.
`CronStarts` adds `CronInv`: a task is to fire where the scheduler was constructed
exactly if its plan does, and the first tick is the first of every task.

**Outbox.** `OutboxProofs` has one part for each pass and one for each row: a mark
that is due says what `publish` did, a count read from a row is at most that of
its rejections (`SeenIsSound`), and a row that a pass owns and has not marked is
pending with the count the pass read (`OwnIsPending`). `Implements` maps each step
to one of `OutboxDelivery`; as with the jobs, `seen + 1` is an increment only
while the snapshot is current. `OnDeadEarned` adds `NotEarly`: while no lease has
ended under a pass, a pass holds every row that it has still to mark.

**Migrations.** `OrderHolds`: an `up` works on the least of the versions it found
missing and has not come to, and those it did not find missing are in the ledger
(`UpWork`); a `down` works on the greatest version of the ledger (`DownWork`).
That a finite set has a least and a greatest element is proved from the
strict-subset order being well-founded. `LedgerHolds`: the version of an `up` that
is about to commit has no row yet, and no two transactions are about to commit
the same version. `RevertsFaithfully`: a command that has verified the ledger and
works alone finds in each row the text of its file.

**Transactions.** `Honesty` and `Implements` have the hypothesis `Careful`:
callbacks await what they call and let a rejected statement reject them, as the
documents write them
(`docs-site/content/transactions.md` 11). Without it `AnswerIsHonest` is false, which
section 5 shows. `TypeCorrect` does not need it. The invariant is `Honest`, of
three parts.
- `Sane` is the typing, with what makes it inductive: no call begins more rounds
  than its retries, each savepoint on the stack has a number of its own below
  `savepointSeq`, and an open session has its transaction under way.
- `Nested` is the shape that awaiting gives: the scopes under way form a chain,
  each in the body of the one around it with none between, and only the
  innermost moves. This is what makes a stack of savepoints enough.
- `Accounted` relates the connection to the scopes. `Told`: what a scope was
  answered agrees with whether its RELEASE or COMMIT took effect. `Backed`: every
  open scope has its savepoint on the stack. `Weighed`: the uncommitted work of
  the session is what counts towards the open scopes, and below each savepoint
  is what counted towards the scopes outside it. `Durable`: a round has made
  durable what its COMMIT found, and otherwise nothing.

`Weighed` is where the work is: RELEASE hands a scope's work outwards by
forgetting a savepoint, ROLLBACK TO drops exactly what came after it. What
counts towards a set of scopes is what reaches it through scopes that were handed
on (`Reaches`, a closed set instead of a recursion), and a lemma for each
statement says how that set changes. `Implements` then maps each step to one of
`AtomicScopes` or a stutter, by the innermost scope: its gain is the session's
work less the work below its savepoint.

**Result cache.** `TypeCorrect` includes that a store never exceeds `MaxEntries`.
It needs that the order of use is total over the entries (`Ordered`), so that
there is an oldest to evict; this one is found by well-foundedness of finite
subsets. `Freshness` from `Fresh`: a clean load stays quiet and up to date until
it is stored (`LoadsClean`), and a clean entry is what the database holds unless a
write has executed whose invalidation is still to come (`EntriesClean`). The
property alone is not inductive: it says nothing while a write is under way, and
would let an entry outlive the invalidation. It also needs that an entry does not
lag behind what a transaction wrote, after its client has invalidated.

**Application.** `IsAnApplication` shows each step of `JobsExtension` to be one of
`Application` or to leave all its variables alone, so that theorems about the
second hold of the first. `NothingStartsAfterStop` from `LifeInv`: once anything
was stopped the application is over, which means it is shutting down, no load
is in flight, and the main thread is past its starts. An application that is
over stays so, and no step of it counts a start. `UsersFirst` from `StopOrder`, by
place in the stop list: what comes after the place that is being stopped is
untouched, what comes before has settled unless the deadline has passed.

`TornDownReversed` and `CleanedUp` from `Tidy`, which says at each point of the
cleanup what was called how often: before it nothing was stopped (`Untouched`);
while extension k stops, those from k to the last that was entered were stopped
once (`Stopping`); while the hook of `ledger[i]` runs, those of the instances from
i on were called once (`Shutting`); and at the end all. `Modes` ties the phase to
who runs the cleanup, and `Recorded` says that no instance is in the ledger twice,
or a hook would be called twice. For this a load must construct only what was not
constructed before, for each once: `WithoutIs`. `Without` is a recursive function, and
a property of each of its values is an induction over a sequence. The library's
induction theorems cannot be instantiated here, so the lemma excludes a least
length at which it fails (`LeastOf`, from the well-foundedness of < on the
naturals). That `CleanedUp` speaks of the participants too adds `JobsTidy`: the
participants whose turn has come are not up, and the extension's stop is awaited
until all had their turn, or refused the grace before any had (`RefusedStays`,
`EachHadItsTurn`).

## 7. Only model-checked, and not modelled

Every safety invariant and action property of the passing runs is proved, as is
every refinement. Liveness is model-checked only: `EveryJobSettles`, both
`ShutdownResolves`, `LoserIsTold`, `KeepsAnswering`, `PunctualTimersFire`,
`EveryRowSettles` and `CallsSettle`. The prover has no fairness and no ENABLED. That
the search of `CronPlan` finds every instant, which `PassedAnswered` and
`CronStarts` have as a hypothesis, is checked on the plans and zones of
`MCScheduleTick`.

A few properties are proved and in no configuration: the type invariants,
`AttemptsLeftWhilePending`, `DoneIsFinal`, `OwnerLosesRowOnlyByItselfOrExpiry`,
`OutcomeIsEarned`, `IntervalPlannedIffIdle`, `CronStartsAtItsInstants` and
`RevertsWhatWasApplied`.

Not modelled in the modelled components:
- queue and outbox: statement texts and dialects, parsing and validation of
  payloads beyond whether they succeed, back-off lengths, the connection
  reservation of `jobs-postgres`. In the outbox a statement that executes after
  its caller saw it reject, and a fresh reading of the clock for the candidates.
- schedules: the seconds field, the spelling of expressions, `Intl`, the limit of
  eight years after which the search gives up, `tick(now)` with a `now` that is
  not the clock's. An instant that equals the construction time of a scheduler
  started later is dropped without a report; `AnswersForPassedInstants` speaks of the
  instants since the last tick or the construction.
- transactions: isolation levels and what other connections see.
- cache: how keys are built, expiry and loss in a store of another process.
- application: signals, the order in which the streams of requests in flight
  close, the construction of a module's providers.
- migrations: ledger rows without a checksum, versions without a file, files
  without a down section.

Not modelled at all: the components marked `not_modelled` in `PROJECT.json`,
with the reason. They are pure transformations, input and output, the state of
brokers, or planned.

## 8. Plan

1. `PostgresOperations`: the reservation and the deadlines of `Operations.run`,
   shown to give no more than the requests `LeaseScheduler` calls stray.
2. The messaging runtime: acknowledgement, redelivery and drain of a consumer over
   an abstract broker.
3. Loaders and replicas: the batch of one tick, and reads after writes with a
   replica that lags.

Proofs to come: a `SearchIsExact` for all zones whose jumps are an hour on the
hour and a quarter of a day apart, so that `PassedAnswered` and `CronStarts` lose
their hypothesis; by excluding a least date at which the search goes wrong, as
`WithoutIs` does.
