# FORGEqueue: specification and proofs

FORGEqueue is an at-least-once task queue: Go processes around one Redis, every
state change of the queue a Lua script, with a Postgres journal beside it and a
web console on top. This directory holds TLA+ models of it, the TLC
configurations that check them on small instances, and theorems about them, for
every size of the system, with proofs checked by TLAPS.

Paths such as `internal/worker/worker.go` are relative to the repository root.

## The system

| Part | Where | What it does | Here |
| --- | --- | --- | --- |
| Queue state and scripts | `internal/worker/worker.go` | claim, heartbeat, ACK, requeue-or-dead, promote; the Redis keys they share | `RedisQueue` |
| Worker pool | `internal/worker/worker.go`, `cmd/worker` | worker goroutines, a heartbeat per claimed task, recovery loop, promotion loop, `Start`, `Stop` with a bounded drain | `WorkerPool` |
| Gateway | `internal/gateway` | `RouteTask`: journal row, body, queue entry, journal mark | `Gateway` |
| The whole queue | all of these | any number of pools around one Redis | `ForgeQueue` |
| What the queue promises | README, "Task Lifecycle" and "Reliability" | life of a task | `TaskLifecycle` (abstract) |
| Pause switch | `internal/httpapi/handlers.go` | `PauseQueue`, `ResumeQueue` | in `RedisQueue` and `ForgeQueue` |
| Control API | `internal/httpapi/handlers.go` | requeue, retry, delete, purge, promote, cancel, several plain Redis commands each | `ControlAPI`, composed in `OperatedQueue` |
| Journal, reconciler | `internal/durable` | Postgres rows beside Redis, a loop that puts back what Redis lost | `Journal`, composed in `JournaledQueue` |
| All of the back end | all of these | queue, journal and operators together | `FullQueue` |
| Backoff | `internal/worker/worker.go` | the delay, once in Lua and once in Go | `Backoff` |
| Console: session, client, cache | `web/src/lib/auth.ts`, `web/src/api`, `web/src/routes/login.tsx`, `__root.tsx` | who is signed in, what is fetched, kept and thrown away | `Console`, `QueryCache` |
| Console: pages | `web/src/routes`, `web/src/components/app-shell.tsx` | which queries a page asks, where its links lead, what its buttons order | `ConsolePages` |
| Console: tables and dialogs | `web/src/components/data-table.tsx`, `confirm-dialog.tsx`, `web/src/routes/dlq.tsx` | sorting, paging, selecting and confirming while rows are refreshed | `Tables` |

What is left out, and why, is under "Not modelled".

A request travels gateway → ready list (or scheduled set) → claim by a worker
→ handler → ACK, which deletes the body. A failed handler releases the lease and
schedules a retry or dead-letters the task. A lease that expires is found by some
pool's recovery loop, which does the same. Due tasks of the scheduled set are
moved to the ready list by some pool's promotion loop.

## The modules

**`RedisQueue`** has the Redis keys as variables and one action per script:

| Variable | Key |
| --- | --- |
| `immediate` | `queue:tasks:immediate`, a sequence; `LPUSH` and `LPOP` work on its head |
| `inflight` | `queue:tasks:inflight`: `"none"`, `"live"` or `"expired"` |
| `leases` | `queue:tasks:leases` |
| `scheduled` | `queue:tasks:scheduled`: `"none"`, `"waiting"` or `"due"` |
| `dead` | `queue:tasks:dead`, a sequence |
| `body` | `task:<id>`, of which the attempts counter is kept, or `NoBody` |
| `paused` | `queue:paused` |
| `issued` | number of lease IDs drawn for a task so far |

Two abstractions carry the model. *Time*: a score matters only by its order with
Redis' clock, so a deadline is live or expired, a delay waiting or due, and
`LeaseExpires` and `ComesDue` are the passing of time. *Leases*: IDs are fresh
UUIDs compared for equality within one task, so they are numbered per task.

**`Gateway`** is `RouteTask`, one action per command. A command has one of three
outcomes: `"ok"`; `"lost"`, it took effect and the caller got an error; `"none"`,
it did not take effect and the caller got an error (or died before sending it).
With `ClientRetries` the client library resends, and an `LPUSH` may be applied
twice; `SET` and `ZADD` are idempotent and the scripts that a resend could repeat
are fenced.

**`WorkerPool`** has the goroutines of every pool: `pc`, `batch` and `acks` are
the program counter and locals of `workerLoop`, `beats` the heartbeat goroutines,
`expired`, `reporting` and `due` the locals of the two loops, `status` the life of
the process. `ClaimTasks`, `SkipClaim`, `StartHandler`, `HandlerSucceeds`,
`HandlerFails`, `WorkerReports`, `AckTasks`, `WorkerRecords` and `FinishBatch`
follow `workerLoop` from top to bottom; `BeatTicks` and `BeatExits` are
`heartbeatLoop`; `FindExpiredTasks`, `RecoverTask`, `RecoveryReports` and
`FindDueTasks`, `PromoteDueTask` the two loops; `StopPool`, `Drained`,
`DrainTimesOut`, `Crash` and `StartPool` the process. Scans run on the pool's own
clock: with `Skewed`, a scan may return any subset of the inflight (scheduled)
tasks and a lease may be expired when it is issued. A stopped heartbeat may still
have one call under way, which is applied later. The journal calls are steps of
their own; `JournaledQueue` gives them their effect. Three things `workerLoop` writes are left out
because no queue code reads them: the `metrics:*` keys, the lease sets of the
worker registry, and the cancellation of a handler's context (a handler may
return nil or an error at any time in any case).

**`ForgeQueue`** composes the three with the pause switch and time, states the
properties and maps the Redis keys to **`TaskLifecycle`**, the abstract life of a
task: absent → delayed or ready → running → done, delayed again (one attempt
counted) or dead; `done` and `dead` are final.

**`ControlAPI`** has the console's requests under way as a set of records
(`requests`): which command, which task, the handler's next Redis command (`at`)
and what the handler read so far. Each plain command or `MULTI` transaction is an
action: `ScanDead` and `TakeEntry` are `takeDead`; `CheckBody`, `RestoreBody`,
`ReadBody`, `ResetAttempts`, `PushBack` are `requeue`; `DeleteTask`,
`CheckDelayed`, `PromoteDelayed`, `ListIDs` and `Purge` the others. The endpoints
for jobs, dead letters and delayed tasks differ in wording only and share an
action. With `CutShort` a request may end between any two commands. Requests name
tasks the console has shown. **`OperatedQueue`** composes it with `ForgeQueue`.

**`Journal`** is the Postgres table: the state of each row, whether it has a
schedule, and the order of creation, which the cursor of `Active` follows.
**`JournaledQueue`** lets the gateway, the workers and the recovery loops write
it at the steps that `ForgeQueue` leaves without effect (with `JournalFails` a
statement may fail), adds each pool's reconciler (`FetchPage`, `FetchFails`,
`Reconcile`) and a Redis that restarts empty (`FlushRedis`). The columns `redis_pending` and
`attempts` are left out: they are written and never read. Journaled instances
have no undecodable bodies.

**`Backoff`** computes the delay of a task's n-th failure twice, as the script
does (doubling without a bound, then the cap) and as `backoffDelay` does (doubling
a signed word of `2 * Half` values, then the cap).

**`FullQueue`** puts the requests of `ControlAPI` beside `JournaledQueue`, which
neither composition has by itself: an order against Redis, and a reconciler that
compares Redis with the journal.

**`ConsolePages`** says of each page, as a record, which queries it watches
(`asks`), where its links lead (`leads`) and what its buttons order (`orders`),
given what the queries have answered (`see`, `failed`) and whether the session
may write (`may`, the component `Can`). `Sidebar` and `CommandPalette` are the
shell's; `PageAt` is the route tree. An order is an operation and the jobs its
requests name; `useBulk` sends one request per job, whence `Bulk`.

**`QueryCache`** is one entry of the query library as `useQ` configures it:
whether it has an answer, the answer, an error, `invalid` (invalidated since),
and the state of its fetch, `"idle"`, `"first"`, `"wait"` (for the retry) or
`"second"` (`retry: 1`). The library is not part of the repository; its
operations are modelled from how `queries.ts` and `app-shell.tsx` use it.

**`Console`** is one browser tab against the API:

| Variable | Code |
| --- | --- |
| `session`, `storage` | `state` of `lib/auth.ts`, and its copy in `localStorage`, which other tabs write too |
| `standing` | what server and clock make of each token: unissued, good, expired, refused |
| `mounted`, `route` | `RootComponent`'s state after hydration, and the router's location |
| `code`, `config` | the one-time code of single sign-on in the URL, and the answer of `authConfig` |
| `auto` | the preference `autoRefresh`, on or off |
| `place`, `paused` | where the server has each job, and the pause switch |
| `cache`, `held` | an entry per followed query; the job that `keepPreviousData` keeps on the page |
| `requests`, `mutations` | requests and orders under way, with the token they were sent with |

A request is three steps: it is sent with the token of that moment, the server
serves it (`ServeQuery`, `ServeSignIn`, `ServeCall`), and the tab handles the
answer (`DeliverQuery`, `DeliverSignIn`, `DeliverCall`), later and in any order;
or it gets none (`Drop`, `DropCall`: no connection, or the ten seconds of
`client.ts`), though the server may still carry it out. A request whose fetch was
cancelled or cleared is not `live`: `request` still runs to its end, 401 rule
included, and only its answer goes nowhere. `Render` is what React does after a
step to observers that appear or go (fetch on mount, `held`). The session's life
is `Mount`, `RedirectToLogin`, `LeaveLogin`, `onSubmit`, `startSSO`, `Exchange`,
`logout`, `Lapse`, `OtherTab`, `Reload`; the user's hands are `Navigate`, `Mutate`,
`RefreshNow`, `TestConnection`, `SetAutoRefresh`; timers are `Refetch`, `Retry`,
`Unwatched`. Data is abstracted to what pages branch on: the status of a job,
the state of the queue, membership in a list. `owed` and `forgotten` are history
for the properties: `owed` marks a query that had an answer and was in view when
the last order succeeded, until an answer the server gave after it has arrived or
the entry is thrown away. A query in its first fetch at that moment is not marked:
`invalidateQueries` does not restart it.

**`Tables`** is the dead-letter page with its `DataTable`: `sorted`, `pages`, `p`
and `view` are the values the component computes on every render, `page`,
`size`, sort and selection its state, and `Refresh` replaces the rows under it at
any time. A dialog lives in its row (`key={id}`): it survives a refresh if the row
does (`Survives`) and is gone with it. `shown` is what a dialog announces: the row
or the selection it was opened on, and for the purge, whose text counts the rows
at every rendering, the last answer (`Rendered`). `Sorted` is the ordering that the comparison
and the stability of `Array.sort` determine, chosen and not computed.

**`Filters`** has two operations on lists that `ControlAPI` and `Tables` share, as
functions a proof can follow: a selection, and Redis' `LREM` with a count of 1.

**`MCForgeQueue`**, **`MCOperatedQueue`**, **`MCJournaledQueue`**,
**`MCFullQueue`**, **`MCConsole`** and **`MCTables`** have the values of the
constants that a `.cfg` cannot express. Operators introduced by "Mutant" are
plausible bugs, each next to the definition it deviates from; nothing uses them
except the experiments that confirm that a property notices the bug.

## What TLC checks

| Run | Instance | Properties |
| --- | --- | --- |
| `OneTaskTwoPools` | 1 task with a budget of 2, 2 pools with skewed clocks, lost answers, a crash or drain; 277 000 states | `TypeOK`, `SingleLocation`, `QueuedHasBody`, `RetryBudget`, `LiveLeaseRespected`, `ImplementsLifecycle` |
| `DuplicatePush` | 2 tasks (budgets 2 and 1, one undecodable) pushed twice, batches of 2, lost answers; 682 000 | `NoTaskLost`, `LeaseTableAgrees`, `DeletedOnlyByOwner` |
| `Settles` | 1 task with a budget of 1, every outcome, a crash or drain, pausing, one request of any kind cut short anywhere, fairness; 74 000 | `OperatedSettles`, `MissingBodyDropped`, `InflightDrains` |
| `Operators` | 1 delayed task, lost answers, two requests of any kind cut short anywhere; 578 000 | `OperatedTypeOK`, `LeaseTableAgrees`, `RequestsKeepTasks`, `DeletedByOwnerOrOrder`, `DeletedForGood` |
| `Journal` | 1 delayed task with a budget of 2, failing statements, one repair; 852 000 | `JournaledTypeOK`, `TerminalRowsAreTrue`, `BudgetPerRebuild` |
| `Heals` | 1 task, two failures out of Redis emptied, a pool that crashes or drains and a gateway that fails on the way, one repair, fairness; 112 000 | `LeaseTableAgrees`, `JournalSettles` |
| `BackoffAgrees` | an 8-bit duration, bases and caps up to 20, 12 attempts | `BackoffTypeOK`, `InSyncUntilOverflow` |
| `Session` | a tab, 2 sessions (an operator's and a viewer's) by password or single sign-on, tokens that lapse, another tab, one order, reload or refresh, fairness; 235 000 | `LogoutForgets`, `StaysSignedIn`, `RejectedSessionEnds`, `ShownCatchesUp` |
| `Orders` | 1 job that moves by itself, every page that orders something about it, any one order, one lost request; 266 000 | `ConsoleTypeOK`, `OrdersShow` |
| `Tables` | 3 dead letters in any subset and order, pages of 1 or 2, two columns (one with ties), a search; 55 000 | `TablesTypeOK`, `NeverEmptyPage`, `PagesCoverRows`, `PagerMoves`, `DeletesAsAnnounced` |
| `DropsOnlyRejected`, `DeletedStays` | violations, see Findings | one each |

`SingleLocation`: a task is in at most one structure, once. `QueuedHasBody`: what
is queued has its body, so "no-body" never happens. `NoTaskLost`: what was queued
and has a body is in some structure. `LeaseTableAgrees`: the inflight set and the
leases hash list the same tasks, under the lease issued last. `RetryBudget`: a
task with `max_retries` n > 0 is started at most n times, and is dead-lettered
only with n attempts counted or an unreadable body. `LiveLeaseRespected`: the step
that takes a live lease away is the ACK, or the report of a failure, of the worker
whose claim is under it (`AcksClaim`, `FailsClaim`); it cannot be a step of
recovery, of another worker or of a heartbeat, even at a moment when the holder
could have taken it. `DeletedOnlyByOwner`: the step that deletes a body is an ACK
by the worker whose handler returned nil and whose lease is the current one. `InflightDrains`: claimed tasks leave the inflight set even while paused.

With operators: `OperatedSettles`, a queued task with a budget is acknowledged,
deleted or dead-lettered in the end if the queue is not left paused, unless a request that was cut short, or a
purge that raced with a push, left it behind; `DeletedByOwnerOrOrder`, the step that deletes a body
is such an ACK, an order to delete that task, or a purge that read the task in its
list; `RequestsKeepTasks`, but for the same two cases requests
lose no task; `DeletedForGood`, a worker or a loop that saw a task before its deletion
does not bring it back; `MissingBodyDropped`, an ID queued without a body does not
circulate for ever. With the journal: `TerminalRowsAreTrue`, a row is succeeded
only if a handler was started and dead only for a dead letter (a late `processing`
over a terminal row is not excluded, see Findings); `BudgetPerRebuild`, a task is
started at most `max_retries` times for its enqueue and as often again for each
rebuild, no matter how the gateway's push, claims, failures and expired leases
interleave with the rebuild, if no push is resent (in `Journal` the bound of 4
starts is reached);
`JournalSettles`, what the journal accepted is settled there, whatever dies. `InSyncUntilOverflow`: the two
backoffs agree as long as the doubled base fits the duration.

In the console: `LogoutForgets`, nothing fetched with a session is in the cache
once the user has signed out of it, not even answers that were under way;
`StaysSignedIn`, the root guard spares a signed-in user, hydration included;
`RejectedSessionEnds`, a session the server no longer accepts does not stay while
auto-refresh is on; `ShownCatchesUp`, what is shown becomes what the server says
once the server stands still; `OrdersShow`, a query that had an answer and was in
view when an order succeeded never settles on an answer from before it: until a
later one has arrived it stays invalid and is being fetched or shows an error. It
says nothing of queries that were in their first fetch, which may keep an answer
from before the order until the next poll. In tables: no page in view is empty
while there are rows, the pages partition the sorted rows, the pager's buttons
always show other rows, and a confirmed dialog deletes exactly the jobs it
announced. A purge names no jobs and the server deletes what it finds; for it,
`DeletesAsAnnounced` says that the dialog counted the last answer at the moment it
was confirmed.

**Bounds.** `MaxLeases` = 3 leases per task is one more than a budget of 2 can
use: a task is claimed, retried, claimed again and then dead, so a third lease is
only issued if something went wrong, and `RetryBudget` would see it. With
`ClientRetries` the bound cuts: duplicates can be claimed more often than that.
`MaxDowntimes` = 1 lets one pool crash or drain, and start again, at any point of
a run. One task is enough for races about one task; two tasks in a batch are the
least that has one waiting behind the other, one acknowledged and one not. The
two pools of `OneTaskTwoPools` are interchangeable, hence the symmetry.
`MaxRequests` = 2 lets two requests of the console race with each other and with
the queue; one task, because every race of a request is about one task.
`MaxLeases` is larger there, and with the journal, because a request or a repair
gives a task a few more claims. `MaxRepairs` bounds how often reconcilers rebuild;
`JournalSettles` says nothing of behaviours in which a reconciler finds one more
task to rebuild, so that 1 is enough to see a repaired task to its end. In
`Journal` a statement that fails stands for a process that dies before it. `BackoffAgrees` ends after `MaxAttempts`, hence
no deadlock check; the narrow word only moves the overflow nearer.

`MaxTokens` = 2 is the least with a session that follows another, which is what
late answers are about. A run follows the cache entries of the queries in `Keys`
and takes the rest of the screen as up to date; `Pages` are the pages the user
visits. `Session` follows one query that several pages share, `Orders` the query
of a job; entries do not influence each other except through requests, so one
at a time is enough. `MaxPresses` bounds what the user asks for, `MaxFaults` the
requests without an answer: one of each at any moment of a run. Three rows on
pages of one are the least with a first, a middle and a last page.

**Fairness** (`OperatedFairness`, `JournaledFairness`, `ConsoleFairness`, each in
the module of that composition). In the first two, weak fairness of every worker
goroutine says that the Go scheduler runs it and that handlers return; of
`ComesDue`, and of `LeaseExpires` for a lease no heartbeat is renewing, that time
passes; of the loops' scans, that tickers tick; of the pool's steps out of
draining and out of being down, that `Stop` is bounded and the scheduler of the
deployment restarts what it stopped. Nothing is assumed of the gateway, of the
outcome of a worker's commands, or of heartbeats being in time. In
`OperatedFairness`, where commands may go without effect, the loops repeat their
scan every second until a command gets through: strong fairness of `RecoverTask`
and `PromoteDueTask` with outcome `"ok"`; and the API server goes on with a
request it has begun. In `JournaledFairness` the loops, whose commands do get
through in `Heals`, are weakly fair, and so is the reconciler, whose ticker
ticks. `ConsoleFairness`: React runs effects (`Mount`, `RedirectToLogin`,
`LeaveLogin`), a query under way is served and its answer handled, and the timers
of polling and retry fire, which supposes that the tab is visible
(`refetchInterval` pauses in the background); the user, the other tabs and orders
owe nothing. In `Session` no request goes without an answer (`MaxFaults` = 0), so
the failures there are the 401s.

## Findings

Two runs end in a counterexample, a behaviour in which the code does not do what
the repository says of it.

- `DropsOnlyRejected`. "A rejected token means the session is no longer valid;
  drop it" (`web/src/api/client.ts:63-64`). `request` drops whatever session is in
  the store when a 401 arrives, not the one the request was sent with: a query is
  under way when its session ends (the run has the user sign out; the 401 to
  another query does as well), the token is no longer accepted, the user signs in
  again, and then the 401 to the old query ends the new session, which was never
  rejected.
- `DeletedStays`. The dialog says that deleting "permanently removes" a job "from
  Redis and PostgreSQL" (`web/src/routes/jobs.$jobId.tsx:187-188`). `deleteTask`
  does not touch the journal: the row stays active, and a reconciler that has read
  it, before the deletion (as in the run) or after, puts the task back in the
  ready list. There the run ends; nothing keeps a worker from claiming the task.

Other disagreements met while modelling, which no run checks; the models have
the code's behaviour:

- `internal/model/task.go:8` says that `attempts` is "how many times this task ran
  and failed". `requeueOrDead` also counts leases that recovery releases although
  no handler was started (the claim's answer was lost, the pool died before the
  task's turn in the batch, no handler is registered): the budget bounds claims,
  and a task can be dead-lettered without having run.
- `deleteTask` "removes a task from every queue structure"
  (`internal/httpapi/handlers.go:387`), but looks through the dead letters before
  its transaction: a task dead-lettered in between stays there.
- "Only a task actually waiting in the scheduled set can be promoted"
  (`handlers.go:684`), but the check and the push are two commands: a task the
  promotion loop moves in between is pushed twice.
- "All state transitions are executed atomically via Lua scripts"
  (`README.md:263`), but `PurgeQueue` lists the ready list and deletes it later: a
  task pushed in between keeps its body and is in no structure.
- `StateSucceeded` and `StateDead` are "Terminal" (`internal/durable/store.go:20-25`),
  but journal writes carry no lease: a worker that lost its lease before its
  handler started writes `processing` over them, and the reconciler rebuilds the
  task.
- The payload of a row is "the exact JSON body Redis stores" (`store.go:28-29`), but
  attempts are counted in Redis only: a rebuilt task starts its budget over.
- `backoffDelay` is to be kept "in sync" with the script
  (`internal/worker/worker.go:857-859`), but doubles an int64 before it caps: after
  some 34 failures of a task retried for ever, with a base of a second, it
  overflows and the journal has a due time Redis did not apply.
- `useAction` "invalidates everything" (`web/src/api/queries.ts:55`), but only if
  every request of a bulk order succeeds; what the others changed is then shown by
  the next poll, or not at all with auto-refresh off.

## What is proved

The constants are arbitrary: any sets of tasks, workers and pools, any batch
size, any replies, clocks skewed or not; any queries, pages, jobs and number of
sessions of the console; any rows, columns and page sizes. The assumptions are the `ASSUME`s of the
modules: the types of constants and, for the console, that the pages visited are
pages of the shell, the queue's among them if a job's is, and that the queries
followed are queries (`ConsoleAssumption`).

| Theorem | Module | Statement |
| --- | --- | --- |
| `TypeCorrect` | `ForgeQueueProofs` | `Spec => []TypeOK` |
| `LeasesAgree` | `ForgeQueueProofs` | `Spec => []LeaseTableAgrees` |
| `NothingLost` | `ForgeQueueProofs` | `Spec => []NoTaskLost` |
| `OnlyOwnerDeletes` | `ForgeQueueProofs` | `Spec => DeletedOnlyByOwner` |
| `OnePlace` | `LifecycleProofs` | `Spec => []SingleLocation`, if `ClientRetries = FALSE` |
| `BodyKept` | `LifecycleProofs` | `Spec => []QueuedHasBody`, if `ClientRetries = FALSE` |
| `LiveLeaseKept` | `LifecycleProofs` | `Spec => LiveLeaseRespected`, if `ClientRetries = FALSE` |
| `RefinesLifecycle` | `LifecycleProofs` | `Spec => ImplementsLifecycle`, if `ClientRetries = FALSE` |
| `StartsHaveLeases` | `RetryProofs` | `Spec => []StartsLeased`: a task is started at most as often as it was leased |
| `BudgetKept` | `RetryProofs` | `Spec => []RetryBudget`, if `ClientRetries = FALSE` |
| `BackoffTypeCorrect` | `RetryProofs` | `BackoffSpec => []BackoffTypeOK` |
| `BackoffsAgree` | `RetryProofs` | `BackoffSpec => []InSyncUntilOverflow`, for any width, base and cap |
| `OperatedTypeCorrect` | `OperatedProofs` | `OperatedSpec => []OperatedTypeOK` |
| `OperatedLeasesAgree` | `OperatedProofs` | `OperatedSpec => []LeaseTableAgrees` |
| `RequestsLoseNothing` | `OperatedProofs` | `OperatedSpec => []RequestsKeepTasks` |
| `OnlyOrdersDelete` | `OperatedProofs` | `OperatedSpec => DeletedByOwnerOrOrder` |
| `DeletesStay` | `OperatedProofs` | `OperatedSpec => DeletedForGood` |
| `JournaledTypeCorrect` | `JournaledProofs` | `JournaledSpec => []JournaledTypeOK` |
| `JournaledLeasesAgree` | `JournaledProofs` | `JournaledSpec => []LeaseTableAgrees` |
| `TerminalRowsTrue` | `JournaledProofs` | `JournaledSpec => []TerminalRowsAreTrue` |
| `SignedOut` | `ConsoleProofs` | `ConsoleSpec => []LogoutForgets` |
| `OrdersAppear` | `ConsoleProofs` | `ConsoleSpec => []OrdersShow` |
| `NotSentToLogin` | `ConsoleProofs` | `ConsoleSpec => StaysSignedIn` |
| `ConsoleTypeCorrect` | `ConsoleProofs` | `ConsoleSpec => []ConsoleTypeOK` |
| `TablesTypeCorrect` | `TablesProofs` | `TablesSpec => []TablesTypeOK` |
| `PageNeverEmpty` | `TablesProofs` | `TablesSpec => []NeverEmptyPage` |
| `EveryRowOnAPage` | `TablesProofs` | `TablesSpec => []PagesCoverRows` |
| `PagerNotInVain` | `TablesProofs` | `TablesSpec => PagerMoves` |
| `AnnouncedDeleted` | `TablesProofs` | `TablesSpec => []DeletesAsAnnounced` |

The four theorems of `LifecycleProofs` and `BudgetKept` need the assumption: a
resent `LPUSH` does put a task in two places, and each of them claims attempts of
its own. The others hold without it. `FilterProofs` has no theorem of its own: it
has the lemmas on lists that the others cite.

The argument:

1. *Types.* `TypeOK` is not inductive: the head of a worker's batch is a claim
   only if there is one. `TypeInv` adds that a worker in a handler, or reporting
   on one, has a runnable claim at the head of its batch (`WorkerControl`).
2. *Commands.* `StepIsCommand` reduces every step of the system to one of the
   few commands on Redis (`Command`), with leases the callers really hold, so that
   each later invariant is checked against commands and not against some thirty
   actions.
3. *Leases.* `LeaseInv` adds to `LeaseTableAgrees` that no claim or heartbeat
   anywhere carries a lease that was not issued yet. Fences follow: a presented
   lease that equals the one on record is the newest one.
4. *Places.* `PlaceInv` says of each task which shape its state has: not queued
   yet, ready, claimed, delayed, dead or done, with what that implies for its
   body (`TaskInv`), that every lease but the current one was paid for with an
   attempt (`Paid`), and that the lists have no duplicates (`ListInv`). Each
   command moves a task along one edge of the life cycle or leaves it (`Same`, and
   one predicate per edge): from that follow both the invariance of `PlaceInv` and
   the refinement.
5. *The budget.* What the code bounds is leases, what `RetryBudget` speaks of is
   handlers started. `StartInv` connects the two: claims in the batches, of all
   workers, are under different leases (`ClaimsApart`), and a task was started at
   most as often as it has leases that no batch still holds unstarted (`Spent`),
   a number that only grows and grows with every start. This needs no assumption on
   resent commands. `BudgetInv` adds that a task that is not dead has an attempt
   left (`Affordable`), by `Paid` also one lease, and that dead letters carry as
   many attempts as the budget.
6. *Backoff.* `BackoffInv` says that before the overflow both computations hold
   the same number; `WrapKeeps` and `WrapInRange` are what it needs of the word.
7. *Operators.* `OperatedInv` adds to `LeaseInv` what a request knows at each of
   its stops (`RequestOK`): a take has an entry left to take, all its entries are
   of its task, a restore has a body to restore. The steps of the queue preserve
   it by `ForgeQueueProofs`; what is new are the commands of `ControlAPI`.
   `RequestsKeepTasks` is then inductive relative to it, and so are the two
   properties of deletes. Because a request drops a lease and never invents
   one, the fence of an overtaken worker stays shut.
8. *The journal.* A report is sent after the script it reports on, so
   `JournaledInv` says what is still true at that time: a worker in or past a
   handler has started its task (`Started`), and whoever has a dead letter to
   record has seen it written (`Burials`), which only a Redis that lost its data
   undoes.
9. *Signing out.* `LogoutForgets` alone is not inductive: an answer under way
   could bring the session back. `SignOutInv` adds that the store and the storage
   hold no token that was signed out of (`StoreInv`), that no query that still
   matters was sent with one (`Sound`), and that the token granted by a sign-in
   under way is in nobody's hands (`Sound`, `Distinct`), so that signing out of one
   session cannot taint another. There is a lemma per action; `SoundImage` carries
   `Sound` through the steps that change all requests at once, and the effects of
   `Render`, which most actions share, are treated once.
10. *Orders.* `OwedInv` says that an owed query has an answer, is invalid, and is
    being fetched or shows an error, in view or not, and that every answer to it that still matters is either yet to
    be given or was given after the order. A successful order outdates
    the answers under way and, in the same step, its invalidation replaces the
    fetches that wait for them.
11. *Where the console goes.* `RouteInv` says that the location is a page of the
    shell or the login page; no link of a page leads to the latter (`PageLeads`),
    so only the guard and signing out do, and the guard asks for the session.
12. *Types of the console.* What a page offers depends on the kind of answer a
    query has, so `ConsoleTypeOK` is not inductive either: `TypedInv` says of each
    entry and each request that its data is of its query's kind (`DataOf`), jobs,
    rows of jobs or the queue's own row, and of an order given on the page of a job
    that there is such a page.
13. *Pages.* `TablesTypeOK /\ DialogInv` is inductive. What the table computes is
    reasoned about by lemmas: filtering keeps order and distinctness, a finite
    list has a stable ordering (`Sortable`), which makes `sorted` a permutation of
    the rows, the number of pages is the least that has room for them
    (`PagesFacts`), and slices one after the other are the whole (`PagesFlatten`).
14. *Dialogs.* `DialogInv` says that an open dialog of a row is about that row, one
    of the selection about the selection, which cannot change under it, and the one
    of the purge about the last answer.

Induction over lists is done in `FilterProofs` by the least counterexample
(`LeastNat`, `InductionUpTo`): a set of numbers in place of a predicate.

Only model-checked: the liveness properties (`OperatedSettles`,
`MissingBodyDropped`, `InflightDrains`, `JournalSettles`, `RejectedSessionEnds`,
`ShownCatchesUp`), which rest on fairness and `ENABLED`, out of the reach of the
prover; and `BudgetPerRebuild`, whose proof would have to count the entries of a
task in the ready list. Every other invariant and every action property of a
passing run is proved.

## Not modelled

- *Console: changing the API's address* (`connection.tsx`). The address is constant;
  a change would double every entry of the cache.
- *Console: what is only drawn*: connection status, toasts, theme, layout, charts,
  JSON viewer, timeline, the formatting in `lib/format.ts`, the vendored components
  in `components/ui`, generated types. None of it has a way back to queries, orders
  or the session.
- *Console: server entry and error capture* (`server.ts`, `start.ts`,
  `lib/error-capture.ts`) and `ErrorComponent`: the last error, kept for the log.
- *Schema migrations* (`internal/durable/postgres.go`): DDL before the system
  starts; `Journal` starts from its result.
- *Worker registry, metrics, throughput* (`internal/worker/registry.go`,
  `internal/metrics`): telemetry that no claim, retry or deletion depends on.
- *Rate limiter* (`internal/httpapi/ratelimit.go`): tokens in floating point on
  wall-clock time; for the console a refusal is one of the failed answers.
- *Authentication* (`internal/auth`, `internal/gateway/auth.go`): cryptography and a
  foreign identity provider. `Console` has the outcome: whether a token is accepted
  and what its role may do.
- *Read endpoints, HTTP server, configuration*: I/O without state of their own.
- *Handlers, demo and load generators, protobuf*: a handler is any code that returns
  nil or an error, which is how `WorkerPool` treats it; generators are clients of
  the gateway; the rest is generated.
