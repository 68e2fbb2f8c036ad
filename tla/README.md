# effectmq in TLA+

Models of effectmq (task queue, event queue and scheduler on Redis), model-checked
with TLC, with theorems about the core checked by TLAPS. Paths below are relative to
the repository; `taskEngine.lua` and `eventEngine.lua` are in `src/lua/`.

## 1. The system

effectmq is a library. Its state is in Redis; each queue has a key prefix. All changes
to the state of a task or an event go through one of two Lua scripts, which Redis runs
atomically. Clients (TypeScript fibers, many processes) call the scripts, hold what they
returned for as long as they like, and may crash, be late or repeat themselves.

| component | state | operations | what is hard |
|---|---|---|---|
| **Task engine** `taskEngine.lua`, `TaskEngine.ts` | per queue: task records, six lists, lock keys with an expiry, results, retention relationships, seven expiry indices, a rotating maintenance cursor | create (three duplicate policies, with or without a retention hold), take, succeed, fail with or without retry, extend or release a lock, remove, force-remove, maintain | every operation begins with a *bounded* sweep that may be cut off anywhere; stale lease tokens; holds that outlive records; offers refused half way |
| **Task history** `taskEngine.lua:68-134,1148-1203`, `TaskHistory.ts` | per generation: a stream, its sequence counter, the boundary of what was trimmed | append (by lifecycle steps and by running handlers), read a page from a cursor | cursors that outlive crashes, trimming between pages, handlers whose lease is lost |
| **Event stream and wait** `taskEngine.lua:149-192`, `TaskEngine.ts:1327-1517`, `TaskQueue.ts:1289-1496` | one stream per queue, trimmed approximately | publish, read from a cursor, wait for a task's outcome | `wait` is many calls: durable read, subscription, durable read; the stream is trimmed under its readers |
| **Scheduler** `Scheduler.ts`, `taskEngine.lua:1239-1283` | one durable cursor per schedule | materialize due ticks: observe the clock, read the cursor, offer the ticks one by one, advance the cursor | competing processes with different clocks, crashes between the steps, offers repeated after the task is gone |
| **Event engine** `eventEngine.lua`, `EventEngine.ts` | per queue: subscriptions, removed ones, event records with an obligation per recipient, a backlog per subscription, deadline and archive indices | subscribe, unsubscribe, emit, get, take, acknowledge, renew, release, maintain | deadlines, removals and retention take effect lazily, by whoever comes first |
| **Event queue client** `EventQueue.ts` | none | `processOne` (take, renew in the background, acknowledge or release), `runMaintenance` | heartbeat against handler; every call may be lost before or after its script ran |
| **Task processing** `TaskQueue.ts:640-1141`, **Worker** `Worker.ts` | slots of one process | take, heartbeat, report, retry decision; drain on shutdown | heartbeat against handler, drain timeout |
| **Connections** `RedisPool.ts`, `NodeRedisPool.ts`, `RedisReadiness.ts`, `TaskEngine.ts:237-276,671-790` | one pool per role, listeners, a digest per script, a passive health record | build and close the layer, call by digest, load again on a miss, classify failures, probe readiness, subscribe | restarts and failovers that empty the cache, connections that break after the script ran, a layer closed half built |
| **Codecs and records** `StorageProtocol.ts`, `EngineRecord.ts`, `TaskRecord.ts`, `MessagePack.ts` | none | encode, decode, validate | cyclic and shared objects, numbers that one layer accepts and the next refuses |
| **Task definitions, retry schedules** `Task.ts`, `TaskInvariant.ts`, `RetrySchedule.ts` | none | make, validate, replay a schedule over the stored errors | the errors are capped, stalls count among them, deployments differ |
| **Reference model** `testing/TaskStateModel.ts` | one task | the operations of the property tests | what it leaves out: sweeps, delays, retention |
| observability, CLI | - | metrics; a read-only report | - |

Components meet in Redis only. A worker's slots and its maintenance fiber, producers, waits,
history readers and schedulers all call the task engine; each call is one atomic run of the
script. The scheduler is a producer whose offers use deterministic ids. `wait` combines three
read operations with the stream that the script publishes to. Everything a client stores or reads
passes the codecs, and every call passes a connection.

What makes each part correct, in short: a task is in exactly one place and is never lost; one
attempt at a time owns it, and only that one can settle it; it is charged and settled once;
what is held stays, what is not held goes; an event's verdict depends on what happened by its
deadline and not on when somebody looked; a cron tick is never lost; a reader is given
everything or told what is missing; a wait gets its own generation's outcome; a caller is told the
truth about a call that went wrong; what was stored is read back, by those who may read it.

## 2. Modules

| module | what it is |
|---|---|
| `TaskEngine` | the whole task engine, sweep included |
| `TaskEngineProofs` | its two inductive invariants, ten theorems about indexes, leases and books, and the refinement of `TaskStateModel` |
| `TaskStateModel` | the reference model of the repository's property tests, as an abstract specification |
| `TaskLifecycle` | the mapping that shows `TaskEngine` implements it |
| `TaskStateModelProofs` | the reference model's invariants, proved |
| `EventBroadcast` | what an event queue promises, without any storage: everything happens on time |
| `EventEngine` | the event engine, and the mapping that shows it implements `EventBroadcast` |
| `EventConsumer` | `processOne` and `runMaintenance` on top of `EventEngine` |
| `EventQueueProofs` | the event engine, its refinement of `EventBroadcast`, and its consumers: nine theorems |
| `Scheduler` | `materializeDue` in several processes |
| `SchedulerProofs` | its inductive invariant and the accounting of ticks |
| `TaskHistory` | a task's history, its trimming and its readers |
| `TaskHistoryProofs` | its inductive invariant and three theorems |
| `TaskWait` | the event stream, its readers and `wait` |
| `TaskWaitProofs` | its inductive invariant and the truth of answers |
| `Worker` | one worker process: slots, heartbeats, reports, retry decisions, drain |
| `WorkerProofs` | its two inductive invariants and six theorems |
| `Connections` | pools, script loading, failure classification, health |
| `ConnectionsProofs` | its inductive invariant and five theorems |
| `StorageProtocol` | storage envelopes of object graphs (operators only) |
| `TaskRecords` | what an offer writes into a record and what workers and readers make of it, retry decisions included |
| `MC*` | the same modules with the sets that small instances need |

A definition `X_Something` in front of `X` is `X` with a slip that its code could contain.
Nothing uses it; replacing `X` by it must break the property that `PROJECT.json` names,
which is how each property was seen to be able to fail.

### TaskEngine

`db` is the keyspace of one queue and Redis' clock: the hash of each task (`task`), the lists
(`wait` is a sequence, the others sorted sets as functions from members to scores or sets), the
lock keys (a token and a deadline; the key goes once the clock has passed its deadline), the
results, relationships and expiries under `id#generation` members, and the maintenance cursor.
`leases` is what clients hold: every token ever handed out. Any token may be presented at any
time, which covers late, repeated and lost calls and crashed workers.

Lua helpers are operators from a keyspace to a keyspace (`MoveToList`, `DeleteTask`,
`ReleaseOwnedHolds`, ...) or, where Redis chooses, to a set of keyspaces (`SPOP`, ties in sorted
sets). An operation is an action: `SyncAll` (all seven syncers, in the rotation the cursor
gives, sharing one budget of `Batch`), then its own body, in one step, as the script runs it.
An operation that is refused after its sweep has the effect of `Maintain`.

Left out: payloads, errors and progress (opaque), the `created` index, `listTasks`, metrics, the
mock clock, holds between queues. Of the event stream only terminal events are kept, as
`published`, to state that they are published once. Several attempts stalled by one batch are
settled in one update; they touch disjoint keys.

### EventEngine and EventBroadcast

`db` holds the records and every index; `handles`, `leases` and `emitted` are what clients were
given (a removed subscription's generation and a stale token can come back at any time).
`normalize` is `Normal`/`Normalize`, `settle` is `Settle`, the three bounded passes of
`maintain` are `Drained`, `Retire`, `Expire` and their composition `Swept`. The client library
adds nothing to the engine's operations (`Client`, `Consumer`) except `processOne` (see `EventConsumer`).

`EventBroadcast` has no leases, indices or sweeps: obligations are waived when a subscription
leaves, events expire at their deadline and archives end at the end of their retention, at
once. The mapping shows each event as `get` would answer at this moment (`View`), so
`KeepsPromise` says that laziness cannot be observed.

`EventsSound` joins what the records of a queue must be: the indices agree with them, a removal is
remembered until its last obligation is waived, and a verdict depends on the deadline only.

### EventConsumer

Extends `EventEngine`: a consumer's `call` goes through `processOne` (`taking`, `handling`,
`releasing`, `acknowledging`), and each of its engine calls is answered, lost before the script ran,
or lost after it (`NotSent` and `IndeterminateWrite`). A renewal is two steps, its request being on
the `wire`, because the end of the handler may overtake it. Handlers die and hang, processes pause
(`Late`). The maintenance loop ends on its first error, as in `EventQueue.ts:243-246`, and is started
again by its program. `outcome` is a ghost: how the call that got a lease ended. `work`, chosen at the
beginning from `Workloads`, says which consumers run and which events are published, so that one run has
both kinds of instance: consumers that share an event, and a backlog that nobody consumes. `BacklogClears`
speaks of records and never of the indices that the sweeps go by, so that a sweep which forgets an
index entry, or spends its budget on work it does not retire, is seen as an event that never gets its turn.

### Connections

One layer (`scope`), a node-redis pool per role, the listeners on it, the passive `health` record,
the digest each pool has cached, callers inside `evalScript`, one readiness probe and one
subscriber. The server crashes, restarts without its scripts, or is flushed between any two
commands; a connection breaks before or after its command ran; roles fail to connect; the scope is
closed at any moment. One script stands for all of them.

### StorageProtocol and TaskRecords

`StorageProtocol` has values as object graphs of two cells, each of which may refer to itself or to the other:
enough for cycles, for sharing, and for what lies below the root. `validate`, the packer and
`normalizeDecoded` are recursive operators, and `Storable` and `Meaning` say the same without the
code's walk. `TaskRecords` is one task from `Task.make` and the options of its offer, through the
four layers that check its numbers, to the record, its attempts under three deployments, its errors
(appended, capped, decoded), the events a stream reader decodes (`DecodedEvent`), and the retry
decision that replays the schedule. Numbers are known by what the checks tell apart (whole, fraction,
unsafe, NaN, infinite, unset). `Usable`, `AllFailures` and `history` are the reference: they are not
computed from what the record kept.

### TaskStateModel and TaskLifecycle

The operations of `testing/TaskStateModel.ts` map a task to the tasks it may become. They are put
together as the engine performs them: a bounded sweep of all tasks, one operation on one task, and
what follows. Three operations have no counterpart in the test model and are marked: a delayed or
retrying task becomes due, an attempt is given back (`removeLock`), a task is removed unsettled or
by force.

`TaskLifecycle` maps the engine's tasks to the model's (`TaskOf`). The state of a settled task is its outcome: its
list does not tell, since a failure that is kept with "mark-as-success" is on the success list and
`executionState` then calls it succeeded. The state of any other task is `executionState`. An id without a record is `Absent`.
The lock key of a lease that has lapsed is gone while the task is still "leased": until a sweep ends the attempt, its
token is the newest one that was handed out for the generation. A task brings its own stall budget
(`maxStalledCount`), so that each stall is measured against what that task was offered with.

### Scheduler

A process is at `idle`, `observed` or `offering`; `Observe`, `ReadCursor`, each `Offer` and
`Consume` are separate steps because each is a separate call. `Skew` gives each process a clock
of its own. Cron ticks are the multiples of `Period`; `Next_` and `Prev_` stand for effect's
`Cron.next` and `Cron.prev`. The queue is reduced to which ticks have a stored task, and `Finish`
(a worker completes a task, and the default policy deletes its record).

### TaskHistory

One task id, reduced to what its history depends on: its list, attempt, token, whether the lease
is live, due (deadline reached, key still there) or gone, and the counters in its hash. The
sweep may or may not have got round to it. `log` is the stream of the stored generation. A
reader follows a generation, reads pages of `Limit`, saves its cursor, and may crash and start
again from the saved one. `seen` and `lost` record what it was given and what it was told is gone. Entries carry the generation they belong to, which
`DecodeRecord` checks for the client, and `HistoryReply` is the script's status as the client's answer.

### TaskWait

`execute` is an offer followed by `wait` (`Begin`). The durable state of one id as a waiting client can observe it, the stream (`events` up to
`trimmed` are gone; a trim may drop anything but the newest `Kept` entries, because `MAXLEN ~`
and `MINID ~` are approximate), and waits that go through `readDurable`'s calls one by one, start
a reader with the handle's cursor, read again, and join it. `ReadGeneration` also stands for the
direct `ResultExpired` when the record is of another generation. `maxErrorEntries` is taken to be
at least 1: with 0 a stored failure has no entry, and a wait that comes after its result has
expired is told `CorruptStorageValue`.

### Worker

A slot goes from `idle` (the top of the loop, where `accepting` is looked at) through `take`,
`handle` and `report`, or to `sleep`. In `handle` the handler and the heartbeat race. `asks` is
the request a slot has on its way to Redis, `reply` the answer it has not looked at yet: sending,
running in Redis, losing and receiving are steps of their own, so that a lease may run out between
any two of them, and a request outlives the slot that was interrupted. Durations count down, so
that no clock has to be bounded. `prompt` is chosen at the beginning: in a prompt run time stands
still while a request is unanswered or a fiber has something to do (requests may still be lost). `mishap` is a ghost that
records that a request was lost or a result could not be reported.

The engine is reduced to a task's list, owner, lock, and counters; `Stall` and `Promote` are the
sweeps of any client. A failure that may be retried may also find its retry schedule over. A
reply that cannot be decoded counts as lost. A renewal that its client interrupts may still run, but at once.

## 3. Runs

| run | question | instance |
|---|---|---|
| `task_leases` | Is a task ever lost, listed twice, charged twice, or owned by a stale lease? Does the engine implement the tests' reference model? | 2 ids, 2 kinds of task (deleted or kept, failures listed as failures or as successes, a stall budget of 1 or 0), 2 generations, 2 attempts, batch 2, clock 0..2 |
| `task_holds` | Are held records and results kept, and everything else let go? Are generations, relationship caps and outcomes right when offers replace, or are refused half way? | 2 ids that retain each other, 2 generations, room for one relationship, batch 1, clock 0..1 |
| `task_sweeps` | Does the rotation starve anything? (liveness) | batch 1, one lease |
| `event_queue` | Do records and indices agree, are leases exclusive, does the lazy engine keep the punctual promise? | 2 events, 2 subscriptions, 2 deliveries, batch 1 |
| `event_consumers` | Is what `processOne` answers so, does a heartbeat keep its lease, is a handler that lost it stopped, does maintenance clear every backlog? (with liveness) | 2 consumers of 1 event, or 3 events (two that expire together, one that does not) without consumers; 2 generations of a subscription, 2 deliveries, batch 1, clock 0..3, 1 fault |
| `schedule_ticks` | Is a tick ever lost, does the cursor ever move back or stop? (with liveness) | 2 processes, one ahead by half a period, one crash, 3 policies |
| `history_pages` | Does a reader ever miss an entry without being told; is progress fenced? | 2 generations, 2 attempts, cap 3, pages of 2, 9 entries |
| `task_wait` | Is a wait's answer right, and does it come? (with liveness) | 2 generations, 5 events, newest 1 kept |
| `event_gap` | Finding: a reader passes over a trimmed interval silently | the same |
| `connections` | Is a script run once and its caller told the truth, is a cache miss healed, is anything left behind, does a probe repair the health record? | 1 caller, 3 calls of a leased write, an offer or a read, 2 faults, 3 topologies, valid and invalid pool sizes |
| `records` | Does any layer refuse what another let through, is everything read back by those who may, is a retry decision what the whole history says? | every value of 2 cells, 6 kinds of number in every field, 3 deployments, 5 attempts, 2 errors kept |
| `worker_slots` | Does a heartbeat keep its lease, does a worker stop processing what it lost, are attempts bounded, does shutdown end and leave nothing behind? (with liveness) | 2 slots, 1 task, leases of 3, renewals every 1, 2 of 3 configured retries, 1 retry, 1 stall |

### Bounds, and why they are enough

`MaxGen`, `MaxLeases`, `MaxTime`, `MaxEntries`, `MaxEvents`, `MaxMade` and `MaxCrashes` cap what
would grow for ever; they are guards of the actions that make things grow. `MaxSkew` bounds how
far a scheduler's clock is ahead of Redis'. Two ids are what
relationships (holder and target), shared budgets and list order need; two generations are what
staleness needs; two leases let an old token meet a new one. A batch of 1 cuts every sweep off after its first item,
a batch of 2 lets two syncers share a run. Durations of 0 and 1
against a clock that reaches 1 to 4 put events before, at and after each deadline. In `history_pages` the
cap (3) is larger than a page (2) and smaller than the entries (9), so that pages are trimmed
half way. In `worker_slots` two slots compete for one task, which is what overlapping attempts
need, and the lease has room for fewer retries than are configured; in `task_wait` one kept event allows every interleaving of trimming and reading.
In `records` two
errors are kept against five attempts, so that truncation, stalls in between and every end of a
schedule occur. In `connections` two faults let a cache be emptied twice within one call, or a
connection break while the layer is closing; what a second caller would add (a cache that somebody
else fills, a health record that somebody else writes) the server, the probe and the events of
node-redis do as well, and the proofs have any number of callers. In `event_consumers` two deliveries of one event let a
stale consumer meet its successor, and one fault is what each of the answers needs. Its backlog takes three events:
`unsubscribe` sweeps a batch of its own, and two obligations of the removed subscription are still left. TLC reaches them beside a
loop that has ended, two events whose
deadline, or whose archive, is over, a removed subscription with an obligation beside a
second removed subscription, and an obligation to waive beside an event to settle. Three events with consumers at work on all
of them would be many more states, and all a consumer does to a backlog is to shorten it.
Symmetry is used for ids, events and names only, and in no run with a leads-to property.
`CHECK_DEADLOCK FALSE` appears where the bounds themselves stop the system.

### Fairness

- `TaskEngine.FairSpec`: a sweep always comes again; a sweep, and nothing else, moves the
  maintenance cursor. `Worker.run` repeats one at an interval for as long as the worker lives
  (`Worker.ts:373-381`) and survives its failures. No operation is assumed of clients.
- `EventConsumer.EFairSpec`, which adds to `ESpec`: time passes, consumers and requests on the wire go on when they can (weak
  fairness, written out), and the maintenance loop is started again whenever it has ended. The last is the program's duty:
  `runMaintenance` has no retry of its own.
- `Scheduler.FairSpec`: weak fairness of each process' next step, for the loop that
  `Effect.repeat` keeps going. Crashes are bounded, as if somebody restarted the last one.
- `TaskWait.FairSpec`: both fibers of a wait go on. Nobody has to settle a task, and nothing
  slows down trimming: `WaitEnds` excepts a reader that the stream has outrun.

- `Worker.FairSpec`: fibers go on, requests are answered or lost, time passes, somebody sweeps,
  and of the requests for a task one arrives, if it is sent again and again. No handler has to
  end: `ZombieStops` and `DrainEnds` hold with handlers that hang, and `TasksSettle` has the
  assumption in its statement.

## 4. Findings

**`event_gap`** - `TaskQueue.ts:1154` says that a cursor into a trimmed interval fails with
`CursorExpired`. That is checked once, before the first `XREAD`; later pages skip what was
trimmed meanwhile. A `wait` whose terminal event is skipped is left to its timeout.

Seen while modelling, without a run of their own:

- `reference/task.mdx:77` says each resource expires independently. Releasing the last hold of a
  task re-applies its completion policy (`taskEngine.lua:585`), which puts it back into a terminal
  index that it had already left by expiry, without a new expiry; it stays until its record goes.
- `Scheduler.ts:128` says re-offers create no duplicate generations. With the default policy the
  record is deleted on success, and a second process that still holds the tick creates it again.
- A wait without a timeout whose pending task is *removed* never ends: removal publishes no terminal event.
- A handler's *defect*, which is not a failure, ends its slot for good (`Dies`): the worker goes on
  with one slot less, and without any it only maintains (`Worker.ts:353-371`).
- The test model and the engine differ where the tests do not look, or correct by hand: the model
  has no promotion of delayed tasks, its retry that is due at once is "retry-scheduled" where the
  engine says "waiting", and giving an attempt back or removing an unsettled task is no operation of it.
- `executionState` (`taskEngine.lua:257`) asks the list before the outcome, so that the `task.moved` event of
  a task that failed under "mark-as-success" says "succeeded", and the reverse; its outcome and its terminal event are right.
- The passive health of a role stays "connecting" after node-redis has reconnected until the
  next command succeeds; a script's own error (a lost lease, say) makes it "degraded". A probe repairs both (`ProbeHeals`).
- Whether a failed write is `IndeterminateCommit` depends on the wording that `transportPattern`
  knows; an unknown wording is called `ScriptFailure` although the write may be there
  (`CallsTruthful` excepts it by name).
- The error listeners of a pool are removed before its graceful close has ended
  (`NodeRedisPool.ts:348`): an error event in between has no listener (`ScopeSound` excepts it by name).
- `runMaintenance` ends on its first failed call (`EventQueue.ts:244`), and a failed `release` replaces
  the handler's error (`EventQueue.ts:310`).
- During a rolling deployment a worker with another schema takes tasks it cannot decode
  (`TaskQueue.ts:163`): no handler runs, the lease is left to run out and the stall budget pays for
  it. The same mismatch ends a reader of the queue's event stream at the first event with a value in it.

## 5. Proofs

`TaskEngineProofs` proves for all constants that satisfy the `ASSUME`s of `TaskEngine` (any set of
ids, configurations, durations, batch size and bounds):

- `TypeCorrect`: `Spec => []TypeOK`;
- `OneIndex`: `Spec => []ExactlyOneIndex`;
- `LeasesFenced`: `Spec => []LeaseBacked`;
- `Invariance`: `Spec => []Inv`, from which the others follow.

`Inv` is `Sound(db)`, a typed `leases`, and `Fenced(db, leases)`. The properties are not inductive
by themselves: `LeaseBacked` survives a sweep only because an attempt whose key is gone is the
only one `SyncLocks` may fail, and `ExactlyOneIndex` only because `currentList` decides which
lists `removeFromCurrentLists` looks at; `Sound` says both of a keyspace, without mention of
clients. The argument has two layers. Every helper is shown to be *safe*: it keeps `Sound`
and creates no lock (`Safe(s, u)`, which composes), from the lists and records upwards to
`SyncAll`. Then each operation either hands out no attempt, and keeps `Fenced` because locks
only disappear or are prolonged, or is `TakeTask`, which appends the newest token.

The second half of the module is about the books: what is stored under `id#generation` members.

- `LedgerKept`: `Spec => []Ledger`;
- `AttemptsChargedOnce`, `HoldsPin`, `HoldsCanBeReleased`, `RetentionIsScheduled`, `OutcomesAreUnique`:
  the invariants of `task_leases` and `task_holds` that are not about indexes;
- `HeldResultsAreKept`: `Spec => HeldResultKept`, an action property.

`Ledger` is `Inv`, `Books(db, {})`, and that every lease names a generation that was given out. The
properties are not inductive: a hold pins its target's record only as long as the holder's queued
releases, the caps and the generations agree with it, and all of these are taken apart and put
together again *inside* one call, while a settlement runs. So `Books(s, H)` has a parameter: the
holders whose holds are just being released, which may be in no list for the rest of the call. Most
helpers only take entries out (`Fades`, and `FadesBooks` says that what is left is right); sweeps keep
the books `InOrder` and lose nothing that is held (`Tidy`), and an operation is `Accounted` for, which
composes with the sweep before it.

The last part is the refinement:

- `EngineImplementsTaskModel`: `Spec => RefinesTaskModel`.

A step of the engine sweeps all tasks, however far the batch reaches, operates on one, and may release the
holds of what it settled; the model allows a sweep of any tasks, one operation, and a sweep again. What a sweep may do to a task of the
model composes with itself (`SweptTransitive`), although a sweep both promotes and frees, because a task that a sweep
moved is waiting or settled, and neither can be swept into anything but being freed or removed. So `Sweeps`, which says that every task moved in this way, can be
shown syncer by syncer, up to `SyncAllSweeps`; most of what they do is `Finishes` (only settled tasks
and holds go). What the model calls the token of a lease does not depend on whether the lock key has expired
(`TokenKept`): this is where the fencing of the first part is needed. Each operation then moves its own task as the model's operation
of the same meaning (`Operates`), a call does the one after the other (`Serves`), and `extendLock` and the clock are
stutters (`ExtendLockView`, `TickView`). The mapping was checked on `task_leases` before it was proved.

`WorkerProofs` proves for all slots, tasks, budgets and durations that satisfy
`OptionsAssumption` (what `resolveWorkerOptions` accepts):

- `TypeCorrect`: `Spec => []TypeOK`;
- `HeartbeatKeepsLease`: `Spec => []BeatingMeansOwned`;
- `AttemptsWithinBudgets`: `Spec => []AttemptsBounded`;
- `Invariance`: `Spec => []Inv`;
- `LeasesAreAttended` and `DrainIsClean`: `Spec => []Attended` and `Spec => []CleanDrain`.

`BeatingMeansOwned` says nothing about time and so is not inductive. `Leased` is: what is left
of the lease is at least what is left on the heartbeat's timer plus one delay for each retry it
still has (`Room`). A failed renewal moves one delay from the room to the timer, a tick takes one
from both sides, and a renewal that arrives starts again with a whole lease, which is enough because
`resolveProcessingOptions` caps the retries by `(lockTimeout - lockRefresh) / retryDelay`
(`RetriesFit`). `AttemptsBounded` needs `Charged` (a waiting task has been charged for each of
its attempts, a running one for all but one) and `Snapshot`: a slot decides on a retry with the
failure count that came with its lease, and that count is still the task's as long as the slot
owns it, also while its report is on the way. `Coherent` says which requests and replies a place in the loop allows.
`Inv` was checked with TLC on the instance of `worker_slots` before it was proved. Most steps touch
one slot, or one slot and one task that no other slot owns; `LocalStep`, `TaskStep` and
`SweepStep` say once what such a step has to show. `CleanDrain` needs a second invariant, `Attended`: unless
something was lost or the drain was forced, a live lease has a slot that was just given the task, handles it, or has
its report on the way, so that no slot can be idle while its task is not.

`TaskStateModelProofs` proves `ModelInvariant`: under `Parameters`, `Spec => []Invariants` for any ids, generations, holders, tokens and stall
budgets. One lemma per operation says that it keeps `Invariant`; the compositions (`Swept`,
`Called`) follow. `ModelParameters` (in `TaskEngineProofs`) shows `Parameters` of the constants that
`TaskLifecycle` chooses, so that with `EngineImplementsTaskModel` the reference model's assertions hold of the engine for
all constants.

`ConnectionsProofs` proves for any number of callers, any operations, topologies and pool sizes that
satisfy `OpsAssumption` and `ConfigAssumption`:

- `CallersTold`: `Spec => []CallsTruthful`;
- `StaleDigestsHealed`: `Spec => []MissesHealed`;
- `LayerAllOrNothing`: `Spec => []ScopeSound`, type correctness included;
- `RecordHealed`: `Spec => []ProbeHeals`;
- `InvHolds`: `Spec => []Inv`, from which the others follow.

`CallsTruthful` speaks of calls that have ended; `Truthful` says of a call under way that its script
ran exactly if the reply on the wire says so, whichever attempt this is, since nothing but a digest
that the server does not know makes `evalScript` send it again. `MissesHealed` needs `Cached`: a call that
loaded the script, and was not told otherwise since, finds it there. `ScopeSound` needs `Layered`: roles
are opened in order, listened to exactly while they are connecting or ready, and a layer that is open or being built has never
met a cluster. `Probed` says which roles a probe has healed so far. `Inv` was checked with TLC on the instance of `connections` first.

`TaskHistoryProofs` proves for any number of readers, any cap, page size and bounds:

- `CursorsAreHonoured`, `PagesAreComplete`, `ProgressIsFenced`: the three invariants of `history_pages`;
- `HistoryInvariant`: `Spec => []Inv`, from which they follow.

`Inv` speaks of a store (task, stream, newest id): `Sound` says that the counters in the task's hash
agree with the stream in the order of its ids (`Intact`) and that progress is fenced (`Fenced`), and
`Good` what a cursor must be for the page after it to be the right one. Every helper of the script is
`Safe`: it keeps a store sound and every good cursor good, also when it trims what the cursor stands for.
`Honest` then says that a reader was given, or was told it had lost, everything up to its cursor.

`EventQueueProofs` proves for any events, names, lifetimes, policies, batch sizes and bounds:

- `EventsAreSound`, `LeasesAreFenced`: the two invariants of `event_queue`;
- `LiveLeasesAreKept`: `Spec => LiveLeaseKept`, an action property;
- `PromiseIsKept`: `Spec => KeepsPromise`, the refinement of `EventBroadcast`;
- `EventInvariant`: `Spec => []EventInv`, on which these rest;
- `OutcomesAreTruthful`, `HeartbeatsHold`: the two invariants of `event_consumers`, for any number of
  consumers and faults; `ConsumerInvariant` is what they follow from;
- `ConsumersUseTheEngine`: `ESpec => Spec`, so that all of the above holds with consumers on top.

`EventInv` says of each record what its readers will conclude from it (`Judged`), also when
`normalize` has not been there yet; `Turned` relates the keyspaces before and after the lazy part of
an operation, and that `Waive` records the latest removal is the one place that needs well-founded induction
(`LatestTime`). For the refinement, `Sight` is what is left of a record when everything overdue has happened to it:
maintenance and normalization do not change the sight of any event (`Unnoticed`), so that they are stutters, and each
operation does to the sight what `EventBroadcast` does at once.
Of the consumers, `ConsumersOk` says that what was said of every delivery is so (`History`), that calls keep
apart (`Calls`), and, while nothing has failed, that the heartbeat of a handler is due before its lease ends or the lease ends
with the event (`BeatOk`). To a consumer every step of the engine is `Calm`, or it addresses a delivery whose lease
runs (`Hits`), or it gives out the next one (`Delivers`); that nobody else can hit a delivery whose handler is on time
(`OneLease`) is what makes the heartbeat argument local.

`TaskWaitProofs` proves `AnswersAreTruthful` (`Spec => []AnswersTruthful`) for any number of waits and generations and
any `Kept`. A wait learns what it answers in one call and answers in another, or looks in
three places one after the other. Its invariant (`WaitInvariant`) says what is known at each place in between
(`Honest`), and that it stays so: a terminal event that was published stays `Announced`, and what is `Over` for a generation stays over.

`SchedulerProofs` proves `TicksAreAccounted` (`Spec => []TicksAccounted`) for any number of processes, any clock
skews, periods and policies. A process may pass over a tick only if the cursor is still where it read it; `SchedulerInvariant`
says what it relies on then: its cursor is not later than the stored one (`Current`), the ticks it selected stand for
all that are due (`Filled`), and a coalesced task covers every tick from the cursor on (`Joined`). That the newest `MaxBackfill` ticks are
what a tick has to be older than is a lemma about cardinalities (`RecentTicks`).

Only model-checked:

- liveness (`SweepsReachEverything`, `ZombieStops`, `BacklogClears`, `CursorCatchesUp`, `WaitEnds`, `DrainEnds`, `TasksSettle`): TLAPS has no
  support for it;
- `TaskRecords` and `StorageProtocol` (`OffersRoundTrip`, `HandlerSeesHistory`, `RetryAsIfComplete`): their
  operators are recursive over values, which is out of the prover's reach.

## 6. Not modelled

- *Observability* (metrics, spans, logs): nothing acts upon them. *Command line inspector*: a read-only
  report in one pass over data of earlier versions.
- `apps/`, `docs/`, `scripts/`: the documentation site (canvases, pages) and the release scripts.
- Bytes: text, base64, MessagePack, JSON and the parsing of replies. A record that something else than
  effectmq has corrupted.
- `TaskQueue.complete` (`completeOne` with polling, default options), `TaskQueue.listTasks`,
  `EventEngine.listArchived` beyond its sweep, the created index, mock time.
- What a retry schedule of Effect, `Cron`, node-redis and the fiber scheduler do inside; they are the external definitions of the map.
- The checks of names, durations and queue policies at the edge of the event engine, and the refusal
  of a second policy for a queue: they end a call before it changes anything.
- What node-redis repeats by itself: a Sentinel client may send a command again after a failover. In `Connections`
  and `Worker` a command is sent as often as the code of this repository sends it; a write that ran twice is there only as a
  second call.
- Handlers that cannot be interrupted: an uninterruptible region, or code that blocks the process. `DrainEnds` and both
  `ZombieStops` are about handlers that hang, which an interruption ends.
- Holds between queues, and loss of Redis' data other than its script cache.

## 7. Plan

1. A consumer with two events in its subscription.
2. The event engine's queue policies, and queues of one prefix that hold each other's results.
