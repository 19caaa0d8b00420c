# A verification project for the CIO Run Auto Orchestrator

The orchestrator accepts tasks over HTTP (`POST /tasks`), queues them in Redis
and has a pool of asyncio workers execute them with the CIO-Agent engine, one
task per project at a time. It is meant to survive crashes: whatever a process
leaves in Redis, the next one picks up. This directory models that machinery in
TLA+, checks it with TLC and proves most of it with TLAPS. Source paths are
relative to the repository root; line numbers refer to this commit.

## 1. Inventory

### Parts, state, operations

| Part | Source | State it keeps | Operations |
|---|---|---|---|
| Task model | `src/models/task.py`, `enums.py` | a task record, copied whole wherever it goes | `transition`, `is_terminal` |
| Task store | `src/task_queue/store.py` | Redis: record per task, id set per project, digest key per project and requirement | `save`, `update`, `async_update`, `get`, `find_incomplete`, `find_by_digest` |
| Task queue | `src/task_queue/queue.py` | Redis list of task snapshots | `enqueue`, `dequeue` |
| Project lock | `src/worker_locks.py` | Redis key per project, token and TTL | `_acquire_lock`, `_refresh_lock`, `_release_lock` |
| HTTP API | `src/api.py`, `models/api_schemas.py` | locals of the handlers in progress | `create_task`, `get_task`, `stream_task`, `health` |
| Worker pool | `src/worker.py` | per worker: the task in hand, where it is suspended; executor threads; heartbeat tasks | `run`, `stop`, `_execute`, `_heartbeat`, `_run_locked`, `_stream`, `_handle_retriable` |
| Recovery | `src/recovery.py` | keys found by SCAN | `recover_stranded_tasks` |
| Process lifecycle | `src/main.py` | running, shutting down, gone | start, signal, cancel after 30 s, end |
| Thread/loop bridge | `store.py` `update`, `worker.py` `_consume_sync` | coroutines submitted to the loop, blocked threads | `run_coroutine_threadsafe(...).result(5)` |
| Engine factory | `src/engine_factory.py` | cache of engines | `get`, `clear_cache` |
| Scheduler | `src/scheduler.py` | none (reads the project's files) | `decide` |
| Event bus, SSE | `src/event_bus.py`, `sse_utils.py`, `api.py` `stream_task` | position of each subscriber (Redis pub/sub keeps nothing) | `publish`, `close`, `subscribe` |
| Validation, settings, Redis client | `models/config_schema.py`, `config.py`, `redis_client.py` | constants, one connection pool | |
| `src/models.py`, `src/task_queue.py` | shadowed by the packages of the same name, never imported | | |

### How they interact

Handlers, workers and the recovery pass are coroutines of one event loop and
share nothing but Redis, which outlives them. Every `await` on a Redis command
is a point where another coroutine may run, where the command may fail, and
where the process may die. A task lives in up to four places at once: its
record, a snapshot in the queue, the object a worker holds, the draft of a
handler. Nothing compares them. The engine runs in an executor thread, which
cannot be cancelled; the worker awaits it and is itself subject to cancellation.
A heartbeat task beside the worker keeps the TTL of its lock; nothing awaits it
until the run is over. What the engine reports is published on a channel that
only those hear who have subscribed already.

### What is hard

* Interleaving: dedup reads before a save; a record and its digest key written
  by separate commands; lock contention that re-queues tasks; a status check
  before a subscription.
* Crashes and restarts between any two commands, and during recovery.
* Failing Redis commands, with or without effect, at every `await`.
* Time: the heartbeat against the TTL; a stream timeout against a thread that
  goes on; `result(timeout=5)` against a write or a publication that comes later.
* Stale state: queue entries are snapshots, lock keys survive their holder,
  cached engines outlive the request they were built for, the checkpoint on disk
  belongs to a project and not to a task.
* Cancellation: a shutdown or a stream timeout ends the await on the engine
  and not the engine.
* The bridge: synchronous code that waits for its own event loop.

`PROJECT.json` lists every hazard at its line with the properties that cover it.

### What makes each part correct

* Store and API: a digest that names a finished task comes from a killed process
  only; equal requests do not give two active tasks.
* Queue, workers, recovery together: an accepted task is never forgotten, has
  one copy in circulation, ends, and stays ended.
* Lock: engines of one project exclude each other; a lock is leaked only by a
  worker that dies at the SET or the DEL itself, is freed only by its holder, outlasts the run of a punctual holder, and does not
  outlast a dead one for ever.
* Pool: a failure that costs an execution slot costs one task with it, and no more.
* Bridge: `update()` is synchronous (it is not; see section 5).
* Factory: the cache is unobservable. Scheduler: saved work is resumed, and
  only saved work. Together: a task runs where it asked to, and one that comes
  back goes on from its own checkpoint.
* Events: a stream ends when its task does, and shows nothing that a run leaves
  behind.

## 2. Modules

`TaskModel`, `TaskStore`, `TaskQueue` and `ProjectLock` hold the shared data and
one operator per Redis command. `Submission`, `Worker` and `Recovery` hold the
coroutines; an action runs from one suspension point to the next, and the
"program counter" (`at`, `pc`, or `todo` and `cur`) names the `await`.
`Orchestrator` composes them as `main.py` does. `TaskLifecycle` is the abstract
specification of what a client that polls its task may see.

`LockLease` opens up what `ProjectLock` takes for granted, the TTL and the
heartbeat, and implements it. `Dispatch` composes `EngineFactory` and `Scheduler`
as `_run_locked` does: the engine the factory answers with determines the
directory whose files the scheduler reads. `EventStream` and `LoopBridge` look at
one task's channel and at the crossing between threads and event loop.

| Module | Models | Variables and what they are in the code |
|---|---|---|
| `TaskModel` | the `Task` class | none; a record is a Redis value, a queue entry and a worker's object alike |
| `TaskStore` | `store.py` | `record`, `members`, `digest`: the three key families |
| `TaskQueue` | `queue.py` | `queue`: the Redis list, head = right end (BRPOP) |
| `ProjectLock` | `worker_locks.py` | `lock[p]`: `"free"`, the worker whose token is stored, or `"stale"` for the token of a vanished worker |
| `Submission` | `create_task` | `at` (await), `body`, `seen` (result of SMEMBERS), `draft` (the new Task) |
| `Worker` | `worker.py`, `_run_worker_pool` | `pc`, `job`, `write` (the `async_update` in progress), `echo` (that of a success whose `update()` has raised), `dying` (exception leaving `run`), `orphan` (engine thread without an await), `shutdown`, `cancel` |
| `Recovery` | `recovery.py` | `todo`, `cur` |
| `Orchestrator` | `main.py` | `proc`, `starts` |
| `MCOrchestrator` | | symmetry sets for TLC |
| `TaskLifecycle` | the status machine of `enums.py` and `task.py` | `status`, `tries` per task |
| `LockLease` | `worker_locks.py` with its TTL, `_heartbeat`, the lock part of `_execute` | `lock`, `left` (remaining TTL), `phase` and `at` (the worker), `heart` (its heartbeat task), `due` (time until its next command) |
| `LoopBridge` | `update`, `_consume_sync`, the loop thread (external) | `caller`, `coro`, `loop` |
| `EngineFactory` | `engine_factory.py` | `cache`, `answer` (the last call) |
| `Scheduler` | `decide`, engine files (external) | `exists`, `checkpoint`, `run`, `strays` (threads without a worker), `disturbed` (there has been one since the start) |
| `Dispatch` | `_run_locked` up to the stream | those of the two |
| `MCDispatch` | | seven tasks and what they ask for |
| `EventStream` | `event_bus.py`, `sse_utils.py`, `stream_task`, the publishing half of `worker.py` | `log` (the channel), `ended`, `stage`, `tries`, `emitted`, `said`, `orphan` (worker and engine), `late` (a publication its thread gave up on), `letGo` (where in the log the worker was through), `sse`, `pos`, `early` (each stream) |
| `OrchestratorProofs`, `PoolProofs`, `CopyProofs`, `RecordProofs`, `LockLeaseProofs`, `LoopBridgeProofs`, `DispatchProofs`, `EventStreamProofs` | theorems | |

Abstractions. sha256 is injective. uuid4 ids are fresh. Timestamps, details,
`mode`, `work_dir` and `config_json` are not in the task record of the queue,
because no decision there looks at them; `Dispatch` gives every task its
directory, project and configuration instead. `bus.close` appears in `Worker` as
a suspension point only, and in `EventStream` as the message it publishes. The
`except LockStolenError` clause of `_execute` is not an action: the heartbeat
raises in an asyncio task of its own, and the only `await` on it swallows
everything (`FindStolen` and `Finish` of `LockLease`), so a worker that is robbed of
its lock carries its task to the end. A worker that dies keeps its `job`, as the
traceback of its exception does, and its token stays on the key it may have left
(`RaiseOutside`) until the TTL takes it (`ExpireAbandoned`). A run of the engine that
is cut short leaves a checkpoint or does not ("may exist", `api_contract.md:389`);
one whose await was cancelled goes on in its thread and writes the project's files
beside the next run (`RunAbandoned`, `StraySaves`, `StrayEnds`). Time is discrete in `LockLease` and
abstract elsewhere. A definition whose comment begins with "Mutant of" is a
faulty variant used to show that a property can fail; no specification uses it.

**`BridgeWorks`.** `TaskStore.update()` blocks the loop's own thread on a
coroutine of that loop, and `_consume_sync` asks for the running loop in a
thread that has none. `LoopBridge` derives what follows: no such call ever
returns its result, and the write is applied after `update()` has raised. As
built, therefore, no worker reaches the engine's stream, and the interesting
half of `worker.py` is unreachable (theorem `AsBuiltNothingExecutes`). The modules of the queue take the outcome
as a constant. `BridgeWorks = FALSE` is the code as built. `TRUE` is the
contract the callers rely on, the one `src/task_queue.py` (54-65), the in-process
store that preceded this one, documents and fulfils: `update()` returns when
the record is written. What is said of the design, progress above all, is
checked for `TRUE`; run `as_built` and the findings about the queue are for `FALSE`.
No theorem assumes `TRUE`: all but `AsBuiltNothingExecutes` hold for both.

**`RedisMayFail`.** A command may raise, having taken effect or not. In a handler
this ends the request with what was done so far (`RequestFails`). In a worker
it leaves `_execute` through its finally clause, or `run()` altogether, so it costs
the slot (`RaiseInside`, `RaiseOutside`); an `update()` that raises leaves its
write to be applied later or lost (`UpdateRaises`, `LoseWrite`); and the `update()`
of a success, which stands inside the `try`, is turned into a failure
(`SuccessNotRecorded`) while its own write may still be applied, before or after
that of the failure (`WriteEcho`, `ClearEcho`, `LoseEcho`). A publication that does
not come back in 5 s ends the run (`PublishTimesOut`): to Python 3.10 as an
unexpected error, from 3.11 on, where `concurrent.futures` and `asyncio` share one
`TimeoutError`, as a stream timeout that ends the worker too. A recovery pass that fails ends the process, which is a
crash.

**`LockMayLapse`.** Whether a key may expire under a live holder. `LockLease`
shows what it stands for: a process whose commands arrive within `MaxLag` never
sees it, one that stalls does.

## 3. Runs

| Run | Instance | Shows |
|---|---|---|
| `settles` | bridge works; `FairSpec`; 2 workers, 2 tasks, 1 project, 1 client; 2 starts, crash anywhere | `TypeOK`, `NoTaskStranded`, `RunningMeansExecuting`, `EngineExclusive`, `EveryTaskSettles` |
| `one_start` | bridge works; 2 tasks, 2 projects, 1 client, streams may time out; 1 start, crash anywhere | `SingleCopy`, `DedupHolds`, `DigestsGoStaleWithProcess`, `TerminalIsFinal`, and the refinement `ImplementsLifecycle` |
| `faults` | 1 task, 1 client, 2 workers, 2 starts; commands fail, streams and publications time out, locks lapse, crash anywhere | `LocksLeakOnlyByDeath`, `OneTaskPerLostSlot`, `RecoveryComplete`, `LockFreedByHolder` |
| `as_built` | bridge as built; 2 tasks, 1 client, 2 workers, 2 starts, crash anywhere | `OneTaskPerLostSlot`, `NothingExecutes`, `DigestsGoStaleWithProcess` |
| `lease` | 3 workers, 2 of them unreliable, 2 projects; TTL 6, interval 2, lag 1 | `LeaseHeld`, the refinement `ImplementsProjectLock`, `DeadLocksLapse` |
| `bridge` | 3 calls on the loop, 2 in executor threads | `NoCallReturns`, `WriteAfterFailure`, `LateWriteHappens` |
| `dispatch` | 7 tasks, 2 directories, 2 projects, one place that cannot be read, 4 cached engines, 1 abandoned thread per place | `CacheIsTransparent`, `ResumeHasCheckpoint`, `CheckpointSurvives`, `RunsWhereAsked`, `InterruptedTaskResumes` |
| `events` | 2 streams, 1 retry, 2 progress events, timeouts of the stream and of a publication | `StuckStreamsCameLate`, `LeftoversMissOpenStreams`, `EarlyStreamsEnd` |
| `v_running`, `v_terminal`, `v_dedup` | bridge as built | violated; section 5 |
| `v_blank` | that of `dispatch` | violated; section 5 |

Why some properties need their restrictions: after a second start recovery has
duplicated queue entries (`v_terminal`), and concurrent requests defeat the dedup
(`v_dedup`). `NoTaskStranded` and `RunningMeansExecuting` hold as they stand while
no worker is lost; a stream timeout, a failing command and `update()` as built each
interrupt the task without re-queuing it and end the worker. `OneTaskPerLostSlot` is
what is left of them then, and needs no restriction: whatever a serving process has
lost is the last task of a lost worker, or a task whose request failed between
`save()` and LPUSH. `EngineExclusive` needs streams without timeout too, and locks
that do not lapse. `LocksLeakOnlyByDeath` names the one way in which a key is left
behind: the worker is dead. `ResumeHasCheckpoint` and `CheckpointSurvives` say that
nothing but an abandoned thread can take a checkpoint away from a run.

Bounds. `TaskId` limits how many tasks are ever accepted (`TurnAway` is the
bound), `MaxStarts` how often the process is started (`Retired` is the bound),
`MaxCached` the size of the cache, `MaxStrays` the abandoned threads in one place,
`MaxEvents` the progress events of all runs together; `echo` holds one unrecorded
success per worker. Two workers give contention for a lock and a waiting worker; a second
task gives a queue with different entries, or a successor with the same digest;
the second start is the first that finds a Redis that is not empty, and another
one finds nothing of a new kind, since a process keeps nothing but Redis.
`MaxRetries = 1` has a retry and an exhaustion. The queue needs no bound: each
recovery adds at most one entry per task. In `lease` the TTL exceeds
`Interval + 2 * MaxLag` by two, so that a refresh can be missed by a stalled
worker and not by a punctual one; one unreliable worker can steal from the other,
and a second project lets the punctual one be elsewhere. In `events` two streams can
end each other, since each publishes `close()` itself. In `dispatch` the tasks
differ in where they get their directory from (named, configured, left open), in
their project and in whether they have a requirement; two pairs share a cache
key. `TaskId`, `Workers`, `Clients` and `Requirement` are symmetric in the safety
runs; runs with liveness use no symmetry. In `settles` requirements are empty to
keep the graph small: digests play no part in progress. Deadlock is checked in
every run.

Fairness. `FairSpec`: weak fairness of every handler past its first await, of
every worker step and store write, of recovery and of key expiry. The event loop
resumes what is ready, the engine ends its streams, Redis expires keys. There
is no fairness on crashes, signals, starts or new requests. Weak fairness
suffices though a worker may find the lock busy again and again: the holder
itself progresses, and a stale key expires for good. `BridgeFairSpec`: the loop
runs what is ready and the five seconds of `result(timeout=5)` elapse.
`EventFairSpec`: the worker gets on with its task and every open stream reads
what has arrived; nobody need open a stream, leave one, or emit an event.
`LeaseFairSpec`: time passes, Redis deletes keys whose time is up, a heartbeat
that is due and a release that was sent come to pass; no engine run need end.

## 4. Theorems

All theorems hold for any sets of tasks, projects, workers, clients and streams
and, unless said otherwise, any number of starts, from the named assumptions on
constants (sentinels are outside the sets they stand beside; flags are Booleans;
`MaxRetries` and `MaxStarts` are numbers).

* `OrchestratorProofs!TypeCorrect`. `TypeOK` is not inductive: `SaveRecord`
  needs its draft to be a task and `Release` its job. `Typed` adds what each
  coroutine has in hand at each await (`DraftTyped`, `JobTyped`) and that a record
  is stored under its own id (`RecordNamed`). One lemma per group of actions.
* `OrchestratorProofs!RecoveryIsComplete`. Invariant `RecoveryCovers`: while
  recovery runs, an unfinished task is ahead of the loop, in its hands or in the
  queue. Needs `Typed` so that pushing keeps the queue a sequence.
* `OrchestratorProofs!LeaksComeFromDeath`, `LocksFreedByHolders`. `LocksLeakOnlyByDeath`
  is inductive relative to `Typed`: only acquisition, release and expiry touch a lock;
  all other steps keep `Holding` and the project of the job, or end the worker. The action property follows
  from both invariants. Neither depends on the bridge or on Redis answering.
* `OrchestratorProofs!EnginesExclude`, assuming that locks do not lapse and streams
  have no timeout. Holding the lock is not enough, because a cancelled shutdown releases
  the lock of a thread that goes on. The invariant `Exclusion` adds that holders
  own their lock, that once workers are cancelled none of them starts anything,
  and that orphaned threads exist only after that.
* `PoolProofs!LossIsOneTaskPerSlot` (`OneTaskPerLostSlot`), from no hypothesis: the
  bridge may work or not, Redis fail, streams time out, locks lapse, processes be
  killed, and copies of a task circulate. `InPlace`: a worker that is not lost and
  has a record to write is where the write belongs, so that it cannot set a record
  to "running" and leave. `RunningAhead`: a record that recovery finds running is
  still ahead of its loop; `RecoveryCovers` and `RunningAhead` provide the first
  serving state, `DraftsNew` and `Keyed` (below) the handlers. Corollaries
  `IntactPoolStrandsNothing` (if Redis answers) and `IntactPoolRunsWhatItSays`: with
  no worker lost, `NoTaskStranded` and `RunningMeansExecuting` hold as they stand.
* `CopyProofs!OneCopy`, assuming a single start and nothing else. `Life` says which
  leftovers (late writes, orphaned threads) a worker may have where; `Copies` that
  queue entries, workers that can still put back a task or have a write of it
  outstanding, and drafts never meet on one id, and that whatever is queued or in hand has a record, so that
  a fresh id is new to all of them. With a second start it is false (`v_terminal`).
* `RecordProofs!OutcomesAreFinal` (`TerminalIsFinal`) and `RecordsRefineLifecycle`
  (`ImplementsLifecycle`), assuming a single start and a Redis that answers; the bridge
  may work or not, streams may time out, the process may be killed, and any number
  of clients may be active. `Tracks` compares every copy of a task with its record:
  a queue entry is the record and waits to be executed, the object of a worker is
  the record or, while its `update()` is to be carried out, one legal move ahead
  of it (`Advances`), and the point at which the worker is suspended says which
  state it is in. It rests on `Copies`: a write would leave another copy behind
  its record, if there were one. With a second start both are false (`v_terminal`),
  and so they are when the `update()` of a success raises (`SuccessNotRecorded`).
* `RecordProofs!StaleDigestsComeFromProcessEnd` (`DigestsGoStaleWithProcess`), for any
  number of starts and clients, kills included and whatever the bridge does, assuming
  that Redis answers. Copies may be many and stale here; `Keyed`, which holds under
  all faults, says that each is of a stored task with the same project and
  requirement, that a digest key is the key of the task it names, and that nobody
  else knows the task of a handler. So the worker that makes a task terminal owes the
  DEL of the very key that names it, and only the end of the process remits that.
* `RecordProofs!AsBuiltNothingExecutes` (`NothingExecutes`), assuming that the bridge
  does not work and nothing else: no engine thread is ever started and no record ever
  says success.
  This is what section 2 says of `BridgeWorks = FALSE`.
* `LockLeaseProofs!PunctualHeartsHold` (`LeaseHeld`), `LeaseRefinesLock`, `LeaseTyped`,
  for every TTL, interval and lag with `Interval + 2 * MaxLag < TTL`. The
  invariant: a token belongs to a worker in its run, and the key of a punctual
  worker outlasts the time until its next command by `TTL - (Interval + MaxLag)`,
  in the finally clause by one `MaxLag` less.
* `LoopBridgeProofs!BridgeNeverAnswers`, `WritesComeLate`, `BridgeTyped`, for any
  number of callers. Invariant: a blocked call occupies the loop and its
  coroutine has not begun.
* `DispatchProofs`: the factory (`FactoryTyped`, `CacheTransparent`; invariant: every
  cached engine was built for a request with its key, and the key determines the
  configuration), the scheduler (`ResumesHaveCheckpoints`, `CheckpointsSurvive`;
  invariant: where a thread is loose the place is marked as disturbed), that the
  composition implements both and so inherits all of these (`DispatchInherits`), and
  what only the composition has: `TasksRunWhereAsked` and `InterruptedTasksResume`.
* `EventStreamProofs!OnlyLateStreamsStick`, `CloseCutsOff`, `EventsTyped`. The invariant
  `CutOff`: once the worker is through with the task, its DONE is in the log, and
  whoever subscribed before has it ahead or has stopped there or earlier.

Model-checked only. Liveness (`EveryTaskSettles`, `LateWriteHappens`,
`EarlyStreamsEnd`, `DeadLocksLapse`) is out of the proof system's reach. `DedupHolds` is
checked for requests that come one after the other and is false otherwise
(`v_dedup`), so it is no theorem. `NoTaskStranded` and `RunningMeansExecuting` are
proved for a pool that has lost no worker; run `settles` checks them without that
condition where the bridge works, streams have no timeout and Redis answers. Every
other safety invariant, action property and refinement of a passing run is the
statement of a theorem. The inductive invariants were themselves checked with TLC on
the instances of the runs, and on variants of them (two clients, two starts, crashes,
the bridge as built), before they were proved.

## 5. Where code and documents disagree

* `v_running`: a record turns `running` while nothing executes; the contract says
  "Worker actively executing" (`api_contract.md:386`). Cause: the bridge.
* `v_terminal`: a finished task goes back to `running`. Recovery pushes a task
  that is still in the Redis list; the README takes the queue for an in-memory
  one (`README.md:231`), and the worker trusts the snapshot.
* `v_dedup`: two concurrent equal requests make two tasks (`src/api.py:62` says they
  return the same one).
* `v_blank`: a `config_json` with a blank `model` is refused although `CIO_MODEL` is set.
  `config_schema.py:12-14` says that an absent or blank field is filled in from the
  settings; the merge (`engine_factory.py:125`) lets every key that is present win.

Two more observations have no run, because as built `update()` raises before the code
in question is reached. A task that ends between the status check of `stream_task`
and its subscription leaves the stream open on a silent channel (`StuckStreamsCameLate`
says that only such streams are left; `api_contract.md:344` says the server closes
them). And the handler of a stolen lock (`src/worker.py:108-116`) is never entered,
because the heartbeat's exception stays in its own asyncio task.

## 6. Not modelled, and why

* The pydantic validation of `config_json` (`models/config_schema.py`): a pure check
  of field types before any state changes. `EngineFactory` keeps which fields may
  be absent or blank.
* Settings (`config.py`): read once; the ones that matter are CONSTANTS.
* The connection pool of `redis_client.py`: library code; what its callers see of
  it is `RedisMayFail`.
* `src/models.py` and `src/task_queue.py`: never imported.
* In the factory: `llm_url`, `file_limit`, the YAML variant and correlation ids,
  which are handed on and decide nothing.
* uvicorn's own signal handling: both handlers are assumed to run.
* In `subscribe`, a message lost because `wait_for` cancels `get_message` while it is
  being read: this depends on the internals of the Redis client.
* Entries of the queue that cannot be parsed: only `model_dump_json` writes them.
* Several orchestrator processes at once. `main.py` starts one; recovery would
  re-queue the tasks of another. `LockLease` alone allows workers of other
  processes, for which the lock is meant.
