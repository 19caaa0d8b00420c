------------------------------- MODULE Worker -------------------------------
(***************************************************************************)
(* The worker pool: src/worker.py, one Worker per execution slot.          *)
(*                                                                         *)
(* An action runs from one suspension point of the coroutine to the next.  *)
(* Three constants say what surrounds the worker:                          *)
(*                                                                         *)
(*   BridgeWorks     The worker crosses between threads and the event loop *)
(*       in two places: TaskStore.update() blocks on async_update() of the *)
(*       same loop, and _consume_sync, in an executor thread, publishes    *)
(*       through that loop.  TRUE: both do what their callers rely on.     *)
(*       FALSE: what module LoopBridge derives for the Redis store:        *)
(*       update() raises TimeoutError and the write happens afterwards, so *)
(*       no worker gets as far as the stream.                              *)
(*   StreamTimeouts  settings.stream_timeout > 0.                          *)
(*   RedisMayFail    A command on Redis may raise, because the connection  *)
(*       is lost, the pool of connections is used up or the answer does    *)
(*       not come in time.  Whether it took effect, or still will, is then *)
(*       open.                                                             *)
(*                                                                         *)
(* bus.close() publishes on a channel and leaves nothing behind in Redis;  *)
(* it appears here only as the suspension point it is.  The handler of     *)
(* LockStolenError in _execute is not an action: the heartbeat raises it   *)
(* in its own asyncio task, and no await of that task lets it out.         *)
(***************************************************************************)
EXTENDS TaskStore, TaskQueue, ProjectLock

CONSTANTS BridgeWorks, StreamTimeouts, RedisMayFail

ASSUME WorkerAssumption ==
    BridgeWorks \in BOOLEAN /\ StreamTimeouts \in BOOLEAN /\ RedisMayFail \in BOOLEAN

VARIABLES
    pc,        \* where each worker is suspended
    job,       \* the Task object it holds
    write,     \* the next command of the async_update() of that object,
               \* "late" if update() has not waited for it
    echo,      \* the next command of the async_update() of a success whose
               \* update() has given up waiting, with the task it stores
    dying,     \* an exception is on its way out of run()
    orphan,    \* the engine thread outlived the await on it
    shutdown,  \* how far _run_worker_pool of main.py has got
    cancel     \* Task.cancel() called on the worker, not delivered yet

workerVars == <<pc, job, write, echo, dying, orphan, shutdown, cancel>>

WorkerPc == {"idle", "acquire", "requeue", "execute", "stream", "retry",
             "enqueue", "release", "dead"}

WorkerInit ==
    /\ pc = [w \in Workers |-> "idle"]
    /\ job = [w \in Workers |-> None]
    /\ write = [w \in Workers |-> "none"]
    /\ echo = [w \in Workers |-> None]
    /\ dying = [w \in Workers |-> FALSE]
    /\ orphan = [w \in Workers |-> FALSE]
    /\ shutdown = "no"
    /\ cancel = [w \in Workers |-> FALSE]

WorkerTypeOK ==
    /\ pc \in [Workers -> WorkerPc]
    /\ job \in [Workers -> Task \cup {None}]
    /\ write \in [Workers -> {"none", "set", "del", "late_set", "late_del"}]
    /\ echo \in [Workers -> [cmd : {"set", "del"}, task : Task] \cup {None}]
    /\ dying \in [Workers -> BOOLEAN]
    /\ orphan \in [Workers -> BOOLEAN]
    /\ shutdown \in {"no", "stop", "cancel"}
    /\ cancel \in [Workers -> BOOLEAN]

\* The worker is between a successful _acquire_lock and its _release_lock.
Holding(w) == pc[w] \in {"execute", "stream", "retry", "enqueue", "release"}

\* A thread of the executor is iterating the CIO engine for this worker.
EngineRuns(w) == (pc[w] = "stream" /\ write[w] = "none") \/ orphan[w]

\* stop() has been called on every worker.
Stopping == shutdown # "no"

\* async_update() is about to write the record, or to delete the digest.
SetsRecord(w) == write[w] \in {"set", "late_set"}
DeletesDigest(w) == write[w] \in {"del", "late_del"}

\* update() has given control back.
Settled(w) == write[w] \notin {"set", "del"}

\* The await at which the worker is suspended may return; a worker that is
\* cancelled gets CancelledError from it instead.
Resumes(w) == Settled(w) /\ ~cancel[w]

Goto(w, point) == pc' = [pc EXCEPT ![w] = point]

\* The head of the while loop of run().
LoopHead(w) == IF dying[w] \/ Stopping THEN "dead" ELSE "idle"

\* task.transition(...); store.update(task).  It returns once the record is
\* written, and the worker goes on to point, ...
UpdateReturns(w, task, point, dies) ==
    /\ BridgeWorks
    /\ job' = [job EXCEPT ![w] = task]
    /\ write' = [write EXCEPT ![w] = "set"]
    /\ Goto(w, point)
    /\ dying' = [dying EXCEPT ![w] = @ \/ dies]

\* Mutant of UpdateRaises: the exception is logged where it arises.
UpdateSwallows(w, task) ==
    /\ ~BridgeWorks \/ RedisMayFail
    /\ job' = [job EXCEPT ![w] = task]
    /\ write' = [write EXCEPT ![w] = "late_set"]
    /\ Goto(w, "release")
    /\ UNCHANGED dying

\* ... or it raises, with the coroutine still to run: the exception leaves
\* the worker by way of the finally clause.
UpdateRaises(w, task) ==
    /\ ~BridgeWorks \/ RedisMayFail
    /\ job' = [job EXCEPT ![w] = task]
    /\ write' = [write EXCEPT ![w] = "late_set"]
    /\ Goto(w, "release")
    /\ dying' = [dying EXCEPT ![w] = TRUE]

Update(w, task, point, dies) ==
    UpdateReturns(w, task, point, dies) \/ UpdateRaises(w, task)

-----------------------------------------------------------------------------
\* async_update(): SET of the record, then DEL of the digest if terminal.
WriteRecord(w) ==
    /\ SetsRecord(w)
    /\ SetRecord(job[w])
    /\ write' = [write EXCEPT ![w] =
                   IF ~ClearsDigest(job[w]) THEN "none" ELSE IF @ = "set" THEN "del" ELSE "late_del"]
    /\ UNCHANGED <<members, digest, queue, lock, pc, job, echo, dying, orphan, shutdown, cancel>>

ClearDigest(w) ==
    /\ DeletesDigest(w)
    /\ DeleteDigest(job[w])
    /\ write' = [write EXCEPT ![w] = "none"]
    /\ UNCHANGED <<record, members, queue, lock, pc, job, echo, dying, orphan, shutdown, cancel>>

\* The command of an update() that has raised fails, and nobody hears of it.
LoseWrite(w) ==
    /\ write[w] \in {"late_set", "late_del"}
    /\ write' = [write EXCEPT ![w] = "none"]
    /\ UNCHANGED <<storeVars, queue, lock, pc, job, echo, dying, orphan, shutdown, cancel>>

-----------------------------------------------------------------------------
\* run(): BRPOP returns an entry.  A worker already waiting in BRPOP when
\* stop() is called still executes what it receives.
TakeTask(w) ==
    /\ pc[w] = "idle"
    /\ Dequeue
    /\ job' = [job EXCEPT ![w] = Head(queue)]
    /\ Goto(w, "acquire")
    /\ UNCHANGED <<storeVars, lock, write, echo, dying, orphan, shutdown, cancel>>

\* run(): BRPOP times out and stop() has been called.
LeaveLoop(w) ==
    /\ pc[w] = "idle" /\ Stopping
    /\ Goto(w, "dead")
    /\ UNCHANGED <<storeVars, queue, lock, job, write, echo, dying, orphan, shutdown, cancel>>

\* _execute: the lock is free.
Acquire(w) ==
    /\ pc[w] = "acquire"
    /\ AcquireLock(job[w].project, w)
    /\ Goto(w, "execute")
    /\ UNCHANGED <<storeVars, queue, job, write, echo, dying, orphan, shutdown, cancel>>

\* _execute: the lock is held; the task goes back to the tail of the queue.
LockBusy(w) ==
    /\ pc[w] = "acquire"
    /\ LockIsHeld(job[w].project)
    /\ Goto(w, "requeue")
    /\ UNCHANGED <<storeVars, queue, lock, job, write, echo, dying, orphan, shutdown, cancel>>

\* Mutant of Requeue: no return after the task was put back.
RequeueFallsThrough(w) ==
    /\ pc[w] = "requeue"
    /\ Enqueue(job[w])
    /\ Goto(w, "execute")
    /\ UNCHANGED <<storeVars, lock, job, write, echo, dying, orphan, shutdown, cancel>>

Requeue(w) ==
    /\ pc[w] = "requeue"
    /\ Enqueue(job[w])
    /\ job' = [job EXCEPT ![w] = None]
    /\ Goto(w, LoopHead(w))
    /\ UNCHANGED <<storeVars, lock, write, echo, dying, orphan, shutdown, cancel>>

\* _run_locked: the engine cannot be built, or decide() raises ValueError.
RejectTask(w) ==
    /\ pc[w] = "execute" /\ Resumes(w)
    /\ Update(w, Transition(job[w], "failed"), "release", FALSE)
    /\ UNCHANGED <<storeVars, queue, lock, echo, orphan, shutdown, cancel>>

\* Mutant of StartRun: the stream is started before update() is called.
StreamFirst(w) ==
    /\ pc[w] = "execute" /\ Resumes(w)
    /\ job' = [job EXCEPT ![w] = Transition(job[w], "running")]
    /\ write' = [write EXCEPT ![w] = IF BridgeWorks THEN "set" ELSE "late_set"]
    /\ Goto(w, "stream")
    /\ UNCHANGED <<storeVars, queue, lock, echo, dying, orphan, shutdown, cancel>>

\* _run_locked: a mode is chosen; the task is RUNNING and the stream starts.
StartRun(w) ==
    /\ pc[w] = "execute" /\ Resumes(w)
    /\ Update(w, Transition(job[w], "running"), "stream", FALSE)
    /\ UNCHANGED <<storeVars, queue, lock, echo, orphan, shutdown, cancel>>

\* _stream ends normally, or with FatalError or an unexpected exception.
StreamEnds(w, status) ==
    /\ pc[w] = "stream" /\ Resumes(w)
    /\ \/ UpdateReturns(w, Transition(job[w], status), "release", FALSE)
       \/ status = "failed" /\ UpdateRaises(w, Transition(job[w], status))
    /\ UNCHANGED <<storeVars, queue, lock, echo, orphan, shutdown, cancel>>

\* The update() of a success is inside the try: when it raises, "except
\* Exception" records a failure, with the first async_update() still about.
\* Bound: one such success per worker; that of an earlier task counts as lost.
SuccessNotRecorded(w) ==
    /\ pc[w] = "stream" /\ Resumes(w)
    /\ echo' = [echo EXCEPT ![w] = [cmd |-> "set", task |-> Transition(job[w], "success")]]
    /\ Update(w, Transition(job[w], "failed"), "release", FALSE)
    /\ UNCHANGED <<storeVars, queue, lock, orphan, shutdown, cancel>>

\* Its commands are carried out, before or after those of the failure, ...
WriteEcho(w) ==
    /\ echo[w] # None /\ echo[w].cmd = "set"
    /\ SetRecord(echo[w].task)
    /\ echo' = [echo EXCEPT ![w] = IF ClearsDigest(@.task) THEN [@ EXCEPT !.cmd = "del"] ELSE None]
    /\ UNCHANGED <<members, digest, queue, lock, pc, job, write, dying, orphan, shutdown, cancel>>

ClearEcho(w) ==
    /\ echo[w] # None /\ echo[w].cmd = "del"
    /\ DeleteDigest(echo[w].task)
    /\ echo' = [echo EXCEPT ![w] = None]
    /\ UNCHANGED <<record, members, queue, lock, pc, job, write, dying, orphan, shutdown, cancel>>

\* ... or fail.
LoseEcho(w) ==
    /\ echo[w] # None
    /\ echo' = [echo EXCEPT ![w] = None]
    /\ UNCHANGED <<storeVars, queue, lock, pc, job, write, dying, orphan, shutdown, cancel>>

\* _stream raises RetriableError; bus.close() is awaited first.
StreamRetriable(w) ==
    /\ pc[w] = "stream" /\ Resumes(w)
    /\ Goto(w, "retry")
    /\ UNCHANGED <<storeVars, queue, lock, job, write, echo, dying, orphan, shutdown, cancel>>

\* CancelledError at the await on the engine: the task is interrupted, and
\* the exception goes on out of run().
GiveUp(w) ==
    /\ pc[w] = "stream" /\ Settled(w)
    /\ Update(w, Transition(job[w], "interrupted"), "release", TRUE)
    /\ UNCHANGED <<storeVars, queue, lock, echo, shutdown>>

\* The await is cancelled, by wait_for when the stream times out or by the
\* shutdown.  The thread itself cannot be cancelled.
Interrupt(w) == GiveUp(w) /\ orphan' = [orphan EXCEPT ![w] = TRUE]

StreamTimesOut(w) ==
    StreamTimeouts /\ ~cancel[w] /\ Interrupt(w) /\ UNCHANGED cancel

\* The thread ends because a publication did not come back in 5 s.  From
\* Python 3.11 on its TimeoutError is the one _stream takes for a timeout of
\* the stream; before, it is one more unexpected exception (StreamEnds).
PublishTimesOut(w) == ~cancel[w] /\ GiveUp(w) /\ UNCHANGED <<orphan, cancel>>

\* Mutant of RetryTask: <= for < in the comparison with the maximum.
RetryOnceMore(w) ==
    /\ pc[w] = "retry" /\ Resumes(w) /\ job[w].retry <= MaxRetries
    /\ Update(w, Transition(CountRetry(job[w]), "interrupted"), "enqueue", FALSE)
    /\ UNCHANGED <<storeVars, queue, lock, echo, orphan, shutdown, cancel>>

\* _handle_retriable: another attempt, or give up.
RetryTask(w) ==
    /\ pc[w] = "retry" /\ Resumes(w) /\ job[w].retry < MaxRetries
    /\ Update(w, Transition(CountRetry(job[w]), "interrupted"), "enqueue", FALSE)
    /\ UNCHANGED <<storeVars, queue, lock, echo, orphan, shutdown, cancel>>

ExhaustTask(w) ==
    /\ pc[w] = "retry" /\ Resumes(w) /\ job[w].retry >= MaxRetries
    /\ Update(w, Transition(job[w], "failed"), "release", FALSE)
    /\ UNCHANGED <<storeVars, queue, lock, echo, orphan, shutdown, cancel>>

\* Mutant of EnqueueRetry: _handle_retriable does not put the task back.
ForgetRetry(w) ==
    /\ pc[w] = "enqueue" /\ Settled(w)
    /\ Goto(w, "release")
    /\ UNCHANGED <<storeVars, queue, lock, job, write, echo, dying, orphan, shutdown, cancel>>

EnqueueRetry(w) ==
    /\ pc[w] = "enqueue" /\ Settled(w)
    /\ Enqueue(job[w])
    /\ Goto(w, "release")
    /\ UNCHANGED <<storeVars, lock, job, write, echo, dying, orphan, shutdown, cancel>>

\* Mutant of Release: the finally clause does not release the lock.
KeepLock(w) ==
    /\ pc[w] = "release" /\ Settled(w)
    /\ Goto(w, LoopHead(w))
    /\ job' = [job EXCEPT ![w] = IF dying[w] THEN @ ELSE None]
    /\ UNCHANGED <<storeVars, queue, lock, write, echo, dying, orphan, shutdown, cancel>>

\* The finally clause of _execute, then back to run() or out of it.  The
\* traceback of an exception keeps the object, for a write or an engine
\* thread that outlives the worker.
Release(w) ==
    /\ pc[w] = "release" /\ Settled(w)
    /\ ReleaseLock(job[w].project, w)
    /\ Goto(w, LoopHead(w))
    /\ job' = [job EXCEPT ![w] = IF dying[w] THEN @ ELSE None]
    /\ UNCHANGED <<storeVars, queue, write, echo, dying, orphan, shutdown, cancel>>

\* The engine thread comes to an end by itself.
OrphanEnds(w) ==
    /\ orphan[w]
    /\ orphan' = [orphan EXCEPT ![w] = FALSE]
    /\ UNCHANGED <<storeVars, queue, lock, pc, job, write, echo, dying, shutdown, cancel>>

-----------------------------------------------------------------------------
\* _run_worker_pool: the shutdown event is set, ...
StopWorkers ==
    /\ shutdown = "no"
    /\ shutdown' = "stop"
    /\ UNCHANGED <<storeVars, queue, lock, pc, job, write, echo, dying, orphan, cancel>>

\* ... and 30 s later every worker that is still there is cancelled.
CancelWorkers ==
    /\ shutdown = "stop"
    /\ \E w \in Workers : pc[w] # "dead"
    /\ shutdown' = "cancel"
    /\ cancel' = [w \in Workers |-> pc[w] # "dead"]
    /\ UNCHANGED <<storeVars, queue, lock, pc, job, write, echo, dying, orphan>>

Delivered(w) == cancel[w] /\ cancel' = [cancel EXCEPT ![w] = FALSE]

\* CancelledError at the await on the engine, ...
CancelStream(w) == Delivered(w) /\ Interrupt(w)

\* ... at another await inside the try of _execute, whose finally clause
\* still runs, or in that clause where it is swallowed, ...
RaiseInside(w) ==
    /\ pc[w] \in {"retry", "enqueue", "release"} /\ Settled(w)
    /\ Goto(w, "release")
    /\ dying' = [dying EXCEPT ![w] = TRUE]
    /\ UNCHANGED <<storeVars, queue, lock, job, write, echo, orphan, shutdown>>
CancelInside(w) == Delivered(w) /\ RaiseInside(w)

\* ... or at an await of run() or _execute outside that try: only the
\* traceback still has the task and, when SET or the release was in flight,
\* the lock key stays.
RaiseOutside(w) ==
    /\ pc[w] \in {"idle", "acquire", "requeue", "execute", "release"} /\ Settled(w)
    /\ Goto(w, "dead")
    /\ UNCHANGED <<storeVars, queue, lock, job, write, echo, dying, orphan, shutdown>>
CancelOutside(w) == Delivered(w) /\ RaiseOutside(w)

\* A command on Redis that raises takes the same two ways out of the worker:
\* BRPOP, SET NX, LPUSH, the Lua script or a publication of close().  One
\* that took effect all the same raises at the next suspension point.
CommandRaises(w) == (RaiseInside(w) \/ RaiseOutside(w)) /\ UNCHANGED cancel

\* The TTL of a key that its worker has left behind runs out.
ExpireAbandoned(p) ==
    /\ lock[p] \in Workers /\ pc[lock[p]] = "dead"
    /\ lock' = [lock EXCEPT ![p] = "free"]

WorkerStep(w) ==
    \/ TakeTask(w) \/ Acquire(w) \/ LockBusy(w) \/ Requeue(w)
    \/ RejectTask(w) \/ StartRun(w)
    \/ \E status \in {"success", "failed"} : StreamEnds(w, status)
    \/ StreamRetriable(w) \/ RetryTask(w) \/ ExhaustTask(w) \/ EnqueueRetry(w)
    \/ Release(w) \/ LeaveLoop(w)

StoreStep(w) == WriteRecord(w) \/ ClearDigest(w)

FailureStep(w) ==
    /\ RedisMayFail
    /\ \/ SuccessNotRecorded(w) \/ WriteEcho(w) \/ ClearEcho(w) \/ LoseEcho(w)
       \/ LoseWrite(w) \/ CommandRaises(w) \/ PublishTimesOut(w)

InterruptStep(w) ==
    \/ StreamTimesOut(w) \/ CancelStream(w) \/ CancelInside(w) \/ CancelOutside(w)

\* A new process: fresh workers, and no coroutine of the old one left.
ResetWorkers ==
    /\ pc' = [w \in Workers |-> "idle"]
    /\ job' = [w \in Workers |-> None]
    /\ write' = [w \in Workers |-> "none"]
    /\ echo' = [w \in Workers |-> None]
    /\ dying' = [w \in Workers |-> FALSE]
    /\ orphan' = [w \in Workers |-> FALSE]
    /\ shutdown' = "no"
    /\ cancel' = [w \in Workers |-> FALSE]
    /\ AbandonLocks(Workers)
=============================================================================
