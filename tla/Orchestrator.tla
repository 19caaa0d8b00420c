---------------------------- MODULE Orchestrator ----------------------------
(***************************************************************************)
(* One orchestrator process on a Redis server that outlives it: the API    *)
(* handlers, the worker pool and the startup recovery, put together as     *)
(* src/main.py does, with crashes, shutdowns and restarts.                 *)
(***************************************************************************)
EXTENDS Submission, Worker, Recovery

CONSTANTS
    MaxStarts,      \* bound: times the process is started
    MayCrash        \* the process may be killed at any moment

ASSUME OrchestratorAssumption ==
    MaxStarts \in Nat \ {0} /\ MayCrash \in BOOLEAN

VARIABLES
    proc,      \* "down", "recovering" or "up"
    starts     \* times the process was started

processVars == <<proc, starts>>
vars == <<storeVars, queue, lock, submissionVars, workerVars, recoveryVars,
          processVars>>

Init ==
    /\ StoreInit /\ QueueInit /\ LockInit
    /\ SubmissionInit /\ WorkerInit /\ RecoveryInit
    /\ proc = "down" /\ starts = 0

TypeOK ==
    /\ StoreTypeOK /\ QueueTypeOK /\ LockTypeOK
    /\ SubmissionTypeOK /\ WorkerTypeOK /\ RecoveryTypeOK
    /\ proc \in {"down", "recovering", "up"}
    /\ starts \in Nat

-----------------------------------------------------------------------------
\* _run_app: connect, then scan for stranded tasks.
Start ==
    /\ proc = "down" /\ starts < MaxStarts
    /\ proc' = "recovering"
    /\ starts' = starts + 1
    /\ ScanKeys
    /\ UNCHANGED <<storeVars, queue, lock, submissionVars, workerVars>>

\* Recovery returns; the worker pool and the HTTP server start.
Serve ==
    /\ proc = "recovering" /\ todo = {} /\ cur = None
    /\ proc' = "up"
    /\ UNCHANGED <<storeVars, queue, lock, submissionVars, workerVars,
                   recoveryVars, starts>>

\* SIGINT or SIGTERM: the server takes no further request, the workers are
\* told to stop, and what has not stopped 30 s later is cancelled.
Signal == proc = "up" /\ StopWorkers /\ UNCHANGED <<submissionVars, recoveryVars, processVars>>
Cancel == proc = "up" /\ CancelWorkers /\ UNCHANGED <<submissionVars, recoveryVars, processVars>>

\* The process is gone, and with it all that was only in its memory.
ProcessEnds ==
    /\ proc' = "down"
    /\ ResetWorkers
    /\ DropRequests
    /\ todo' = {} /\ cur' = None
    /\ UNCHANGED <<storeVars, queue, starts>>

\* Requests are answered, every worker has stopped, and no executor thread
\* is left for asyncio.run to wait for.
Stop ==
    /\ proc = "up" /\ Stopping
    /\ \A c \in Clients : at[c] = "idle"
    /\ \A w \in Workers : pc[w] = "dead" /\ ~orphan[w]
    /\ ProcessEnds

Crash == MayCrash /\ proc # "down" /\ ProcessEnds

\* Bound: after MaxStarts runs of the program nothing happens any more.
Retired == proc = "down" /\ starts = MaxStarts /\ UNCHANGED vars

Recover ==
    /\ proc = "recovering"
    /\ RecoveryStep
    /\ UNCHANGED <<lock, submissionVars, workerVars, processVars>>

Request(c) ==
    /\ proc = "up"
    /\ \/ (ReadMembers(c) /\ ~Stopping) \/ ContinueRequest(c)
       \/ RedisMayFail /\ RequestFails(c)
    /\ UNCHANGED <<lock, workerVars, recoveryVars, processVars>>

Work(w) ==
    /\ proc = "up"
    /\ \/ WorkerStep(w) \/ StoreStep(w) \/ OrphanEnds(w)
       \/ InterruptStep(w) \/ FailureStep(w)
    /\ UNCHANGED <<submissionVars, recoveryVars, processVars>>

\* The TTL of a lock key runs out on the Redis server.
LockExpires(p) ==
    /\ ExpireStale(p) \/ ExpireAbandoned(p) \/ Lapse(p)
    /\ UNCHANGED <<storeVars, queue, submissionVars, workerVars, recoveryVars,
                   processVars>>

Next ==
    \/ Start \/ Serve \/ Signal \/ Cancel \/ Stop \/ Crash \/ Retired \/ Recover
    \/ \E c \in Clients : Request(c)
    \/ \E w \in Workers : Work(w)
    \/ \E p \in Project : LockExpires(p)

Spec == Init /\ [][Next]_vars

(***************************************************************************)
(* Fairness.  The event loop resumes every coroutine whose await is over,  *)
(* so a handler, a worker, a write or the recovery pass that can go on     *)
(* does; the CIO engine ends every stream it starts; Redis expires keys    *)
(* whose TTL has run out.  Nothing obliges the process to crash, to be     *)
(* stopped, to be started again, or to receive another request.            *)
(***************************************************************************)
Continue(c) ==
    /\ proc = "up" /\ ContinueRequest(c)
    /\ UNCHANGED <<lock, workerVars, recoveryVars, processVars>>

Proceed(w) ==
    /\ proc = "up" /\ (WorkerStep(w) \/ StoreStep(w))
    /\ UNCHANGED <<submissionVars, recoveryVars, processVars>>

Fairness ==
    /\ WF_vars(Recover) /\ WF_vars(Serve)
    /\ \A c \in Clients : WF_vars(Continue(c))
    /\ \A w \in Workers : WF_vars(Proceed(w))
    /\ \A p \in Project : WF_vars(LockExpires(p))

FairSpec == Spec /\ Fairness
-----------------------------------------------------------------------------
\* Who will still do something about task t: the queue, a worker, a handler
\* that has stored but not yet pushed it.
Carries(w, t) ==
    /\ job[w] # None /\ job[w].id = t
    /\ \/ pc[w] \in {"acquire", "requeue", "execute", "stream", "retry", "enqueue"}
       \/ SetsRecord(w)
Pushing(c, t) == draft[c] # None /\ draft[c].id = t

InCirculation(t) ==
    \/ Queued(t)
    \/ \E w \in Workers : Carries(w, t)
    \/ \E c \in Clients : Pushing(c, t)

\* Worker w is running t, or about to store how that ended.
Executes(w, t) ==
    /\ job[w] # None /\ job[w].id = t
    /\ pc[w] \in {"stream", "retry"} \/ SetsRecord(w)

Serving == proc = "up" /\ ~Stopping

\* An accepted task is never forgotten by a serving process: whatever the
\* interleaving of save and LPUSH, of lock contention and re-queuing, of
\* retries, crashes and recovery, a task that is not terminal is in the
\* queue, in the hands of a worker, or about to be pushed.
\* (worker.py 85-123, 267-294; api.py 172-173; recovery.py 45-90)
NoTaskStranded ==
    Serving => \A t \in TaskId : Active(t) => InCirculation(t)

\* A task stored as running is being executed: a worker of this process is
\* in its stream, or is about to record how the stream ended.
\* (worker.py 170-210; recovery.py 63-68)
RunningMeansExecuting ==
    Serving => \A t \in TaskId : Exists(t) /\ record[t].status = "running" =>
        \E w \in Workers : Executes(w, t)

\* The slot of w is lost: an exception is leaving its coroutine, or has left
\* it, and nobody starts another worker in its place.
Lost(w) == dying[w] \/ pc[w] = "dead"
PoolIntact == \A w \in Workers : ~Lost(w)
LastTaskOfLost(t) == \E w \in Workers : Lost(w) /\ job[w] # None /\ job[w].id = t

\* What an exception that leaves a worker costs: the slot and the one task it
\* had in hand, which nobody puts back and whose record may go on saying
\* "running"; every other task is in circulation, and every other running
\* record is true.  A request that fails after save() costs its pending task.
\* (worker.py 70-123, 171, 203, 267-294; main.py 46-61; api.py 172-173)
OneTaskPerLostSlot ==
    Serving => \A t \in TaskId :
        /\ Active(t) =>
             \/ InCirculation(t) \/ LastTaskOfLost(t)
             \/ RedisMayFail /\ record[t].status = "pending"
        /\ Exists(t) /\ record[t].status = "running" =>
             (\E w \in Workers : Executes(w, t)) \/ LastTaskOfLost(t)

\* Where update() never returns, no engine thread is started and no stored
\* task has succeeded. (store.py 103-112; worker.py 171-182)
NothingExecutes ==
    /\ \A w \in Workers : ~EngineRuns(w)
    /\ \A t \in TaskId : Exists(t) => record[t].status # "success"

\* The engine of a project runs in at most one thread: the project lock is
\* held for as long as the engine works on the project's files.
\* (worker.py 85-123, 239-254)
EngineExclusive ==
    \A v, w \in Workers :
        v # w /\ EngineRuns(v) /\ EngineRuns(w) => job[v].project # job[w].project

\* A lock key that carries the token of a worker belongs to its acquisition
\* of that very project, or the worker is dead: a raise at the await on SET or
\* on the release itself leaves the key to its TTL, one key per worker lost.
\* Every other path through _execute gives the key back. (worker.py 85-123)
LocksLeakOnlyByDeath ==
    /\ \A p \in Project : lock[p] \in Workers =>
          pc[lock[p]] = "dead" \/ (Holding(lock[p]) /\ job[lock[p]].project = p)
    /\ \A p, q \in Project : lock[p] \in Workers /\ lock[p] = lock[q] => p = q

\* A digest key is stale: it names a task that has ended, and no update() that
\* is under way will delete it.
Stale(k) ==
    /\ digest[k] # None /\ ~Active(digest[k])
    /\ ~\E w \in Workers :
          /\ job[w] # None /\ job[w].id = digest[k]
          /\ DeletesDigest(w) \/ (SetsRecord(w) /\ ClearsDigest(job[w]))

\* Only the end of the process between the SET and the DEL of an update()
\* makes a digest key stale, so that a finished task turns requests away;
\* neither copies of a task that finish twice nor an update() that has raised
\* do. (store.py 91-94, 119-127)
DigestsGoStaleWithProcess ==
    [][\A k \in DigestKey : Stale(k)' /\ ~Stale(k) => proc' = "down"]_vars

\* Two requests for the same project and the same non-empty requirement do
\* not give two tasks that are active together. (api.py 152-173)
DedupHolds ==
    \A s, t \in TaskId :
        s # t /\ Active(s) /\ Active(t) /\ record[s].requirement # Blank
            => KeyOf(record[s]) # KeyOf(record[t])

\* A task has at most one copy in circulation, so it is executed by one
\* worker at a time and never again once it is done.
\* (queue.py 25-42; worker.py 97, 282; recovery.py 89)
SingleCopy ==
    \A t \in TaskId :
        /\ Cardinality(Entries(t)) <= 1
        /\ Queued(t) => \A w \in Workers :
               ~(job[w] # None /\ job[w].id = t /\ pc[w] \notin {"release", "dead"})
        /\ \A v, w \in Workers : v # w /\ Carries(v, t) => ~Carries(w, t)

\* The lock of a project changes hands only by an act of its holder (its
\* release, its death) or by expiry, never by the release of another worker
\* whose own acquisition has meanwhile expired. (worker_locks.py 35-44)
LockFreedByHolder ==
    [][\A p \in Project : lock[p] \in Workers /\ lock'[p] # lock[p]
           => pc' = pc \/ pc'[lock[p]] # pc[lock[p]]]_vars

\* When recovery hands over to the worker pool, every task that is not
\* terminal is in the queue, however the previous process ended.
\* (recovery.py 45-90; main.py 87)
RecoveryComplete ==
    [][proc = "recovering" /\ proc' = "up"
           => \A t \in TaskId : Active(t) => Queued(t)]_vars

\* No status transition follows success or failure. (task.py 61-63)
TerminalIsFinal ==
    [][\A t \in TaskId : Exists(t) /\ IsTerminal(record[t])
           => record'[t] = record[t]]_vars

\* While the process is not restarted, the records a client can poll go
\* through the states of TaskLifecycle and no others.
Lifecycle == INSTANCE TaskLifecycle WITH
    status <- [t \in TaskId |-> IF Exists(t) THEN record[t].status ELSE "absent"],
    tries <- [t \in TaskId |-> IF Exists(t) THEN record[t].retry ELSE 0]

ImplementsLifecycle == Lifecycle!LifecycleSpec

\* Once the process stays up, every accepted task ends, whatever competes
\* with it for the lock and the workers, and stays ended.
\* (worker.py 70-123, 267-294; recovery.py 45-90)
EveryTaskSettles ==
    <>[]Serving => \A t \in TaskId :
        [](Exists(t) => <>[](Exists(t) /\ IsTerminal(record[t])))
=============================================================================
