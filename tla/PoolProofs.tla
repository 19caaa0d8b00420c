----------------------------- MODULE PoolProofs -----------------------------
(***************************************************************************)
(* Theorems about a pool of workers at work, with no condition on the      *)
(* bridge, the timeouts, the Redis server or the crashes: what is lost is  *)
(* lost with a slot of the pool, and no slot loses more than the task it   *)
(* had in hand.                                                            *)
(***************************************************************************)
EXTENDS RecordProofs

\* The task that worker w had in hand when its slot was lost.
HadLast(w, t) == Lost(w) /\ job[w] # None /\ job[w].id = t

\* Where a worker may be while it has a record to write.
InPlaceOf(w) ==
    SetsRecord(w) =>
        \/ Lost(w) \/ pc[w] = "stream"
        \/ pc[w] = "enqueue" /\ job[w].status # "running"
        \/ pc[w] = "release" /\ IsTerminal(job[w])
InPlace == \A w \in Workers : InPlaceOf(w)

-----------------------------------------------------------------------------
(***************************************************************************)
(* The recovery pass leaves no record in state running behind it, and a    *)
(* request creates a pending one.                                          *)
(***************************************************************************)
RunningRecord(t) == Exists(t) /\ record[t].status = "running"

RunningAhead == proc = "recovering" => \A t \in TaskId : RunningRecord(t) => t \in todo

\* A handler has no task before it creates one.
DraftsNew == \A c \in Clients : at[c] \in {"idle", "scan", "digest"} => draft[c] = None

LEMMA DraftsNewInit == Init => DraftsNew
BY DEF Init, SubmissionInit, DraftsNew

LEMMA DraftsNewStep == Typed /\ DraftsNew /\ [Next]_vars => DraftsNew'
<1> SUFFICES ASSUME Typed, DraftsNew, [Next]_vars PROVE DraftsNew'
  OBVIOUS
<1> USE DEF Typed, TypeOK, SubmissionTypeOK, DraftsNew
<1>1. CASE Stop \/ Crash
  BY <1>1 DEF Stop, Crash, ProcessEnds, DropRequests
<1>2. ASSUME NEW c \in Clients, Request(c) PROVE DraftsNew'
  <2>1. CASE ReadMembers(c) \/ NoIncomplete(c) \/ SaveRecord(c) \/ SaveMember(c) \/ SaveDigest(c)
    BY <2>1 DEF ReadMembers, NoIncomplete, SaveRecord, SaveMember, SaveDigest, GoTo
  <2>2. CASE AnswerIncomplete(c) \/ AnswerDigest(c) \/ TurnAway(c) \/ PushTask(c) \/ RequestFails(c)
    BY <2>2 DEF AnswerIncomplete, AnswerDigest, TurnAway, PushTask, RequestFails, Respond, GoTo
  <2>3. CASE CreateTask(c)
    BY <2>3 DEF CreateTask, GoTo
  <2>4. QED
    BY <1>2, <2>1, <2>2, <2>3 DEF Request, ContinueRequest
<1>3. CASE UNCHANGED submissionVars
  BY <1>3 DEF submissionVars
<1>4. QED
  BY <1>1, <1>2, <1>3 DEF Next, Start, Serve, Signal, Cancel, Retired, Recover, Work, LockExpires, vars

LEMMA RunningAheadStep == Typed /\ RunningAhead /\ [Next]_vars => RunningAhead'
<1> SUFFICES ASSUME Typed, RunningAhead, [Next]_vars PROVE RunningAhead'
  OBVIOUS
<1> USE DEF RunningAhead, RunningRecord
<1>1. CASE proc' # "recovering"
  BY <1>1
<1>2. CASE Start
  BY <1>2 DEF Start, ScanKeys, storeVars, Exists
<1>3. CASE Recover
  <2>1. ASSUME NEW t \in TaskId, SkipTerminal(t) \/ PickUp(t), UNCHANGED processVars PROVE RunningAhead'
    BY <2>1, <1>3 DEF Recover, SkipTerminal, PickUp, Active, Exists, IsTerminal, storeVars, processVars
  <2>2. ASSUME NEW t \in TaskId, MarkInterrupted(t), UNCHANGED processVars PROVE RunningAhead'
    <3>1. record[t] \in Task /\ record[t].id = t
      BY <2>2 DEF MarkInterrupted, Exists, Typed, TypeOK, StoreTypeOK, RecordNamed
    <3>2. Transition(record[t], "interrupted").id = t /\ Transition(record[t], "interrupted").status = "interrupted"
      BY <3>1, TransitionTyped DEF TaskStatus
    <3>3. record' = [record EXCEPT ![t] = Transition(record[t], "interrupted")] /\ todo' = todo \ {t}
      BY <2>2, <3>2 DEF MarkInterrupted, SetRecord
    <3>4. QED
      BY <1>3, <2>2, <3>2, <3>3 DEF Recover, Exists, Typed, TypeOK, StoreTypeOK, processVars
  <2>3. CASE EnqueueRecovered
    BY <2>3, <1>3 DEF Recover, EnqueueRecovered, Exists, storeVars, processVars
  <2>4. QED
    BY <1>3, <2>1, <2>2, <2>3 DEF Recover, RecoveryStep
<1>4. CASE UNCHANGED <<record, todo, proc>>
  BY <1>4 DEF Exists
<1>5. QED
  BY <1>1, <1>2, <1>3, <1>4
     DEF Next, Serve, Signal, Cancel, Stop, Crash, ProcessEnds, Retired, Request, Work,
         LockExpires, vars, storeVars, recoveryVars, processVars

-----------------------------------------------------------------------------
(***************************************************************************)
(* What a worker does.  It reports on its task by an update(), which may   *)
(* return or raise; every other step either leaves its task where it was,  *)
(* hands it to the queue, or costs the slot.                               *)
(***************************************************************************)

\* Only the main coroutine moves the shutdown on.
LEMMA WorkKeepsShutdown == ASSUME NEW w \in Workers, Work(w) PROVE UNCHANGED shutdown
BY DEF Work, WorkerStep, StoreStep, InterruptStep, FailureStep, OrphanEnds, TakeTask, Acquire,
   LockBusy, Requeue, RejectTask, StartRun, StreamEnds, StreamRetriable, RetryTask, ExhaustTask,
   EnqueueRetry, Release, LeaveLoop, WriteRecord, ClearDigest, StreamTimesOut, CancelStream,
   Interrupt, GiveUp, PublishTimesOut, CancelInside, CancelOutside, RaiseInside, RaiseOutside,
   SuccessNotRecorded, WriteEcho, ClearEcho, LoseEcho, LoseWrite, CommandRaises

\* The steps by which a worker reports on its task.
Reports(w) ==
    \/ RejectTask(w) \/ StartRun(w) \/ RetryTask(w) \/ ExhaustTask(w)
    \/ GiveUp(w) \/ SuccessNotRecorded(w)
    \/ \E status \in {"success", "failed"} : StreamEnds(w, status)

\* The steps by which it does not, and which write no record.
Moves(w) ==
    \/ TakeTask(w) \/ Acquire(w) \/ LockBusy(w) \/ LeaveLoop(w) \/ Requeue(w)
    \/ StreamRetriable(w) \/ EnqueueRetry(w) \/ Release(w) \/ RaiseInside(w) \/ RaiseOutside(w)
    \/ ClearDigest(w) \/ LoseWrite(w) \/ ClearEcho(w) \/ LoseEcho(w) \/ OrphanEnds(w)

LEMMA WorkSteps ==
    ASSUME NEW w \in Workers, Work(w)
    PROVE  Reports(w) \/ Moves(w) \/ WriteRecord(w) \/ WriteEcho(w)
BY DEF Work, WorkerStep, StoreStep, InterruptStep, FailureStep, Reports, Moves, StreamTimesOut,
   CancelStream, Interrupt, PublishTimesOut, CancelInside, CancelOutside, CommandRaises

\* A report leaves the task in its hands, with a record to write.
LEMMA ReportStep ==
    ASSUME Typed, NEW w \in Workers, Reports(w), NEW v \in Workers
    PROVE  /\ v # w => /\ job'[v] = job[v] /\ pc'[v] = pc[v]
                       /\ write'[v] = write[v] /\ dying'[v] = dying[v]
           /\ job[w] \in Task /\ job'[w] \in Task /\ job'[w].id = job[w].id
           /\ SetsRecord(w)'
           /\ \/ dying'[w] \/ pc'[w] = "stream"
              \/ pc'[w] = "enqueue" /\ job'[w].status # "running"
              \/ pc'[w] = "release" /\ IsTerminal(job'[w])
           /\ UNCHANGED <<record, queue>>
<1> USE DEF Typed, TypeOK, WorkerTypeOK, JobTyped, storeVars
<1> DEFINE Kept == v # w => /\ job'[v] = job[v] /\ pc'[v] = pc[v]
                            /\ write'[v] = write[v] /\ dying'[v] = dying[v]
           Held == job'[w] \in Task /\ job'[w].id = job[w].id /\ SetsRecord(w)'
           Placed == \/ dying'[w] \/ pc'[w] = "stream"
                     \/ pc'[w] = "enqueue" /\ job'[w].status # "running"
                     \/ pc'[w] = "release" /\ IsTerminal(job'[w])
<1>1. ASSUME NEW task \in Task, task.id = job[w].id, NEW point, NEW dies \in BOOLEAN,
             Update(w, task, point, dies),
             \/ dies \/ point = "stream"
             \/ point = "enqueue" /\ task.status # "running"
             \/ point = "release" /\ IsTerminal(task)
      PROVE  Kept /\ Held /\ Placed
  <2>1. /\ job' = [job EXCEPT ![w] = task]
        /\ write' \in {[write EXCEPT ![w] = "set"], [write EXCEPT ![w] = "late_set"]}
    BY <1>1 DEF Update, UpdateReturns, UpdateRaises
  <2>2. \/ dying' = [dying EXCEPT ![w] = TRUE] /\ pc' = [pc EXCEPT ![w] = "release"]
        \/ dying' = [dying EXCEPT ![w] = @ \/ dies] /\ pc' = [pc EXCEPT ![w] = point]
    BY <1>1 DEF Update, UpdateReturns, UpdateRaises, Goto
  <2>3. Kept /\ Held
    BY <1>1, <2>1, <2>2 DEF SetsRecord
  <2>4. job'[w] = task
    BY <2>1
  <2>5. Placed
    BY <1>1, <2>2, <2>4 DEF IsTerminal
  <2>6. QED
    BY <2>3, <2>5
<1>2. ASSUME job[w] \in Task, NEW s \in {"running", "success", "failed", "interrupted"}
      PROVE  /\ Transition(job[w], s) \in Task /\ Transition(job[w], s).id = job[w].id
             /\ Transition(job[w], s).status = s
             /\ s \in {"success", "failed"} => IsTerminal(Transition(job[w], s))
  BY <1>2, TransitionTyped DEF TaskStatus, IsTerminal
<1>3. CASE RejectTask(w) \/ ExhaustTask(w) \/ SuccessNotRecorded(w)
  <2>1. job[w] \in Task /\ Update(w, Transition(job[w], "failed"), "release", FALSE) /\ UNCHANGED <<record, queue>>
    BY <1>3 DEF RejectTask, ExhaustTask, SuccessNotRecorded
  <2>2. QED
    BY <1>1, <1>2, <2>1
<1>4. CASE StartRun(w)
  <2>1. job[w] \in Task /\ Update(w, Transition(job[w], "running"), "stream", FALSE) /\ UNCHANGED <<record, queue>>
    BY <1>4 DEF StartRun
  <2>2. QED
    BY <1>1, <1>2, <2>1
<1>5. CASE GiveUp(w)
  <2>1. job[w] \in Task /\ Update(w, Transition(job[w], "interrupted"), "release", TRUE) /\ UNCHANGED <<record, queue>>
    BY <1>5 DEF GiveUp
  <2>2. QED
    BY <1>1, <1>2, <2>1
<1>6. ASSUME NEW s \in {"success", "failed"}, StreamEnds(w, s)
      PROVE  job[w] \in Task /\ Kept /\ Held /\ Placed /\ UNCHANGED <<record, queue>>
  <2>1. job[w] \in Task /\ Update(w, Transition(job[w], s), "release", FALSE) /\ UNCHANGED <<record, queue>>
    BY <1>6 DEF StreamEnds, Update
  <2>2. QED
    BY <1>1, <1>2, <2>1
<1>7. CASE RetryTask(w)
  <2>1. CountRetry(job[w]) \in Task /\ CountRetry(job[w]).id = job[w].id
    BY <1>7, RetryTyped DEF RetryTask
  <2>2. PICK task \in Task : /\ task = Transition(CountRetry(job[w]), "interrupted")
                             /\ task.id = job[w].id /\ task.status = "interrupted"
    BY <2>1, TransitionTyped DEF TaskStatus
  <2>3. job[w] \in Task /\ Update(w, task, "enqueue", FALSE) /\ UNCHANGED <<record, queue>>
    BY <1>7, <2>2 DEF RetryTask
  <2>4. QED
    BY <1>1, <2>2, <2>3
<1>8. QED
  BY <1>3, <1>4, <1>5, <1>6, <1>7 DEF Reports

\* The worker is where it should be with what it has to write.
LEMMA InPlaceWork ==
    ASSUME Typed, Life, InPlace, NEW w \in Workers, Work(w)
    PROVE  InPlace'
<1> USE DEF Typed, TypeOK, WorkerTypeOK, InPlace, InPlaceOf, Lost, SetsRecord
<1>1. CASE Reports(w)
  BY <1>1, ReportStep DEF IsTerminal
<1>2. CASE TakeTask(w) \/ Acquire(w) \/ LockBusy(w) \/ LeaveLoop(w) \/ Requeue(w)
  BY <1>2 DEF TakeTask, Acquire, LockBusy, LeaveLoop, Requeue, Goto, Life, LifeOf, IsTerminal
<1>3. CASE StreamRetriable(w) \/ EnqueueRetry(w)
  BY <1>3 DEF StreamRetriable, EnqueueRetry, Resumes, Settled, Goto, Life, LifeOf, IsTerminal
<1>4. CASE Release(w)
  BY <1>4 DEF Release, Settled, Goto, Life, LifeOf, IsTerminal
<1>5. CASE RaiseInside(w) \/ RaiseOutside(w)
  BY <1>5 DEF RaiseInside, RaiseOutside, Goto, IsTerminal
<1>6. CASE WriteRecord(w) \/ ClearDigest(w) \/ LoseWrite(w)
  BY <1>6 DEF WriteRecord, ClearDigest, LoseWrite, IsTerminal
<1>7. CASE WriteEcho(w) \/ ClearEcho(w) \/ LoseEcho(w) \/ OrphanEnds(w)
  BY <1>7 DEF WriteEcho, ClearEcho, LoseEcho, OrphanEnds, IsTerminal
<1>8. QED
  BY <1>1, <1>2, <1>3, <1>4, <1>5, <1>6, <1>7, WorkSteps DEF Moves

LEMMA InPlaceStep == Typed /\ Life /\ InPlace /\ [Next]_vars => InPlace'
<1> SUFFICES ASSUME Typed, Life, InPlace, [Next]_vars PROVE InPlace'
  OBVIOUS
<1>1. CASE Stop \/ Crash
  BY <1>1 DEF Stop, Crash, ProcessEnds, ResetWorkers, InPlace, InPlaceOf, SetsRecord
<1>2. CASE UNCHANGED <<pc, job, write, dying>>
  BY <1>2 DEF InPlace, InPlaceOf, SetsRecord, Lost, IsTerminal
<1>3. QED
  BY <1>1, <1>2, InPlaceWork
     DEF Next, Start, Serve, Signal, Cancel, StopWorkers, CancelWorkers, Retired, Recover, Request,
         LockExpires, vars, workerVars

-----------------------------------------------------------------------------
(***************************************************************************)
(* Tasks pass from the handler to the queue, from the queue to a worker    *)
(* and back, and each of them lets go of a task when the next one has it   *)
(* or its record is terminal; a worker also when it leaves the pool.       *)
(***************************************************************************)
\* What BRPOP leaves in the queue, and what it takes.
LEMMA PopKeepsQueued ==
    ASSUME queue \in Seq(Task), Dequeue, NEW t \in TaskId, Queued(t)
    PROVE  Queued(t)' \/ Head(queue).id = t
<1>1. PICK i \in 1 .. Len(queue) : queue[i].id = t
  BY DEF Queued
<1>2. /\ queue # <<>> /\ Len(queue) \in Nat \ {0} /\ Len(queue') = Len(queue) - 1
      /\ \A j \in 1 .. Len(queue') : queue'[j] = queue[j + 1]
      /\ Head(queue) = queue[1]
  BY DEF Dequeue
<1>3. CASE i = 1
  BY <1>1, <1>2, <1>3
<1>4. CASE i # 1
  <2>1. i - 1 \in 1 .. Len(queue') /\ (i - 1) + 1 = i
    BY <1>2, <1>4
  <2>2. queue'[i - 1].id = t
    BY <1>1, <1>2, <2>1
  <2>3. QED
    BY <2>1, <2>2 DEF Queued
<1>5. QED
  BY <1>3, <1>4

\* A task in the queue stays there until a worker has it.
LEMMA QueuedKept ==
    ASSUME Typed, NEW w \in Workers, Work(w), NEW t \in TaskId, Queued(t)
    PROVE  Queued(t)' \/ Carries(w, t)'
<1> USE DEF Typed, TypeOK, QueueTypeOK, WorkerTypeOK, JobTyped
<1>1. CASE TakeTask(w)
  <2>1. Head(queue) \in Task /\ job'[w] = Head(queue) /\ pc'[w] = "acquire"
    BY <1>1, QueueTyped DEF TakeTask, Dequeue, Goto
  <2>2. Queued(t)' \/ Head(queue).id = t
    BY <1>1, PopKeepsQueued DEF TakeTask
  <2>3. QED
    BY <2>1, <2>2, Constants DEF Carries, ConstantAssumptions
<1>2. CASE Requeue(w) \/ EnqueueRetry(w)
  BY <1>2, PushKeepsQueued DEF Requeue, EnqueueRetry
<1>3. CASE UNCHANGED queue
  BY <1>3 DEF Queued
<1>4. CASE Reports(w)
  BY <1>3, <1>4, ReportStep
<1>5. QED
  BY <1>1, <1>2, <1>3, <1>4, WorkSteps
     DEF Moves, Acquire, LockBusy, LeaveLoop, StreamRetriable, Release, RaiseInside, RaiseOutside,
         ClearDigest, LoseWrite, ClearEcho, LoseEcho, OrphanEnds, WriteRecord, WriteEcho

\* What worker v has of task t after a step of w.
Keeps(v, t) ==
    /\ Carries(v, t) \/ HadLast(v, t) => (Carries(v, t) \/ HadLast(v, t))' \/ Queued(t)'
    /\ Executes(v, t) \/ HadLast(v, t) => (Executes(v, t) \/ HadLast(v, t))'

LEMMA WorkKeepsTasks ==
    ASSUME Typed, Life, NEW w \in Workers, Reports(w) \/ Moves(w), NEW v \in Workers, NEW t \in TaskId
    PROVE  Keeps(v, t) /\ UNCHANGED record
<1> USE DEF Typed, TypeOK, QueueTypeOK, WorkerTypeOK, JobTyped, Carries, Executes, HadLast, Lost,
        SetsRecord, Keeps, storeVars
<1>1. CASE Reports(w)
  BY <1>1, ReportStep, Constants DEF ConstantAssumptions
<1>2. CASE TakeTask(w) \/ LeaveLoop(w)
  BY <1>2 DEF TakeTask, LeaveLoop, Goto, Life, LifeOf
<1>3. CASE Acquire(w) \/ LockBusy(w)
  BY <1>3 DEF Acquire, LockBusy, Goto, Life, LifeOf
<1>4. CASE Requeue(w) \/ EnqueueRetry(w)
  <2>1. CASE v = w
    <3>1. ~Executes(w, t) /\ ~HadLast(w, t)
      BY <1>4 DEF Requeue, EnqueueRetry, Settled, Life, LifeOf
    <3>2. Carries(w, t) => Queued(t)'
      BY <1>4, PushKeepsQueued DEF Requeue, EnqueueRetry
    <3>3. QED
      BY <1>4, <2>1, <3>1, <3>2 DEF Requeue, EnqueueRetry
  <2>2. CASE v # w
    BY <1>4, <2>2 DEF Requeue, EnqueueRetry, Goto
  <2>3. QED
    BY <2>1, <2>2
<1>5. CASE StreamRetriable(w)
  BY <1>5 DEF StreamRetriable, Goto
<1>6. CASE Release(w)
  BY <1>6 DEF Release, Settled, Goto, Life, LifeOf
<1>7. CASE RaiseInside(w) \/ RaiseOutside(w)
  BY <1>7 DEF RaiseInside, RaiseOutside, Goto
<1>8. CASE LoseWrite(w) \/ ClearDigest(w)
  BY <1>8 DEF LoseWrite, ClearDigest, DeletesDigest, Life, LifeOf
<1>9. CASE ClearEcho(w) \/ LoseEcho(w) \/ OrphanEnds(w)
  BY <1>9 DEF ClearEcho, LoseEcho, OrphanEnds
<1>10. QED
  BY <1>1, <1>2, <1>3, <1>4, <1>5, <1>6, <1>7, <1>8, <1>9 DEF Moves

\* The two halves of the invariant, for one task.
Placed(t) ==
    Active(t) =>
        \/ InCirculation(t) \/ LastTaskOfLost(t)
        \/ RedisMayFail /\ record[t].status = "pending"
Executed(t) == RunningRecord(t) => (\E w \in Workers : Executes(w, t)) \/ LastTaskOfLost(t)

LEMMA LossOfTasks == OneTaskPerLostSlot <=> (Serving => \A t \in TaskId : Placed(t) /\ Executed(t))
BY DEF OneTaskPerLostSlot, Placed, Executed, RunningRecord

LEMMA LostSlots == \A t : LastTaskOfLost(t) <=> \E w \in Workers : HadLast(w, t)
BY DEF LastTaskOfLost, HadLast

\* No record is written.
LEMMA LossMoves ==
    ASSUME Typed, Life, NEW w \in Workers, Work(w), Reports(w) \/ Moves(w),
           NEW t \in TaskId, Placed(t), Executed(t)
    PROVE  Placed(t)' /\ Executed(t)'
<1>1. UNCHANGED record /\ \A v \in Workers : Keeps(v, t)
  BY WorkKeepsTasks
<1>2. draft' = draft
  BY DEF Work, submissionVars
<1>3. Queued(t) => Queued(t)' \/ \E v \in Workers : Carries(v, t)'
  BY QueuedKept
<1>4. InCirculation(t) \/ (\E v \in Workers : HadLast(v, t)) =>
        InCirculation(t)' \/ \E v \in Workers : HadLast(v, t)'
  BY <1>1, <1>2, <1>3 DEF InCirculation, Keeps, Pushing
<1>5. (\E v \in Workers : Executes(v, t)) \/ (\E v \in Workers : HadLast(v, t)) =>
        (\E v \in Workers : Executes(v, t)') \/ \E v \in Workers : HadLast(v, t)'
  BY <1>1 DEF Keeps
<1>6. (Active(t)' <=> Active(t)) /\ (RunningRecord(t)' <=> RunningRecord(t))
  BY <1>1 DEF Active, Exists, IsTerminal, RunningRecord
<1>7. LastTaskOfLost(t)' <=> \E v \in Workers : HadLast(v, t)'
  BY DEF LastTaskOfLost, HadLast, Lost
<1>8. Placed(t)'
  BY <1>1, <1>4, <1>6, <1>7, LostSlots DEF Placed
<1>9. Executed(t)'
  BY <1>5, <1>6, <1>7, LostSlots DEF Executed
<1>10. QED
  BY <1>8, <1>9

\* The record of a worker's task is written.
LEMMA LossWrite ==
    ASSUME Typed, Life, InPlace, NEW w \in Workers, Work(w), WriteRecord(w),
           NEW t \in TaskId, Placed(t), Executed(t)
    PROVE  Placed(t)' /\ Executed(t)'
<1> USE DEF Typed, TypeOK, WorkerTypeOK, StoreTypeOK
<1>1. PICK task \in Task : task = job[w]
  BY DEF WriteRecord, SetsRecord, Life, LifeOf
<1>2. /\ task # None /\ task.id \in TaskId /\ record' = [record EXCEPT ![task.id] = task]
      /\ UNCHANGED <<pc, job, dying, queue, draft>> /\ \A v \in Workers \ {w} : write'[v] = write[v]
  BY <1>1, TaskFields, Constants
     DEF WriteRecord, SetRecord, Work, submissionVars, ConstantAssumptions
<1>3. LastTaskOfLost(t)' <=> LastTaskOfLost(t)
  BY <1>2 DEF LastTaskOfLost, Lost
<1>4. CASE t = task.id
  <2>1. record'[t] = task
    BY <1>2, <1>4
  <2>2. InPlaceOf(w) /\ SetsRecord(w)
    BY DEF InPlace, WriteRecord
  <2>3. CASE Lost(w)
    <3>1. LastTaskOfLost(t)'
      BY <1>1, <1>2, <1>3, <1>4, <2>3 DEF LastTaskOfLost
    <3>2. QED
      BY <3>1 DEF Placed, Executed
  <2>4. CASE pc[w] = "stream"
    <3>1. Carries(w, t)' /\ Executes(w, t)'
      BY <1>1, <1>2, <1>4, <2>4 DEF Carries, Executes
    <3>2. QED
      BY <3>1 DEF Placed, Executed, InCirculation
  <2>5. CASE pc[w] = "enqueue" /\ job[w].status # "running"
    <3>1. Carries(w, t)'
      BY <1>1, <1>2, <1>4, <2>5 DEF Carries
    <3>2. ~RunningRecord(t)'
      BY <1>1, <2>1, <2>5 DEF RunningRecord
    <3>3. QED
      BY <3>1, <3>2 DEF Placed, Executed, InCirculation
  <2>6. CASE IsTerminal(job[w])
    <3>1. ~Active(t)' /\ ~RunningRecord(t)'
      BY <1>1, <2>1, <2>6 DEF Active, IsTerminal, RunningRecord
    <3>2. QED
      BY <3>1 DEF Placed, Executed
  <2>7. QED
    BY <2>2, <2>3, <2>4, <2>5, <2>6 DEF InPlaceOf
<1>5. CASE t # task.id
  <2>1. record'[t] = record[t]
    BY <1>2, <1>5
  <2>2. ASSUME NEW v \in Workers
        PROVE  (Carries(v, t) => Carries(v, t)') /\ (Executes(v, t) => Executes(v, t)')
    BY <1>1, <1>2, <1>5 DEF Carries, Executes, SetsRecord
  <2>3. InCirculation(t) => InCirculation(t)'
    BY <1>2, <2>2 DEF InCirculation, Queued, Pushing
  <2>4. (Active(t)' <=> Active(t)) /\ (RunningRecord(t)' <=> RunningRecord(t))
    BY <2>1 DEF Active, Exists, IsTerminal, RunningRecord
  <2>5. QED
    BY <1>3, <2>1, <2>2, <2>3, <2>4 DEF Placed, Executed
<1>6. QED
  BY <1>4, <1>5

\* A success that had been given up is written: it is terminal.
LEMMA LossEcho ==
    ASSUME Typed, Keyed, NEW w \in Workers, Work(w), WriteEcho(w),
           NEW t \in TaskId, Placed(t), Executed(t)
    PROVE  Placed(t)' /\ Executed(t)'
<1> USE DEF Typed, TypeOK, WorkerTypeOK, StoreTypeOK
<1>1. PICK e \in [cmd : {"set", "del"}, task : Task] : e = echo[w]
  BY DEF WriteEcho
<1>2. /\ IsTerminal(e.task) /\ e.task \in Task /\ e.task.id \in TaskId
      /\ record' = [record EXCEPT ![e.task.id] = e.task]
      /\ UNCHANGED <<pc, job, write, dying, queue, draft>>
  BY <1>1, TaskFields DEF WriteEcho, SetRecord, Work, submissionVars, Keyed, EchoKeyed
<1>3. LastTaskOfLost(t)' <=> LastTaskOfLost(t)
  BY <1>2 DEF LastTaskOfLost, Lost
<1>4. CASE t = e.task.id
  <2>1. ~Active(t)' /\ ~RunningRecord(t)'
    BY <1>2, <1>4 DEF Active, IsTerminal, RunningRecord
  <2>2. QED
    BY <2>1 DEF Placed, Executed
<1>5. CASE t # e.task.id
  <2>1. record'[t] = record[t]
    BY <1>2, <1>5
  <2>2. (InCirculation(t)' <=> InCirculation(t)) /\ \A v \in Workers : Executes(v, t)' <=> Executes(v, t)
    BY <1>2 DEF InCirculation, Carries, Queued, Pushing, Executes, SetsRecord
  <2>3. (Active(t)' <=> Active(t)) /\ (RunningRecord(t)' <=> RunningRecord(t))
    BY <2>1 DEF Active, Exists, IsTerminal, RunningRecord
  <2>4. QED
    BY <1>3, <2>1, <2>2, <2>3 DEF Placed, Executed
<1>6. QED
  BY <1>4, <1>5

\* A handler lets go of a task when it is in the queue, or when Redis fails
\* it, and then the record is still as it was saved.
LEMMA LossRequest ==
    ASSUME Typed, Keyed, DraftsNew, NEW c \in Clients, Request(c),
           NEW t \in TaskId, Placed(t), Executed(t)
    PROVE  Placed(t)' /\ Executed(t)'
<1> USE DEF Typed, TypeOK, QueueTypeOK, SubmissionTypeOK, StoreTypeOK
<1>1. /\ LastTaskOfLost(t)' <=> LastTaskOfLost(t)
      /\ \A v \in Workers : (Executes(v, t)' <=> Executes(v, t)) /\ (Carries(v, t)' <=> Carries(v, t))
  BY DEF Request, workerVars, LastTaskOfLost, Lost, Executes, Carries, SetsRecord
<1>2. ASSUME UNCHANGED record, InCirculation(t) => InCirculation(t)' PROVE Placed(t)' /\ Executed(t)'
  BY <1>1, <1>2 DEF Placed, Executed, Active, Exists, IsTerminal, RunningRecord
<1>3. CASE SaveRecord(c)
  <2>1. PICK task \in Task : task = draft[c]
    BY <1>3 DEF SaveRecord, DraftTyped
  <2>2. /\ task # None /\ task.id \in TaskId /\ task.status = "pending" /\ ~Exists(task.id)
        /\ record' = [record EXCEPT ![task.id] = task] /\ UNCHANGED <<queue, draft>>
    BY <1>3, <2>1, TaskFields, Constants
       DEF SaveRecord, SetRecordNX, SetRecord, Keyed, DraftsSaved, ConstantAssumptions
  <2>3. CASE t = task.id
    <3>1. Pushing(c, t)' /\ record'[t] = task
      BY <2>1, <2>2, <2>3 DEF Pushing
    <3>2. QED
      BY <2>2, <3>1 DEF Placed, Executed, InCirculation, RunningRecord
  <2>4. CASE t # task.id
    <3>1. record'[t] = record[t]
      BY <2>2, <2>4
    <3>2. InCirculation(t) => InCirculation(t)'
      BY <1>1, <2>2 DEF InCirculation, Queued, Pushing
    <3>3. QED
      BY <1>1, <3>1, <3>2 DEF Placed, Executed, Active, Exists, IsTerminal, RunningRecord
  <2>5. QED
    BY <2>3, <2>4
<1>4. CASE PushTask(c)
  <2>1. draft[c] \in Task /\ Enqueue(draft[c]) /\ UNCHANGED record
        /\ \A d \in Clients \ {c} : draft'[d] = draft[d]
    BY <1>4 DEF PushTask, Respond, storeVars, DraftTyped
  <2>2. (Queued(t) => Queued(t)') /\ (Pushing(c, t) => Queued(t)')
    BY <2>1, PushKeepsQueued DEF Pushing
  <2>3. InCirculation(t) => InCirculation(t)'
    BY <1>1, <2>1, <2>2 DEF InCirculation, Pushing
  <2>4. QED
    BY <1>2, <2>1, <2>3
<1>5. CASE RedisMayFail /\ RequestFails(c)
  <2>1. UNCHANGED <<record, queue>> /\ \A d \in Clients \ {c} : draft'[d] = draft[d]
    BY <1>5 DEF RequestFails, Respond, storeVars
  <2>2. CASE Pushing(c, t)
    <3>1. Active(t) => record[t] = draft[c] /\ draft[c].status = "pending"
      <4>1. draft[c] # None /\ draft[c].id = t /\ at[c] \notin {"idle", "scan", "digest"}
        BY <2>2 DEF Pushing, DraftsNew
      <4>2. at[c] \in {"save", "member", "index", "push"}
        BY <4>1 DEF AwaitPoint
      <4>3. QED
        BY <4>1, <4>2 DEF Keyed, DraftsSaved, Active
    <3>2. Placed(t)'
      BY <1>5, <2>1, <3>1 DEF Placed, Active, Exists, IsTerminal
    <3>3. Executed(t)'
      BY <1>1, <2>1 DEF Executed, RunningRecord, Exists
    <3>4. QED
      BY <3>2, <3>3
  <2>3. CASE ~Pushing(c, t)
    <3>1. InCirculation(t) => InCirculation(t)'
      BY <1>1, <2>1, <2>3 DEF InCirculation, Queued, Pushing
    <3>2. QED
      BY <1>2, <2>1, <3>1
  <2>4. QED
    BY <2>2, <2>3
<1>6. CASE ReadMembers(c) \/ NoIncomplete(c) \/ SaveMember(c) \/ SaveDigest(c)
  <2>1. UNCHANGED <<record, queue, draft>>
    BY <1>6 DEF ReadMembers, NoIncomplete, SaveMember, SaveDigest, storeVars
  <2>2. QED
    BY <1>1, <1>2, <2>1 DEF InCirculation, Queued, Pushing
<1>7. CASE AnswerIncomplete(c) \/ AnswerDigest(c) \/ TurnAway(c) \/ CreateTask(c)
  <2>1. UNCHANGED <<record, queue>> /\ draft[c] = None /\ \A d \in Clients \ {c} : draft'[d] = draft[d]
    BY <1>7 DEF AnswerIncomplete, AnswerDigest, TurnAway, CreateTask, Respond, DraftsNew, storeVars
  <2>2. QED
    BY <1>1, <1>2, <2>1 DEF InCirculation, Queued, Pushing
<1>8. QED
  BY <1>3, <1>4, <1>5, <1>6, <1>7 DEF Request, ContinueRequest

LEMMA LossStep ==
    ASSUME Typed, Life, Keyed, RecoveryCovers, RunningAhead, DraftsNew, InPlace,
           OneTaskPerLostSlot, [Next]_vars
    PROVE  OneTaskPerLostSlot'
<1> DEFINE All == \A t \in TaskId : Placed(t) /\ Executed(t)
<1>1. Serving => All
  BY LossOfTasks
<1>2. ASSUME Serving' => All' PROVE OneTaskPerLostSlot'
  BY <1>2 DEF OneTaskPerLostSlot, Placed, Executed, RunningRecord
<1>3. CASE ~Serving'
  BY <1>2, <1>3
<1>4. ASSUME NEW w \in Workers, Work(w), Serving' PROVE All'
  <2>1. Serving
    BY <1>4, WorkKeepsShutdown DEF Serving, Stopping, Work
  <2>2. ASSUME NEW t \in TaskId PROVE Placed(t)' /\ Executed(t)'
    BY <1>1, <1>4, <2>1, LossMoves, LossWrite, LossEcho, WorkSteps
  <2>3. QED
    BY <2>2
<1>5. ASSUME Serve PROVE All'
  <2>1. UNCHANGED <<record, queue>> /\ proc = "recovering" /\ todo = {} /\ cur = None
    BY <1>5 DEF Serve, storeVars
  <2>2. ASSUME NEW t \in TaskId PROVE Placed(t)' /\ Executed(t)'
    <3>1. Active(t)' => Queued(t)'
      BY <2>1 DEF RecoveryCovers, InHand, Active, Exists, IsTerminal, Queued
    <3>2. ~RunningRecord(t)'
      BY <2>1 DEF RunningAhead, RunningRecord, Exists
    <3>3. QED
      BY <3>1, <3>2 DEF Placed, Executed, InCirculation
  <2>3. QED
    BY <2>2
<1>6. ASSUME NEW c \in Clients, Request(c), Serving' PROVE All'
  <2>1. Serving
    BY <1>6 DEF Request, Serving, Stopping, workerVars, processVars
  <2>2. ASSUME NEW t \in TaskId PROVE Placed(t)' /\ Executed(t)'
    BY <1>1, <1>6, <2>1, LossRequest
  <2>3. QED
    BY <2>2
<1>7. ASSUME UNCHANGED <<record, queue, draft, workerVars, proc>> PROVE OneTaskPerLostSlot'
  BY <1>7 DEF OneTaskPerLostSlot, InCirculation, LastTaskOfLost, Lost, Executes, Serving, Stopping,
     workerVars, Carries, SetsRecord, Pushing, Queued, Active, Exists, IsTerminal
<1>8. QED
  BY <1>2, <1>3, <1>4, <1>5, <1>6, <1>7
     DEF Next, Start, Recover, Signal, Cancel, StopWorkers, CancelWorkers, Stop, Crash, ProcessEnds,
         Retired, LockExpires, vars, storeVars, submissionVars, processVars, Serving, Stopping

\* An exception that leaves a worker costs the slot and the one task that it
\* had in hand, however it came about: update() as built, a timeout, Redis,
\* a kill, any number of copies and restarts.  Every other task is in
\* circulation, and every other record that says "running" is true.
\* (worker.py 70-123, 171, 203, 267-294; main.py 46-61; api.py 172-173)
THEOREM LossIsOneTaskPerSlot == Spec => []OneTaskPerLostSlot
<1> DEFINE Inv == /\ Typed /\ Life /\ Keyed /\ RecoveryCovers /\ RunningAhead
                  /\ DraftsNew /\ InPlace /\ OneTaskPerLostSlot
<1>1. Init => Inv
  BY InitTyped, LifeInit, KeyedInit, DraftsNewInit
     DEF Init, WorkerInit, RecoveryCovers, RunningAhead, InPlace, InPlaceOf, SetsRecord,
         OneTaskPerLostSlot, Serving
<1>2. Inv /\ [Next]_vars => Inv'
  BY NextTyped, LifeStep, KeyedStep, RecoveryCoversStep, RunningAheadStep, DraftsNewStep, InPlaceStep,
     LossStep
<1>3. QED
  BY <1>1, <1>2, PTL DEF Spec

-----------------------------------------------------------------------------
\* As long as the pool has all its workers and Redis answers, an accepted
\* task is never forgotten. (worker.py 85-123, 267-294; recovery.py 45-90)
THEOREM IntactPoolStrandsNothing ==
    ASSUME ~RedisMayFail
    PROVE  Spec => [](PoolIntact => NoTaskStranded)
<1>1. OneTaskPerLostSlot => (PoolIntact => NoTaskStranded)
  BY DEF OneTaskPerLostSlot, PoolIntact, NoTaskStranded, LastTaskOfLost
<1>2. QED
  BY <1>1, LossIsOneTaskPerSlot, PTL

\* As long as the pool has all its workers, a task stored as running is being
\* run, whether Redis answers or not. (worker.py 170-210; recovery.py 63-68)
THEOREM IntactPoolRunsWhatItSays == Spec => [](PoolIntact => RunningMeansExecuting)
<1>1. OneTaskPerLostSlot => (PoolIntact => RunningMeansExecuting)
  BY DEF OneTaskPerLostSlot, PoolIntact, RunningMeansExecuting, LastTaskOfLost
<1>2. QED
  BY <1>1, LossIsOneTaskPerSlot, PTL
=============================================================================
