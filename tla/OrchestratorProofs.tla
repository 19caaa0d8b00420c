------------------------- MODULE OrchestratorProofs -------------------------
(***************************************************************************)
(* Theorems about Orchestrator, for every value of its constants.          *)
(***************************************************************************)
EXTENDS Orchestrator, TLAPS

(***************************************************************************)
(* Types.  TypeOK is not inductive by itself: that a handler may save its  *)
(* draft, or a worker put its job back, rests on where each of them is     *)
(* suspended.                                                              *)
(***************************************************************************)
DraftTyped ==
    \A c \in Clients :
        /\ at[c] \in {"scan", "digest"} => body[c] \in Body
        /\ at[c] \in {"save", "member", "index", "push"} => draft[c] \in Task
JobTyped == \A w \in Workers : pc[w] \notin {"idle", "dead"} => job[w] \in Task
RecordNamed == \A t \in TaskId : record[t] # None => record[t].id = t

Typed == TypeOK /\ DraftTyped /\ JobTyped /\ RecordNamed

ConstantAssumptions ==
    /\ Blank \notin Requirement /\ None \notin TaskId /\ None \notin Task
    /\ MaxRetries \in Nat
    /\ "free" \notin Workers /\ "stale" \notin Workers
    /\ LockMayLapse \in BOOLEAN /\ BridgeWorks \in BOOLEAN
    /\ StreamTimeouts \in BOOLEAN /\ RedisMayFail \in BOOLEAN
    /\ MayCrash \in BOOLEAN
    /\ MaxStarts \in Nat \ {0}

\* The assumptions of the modules, in one place.
LEMMA Constants == ConstantAssumptions
BY TaskModelAssumption, LockAssumption, WorkerAssumption, OrchestratorAssumption
   DEF ConstantAssumptions

\* transition() keeps a task a task, and the task it is.
LEMMA TransitionTyped ==
    ASSUME NEW task \in Task, NEW s \in TaskStatus
    PROVE  /\ Transition(task, s) \in Task
           /\ Transition(task, s).id = task.id
           /\ Transition(task, s).project = task.project
           /\ Transition(task, s).status = s
BY DEF Transition, Task

\* So does counting a retry.
LEMMA RetryTyped ==
    ASSUME NEW task \in Task
    PROVE  /\ CountRetry(task) \in Task
           /\ CountRetry(task).id = task.id
           /\ CountRetry(task).project = task.project
           /\ CountRetry(task).status = task.status
BY DEF CountRetry, Task

LEMMA NewTaskTyped ==
    ASSUME NEW t \in TaskId, NEW p \in Project, NEW r \in Requirement \cup {Blank}
    PROVE  NewTask(t, p, r) \in Task /\ NewTask(t, p, r).id = t
BY DEF NewTask, Task, TaskStatus

LEMMA InitTyped == Init => Typed
BY DEF Init, StoreInit, QueueInit, LockInit, SubmissionInit, WorkerInit,
       RecoveryInit, Typed, TypeOK, StoreTypeOK, QueueTypeOK, LockTypeOK,
       SubmissionTypeOK, WorkerTypeOK, RecoveryTypeOK, DraftTyped, JobTyped,
       RecordNamed, AwaitPoint, WorkerPc

\* Queue operations on typed tasks.
LEMMA QueueTyped ==
    ASSUME queue \in Seq(Task)
    PROVE  /\ \A task \in Task : Append(queue, task) \in Seq(Task)
           /\ queue # <<>> => Head(queue) \in Task /\ Tail(queue) \in Seq(Task)
OBVIOUS

\* The fields of a task.
LEMMA TaskFields ==
    ASSUME NEW task \in Task
    PROVE  /\ task.id \in TaskId /\ task.project \in Project
           /\ task.requirement \in Requirement \cup {Blank} /\ task.retry \in Nat
BY DEF Task

\* Types are preserved by POST /tasks, ...
LEMMA RequestTyped ==
    ASSUME Typed, NEW c \in Clients, Request(c)
    PROVE  Typed'
<1> USE Constants DEF ConstantAssumptions, Typed, TypeOK, StoreTypeOK, QueueTypeOK,
          LockTypeOK, SubmissionTypeOK, WorkerTypeOK, RecoveryTypeOK,
          DraftTyped, JobTyped, RecordNamed, storeVars, submissionVars,
          workerVars, recoveryVars, processVars
<1>1. CASE ReadMembers(c) /\ UNCHANGED <<lock, workerVars, recoveryVars, processVars>>
  BY <1>1 DEF ReadMembers, Body, GoTo, AwaitPoint
<1>2. CASE AnswerIncomplete(c) /\ UNCHANGED <<lock, workerVars, recoveryVars, processVars>>
  BY <1>2 DEF AnswerIncomplete, Respond, GoTo, AwaitPoint
<1>3. CASE NoIncomplete(c) /\ UNCHANGED <<lock, workerVars, recoveryVars, processVars>>
  BY <1>3 DEF NoIncomplete, GoTo, AwaitPoint
<1>4. CASE AnswerDigest(c) /\ UNCHANGED <<lock, workerVars, recoveryVars, processVars>>
  BY <1>4 DEF AnswerDigest, Respond, GoTo, AwaitPoint
<1>5. CASE CreateTask(c) /\ UNCHANGED <<lock, workerVars, recoveryVars, processVars>>
  BY <1>5, NewTaskTyped DEF CreateTask, FreshId, Body, GoTo, AwaitPoint
<1>6. CASE TurnAway(c) /\ UNCHANGED <<lock, workerVars, recoveryVars, processVars>>
  BY <1>6 DEF TurnAway, Respond, GoTo, AwaitPoint
<1>7. CASE SaveRecord(c) /\ UNCHANGED <<lock, workerVars, recoveryVars, processVars>>
  BY <1>7, TaskFields DEF SaveRecord, SetRecordNX, SetRecord, Exists, GoTo, AwaitPoint
<1>8. CASE SaveMember(c) /\ UNCHANGED <<lock, workerVars, recoveryVars, processVars>>
  BY <1>8, TaskFields DEF SaveMember, AddMember, GoTo, AwaitPoint
<1>9. CASE SaveDigest(c) /\ UNCHANGED <<lock, workerVars, recoveryVars, processVars>>
  BY <1>9, TaskFields DEF SaveDigest, SetDigest, GoTo, AwaitPoint
<1>10. CASE PushTask(c) /\ UNCHANGED <<lock, workerVars, recoveryVars, processVars>>
  BY <1>10, QueueTyped DEF PushTask, Enqueue, Respond, GoTo, AwaitPoint
<1>11. CASE RequestFails(c) /\ UNCHANGED <<lock, workerVars, recoveryVars, processVars>>
  BY <1>11 DEF RequestFails, Respond, GoTo, AwaitPoint
<1>12. QED
  BY <1>1, <1>2, <1>3, <1>4, <1>5, <1>6, <1>7, <1>8, <1>9, <1>10, <1>11 DEF Request, ContinueRequest

\* update() leaves the worker with a task and at a point it knows, whether
\* it returns or raises.
LEMMA UpdateTyped ==
    ASSUME WorkerTypeOK, NEW w \in Workers, NEW task \in Task, NEW point \in WorkerPc,
           NEW dies \in BOOLEAN, Update(w, task, point, dies)
    PROVE  /\ pc' \in [Workers -> WorkerPc]
           /\ job' \in [Workers -> Task \cup {None}]
           /\ write' \in [Workers -> {"none", "set", "del", "late_set", "late_del"}]
           /\ dying' \in [Workers -> BOOLEAN]
           /\ job'[w] = task /\ \A v \in Workers \ {w} : job'[v] = job[v] /\ pc'[v] = pc[v]
           /\ pc'[w] \in {point, "release"}
<1> USE DEF WorkerTypeOK
<1>1. CASE UpdateReturns(w, task, point, dies)
  BY <1>1 DEF UpdateReturns, Goto
<1>2. CASE UpdateRaises(w, task)
  BY <1>2 DEF UpdateRaises, Goto, WorkerPc
<1>3. QED
  BY <1>1, <1>2 DEF Update

\* ... by the workers and the writes they started, ...
LEMMA WorkTyped ==
    ASSUME Typed, NEW w \in Workers, Work(w)
    PROVE  Typed'
<1> USE Constants DEF ConstantAssumptions, Typed, TypeOK, StoreTypeOK, QueueTypeOK,
          LockTypeOK, SubmissionTypeOK, WorkerTypeOK, RecoveryTypeOK,
          DraftTyped, JobTyped, RecordNamed, storeVars, submissionVars,
          workerVars, recoveryVars, processVars
<1>0. ASSUME NEW task \in Task, NEW point \in {"stream", "enqueue", "release"}, NEW dies \in BOOLEAN,
             Update(w, task, point, dies), StoreTypeOK', RecordNamed',
             echo' \in [Workers -> [cmd : {"set", "del"}, task : Task] \cup {None}],
             orphan' \in [Workers -> BOOLEAN], cancel' \in [Workers -> BOOLEAN],
             UNCHANGED <<queue, lock, shutdown, submissionVars, recoveryVars, processVars>>
      PROVE  Typed'
  <2>1. point \in WorkerPc
    BY DEF WorkerPc
  <2>2. /\ pc' \in [Workers -> WorkerPc]
        /\ job' \in [Workers -> Task \cup {None}]
        /\ write' \in [Workers -> {"none", "set", "del", "late_set", "late_del"}]
        /\ dying' \in [Workers -> BOOLEAN]
        /\ job'[w] = task /\ \A v \in Workers \ {w} : job'[v] = job[v] /\ pc'[v] = pc[v]
    BY <1>0, <2>1, UpdateTyped
  <2>3. WorkerTypeOK' /\ JobTyped'
    BY <1>0, <2>2
  <2>4. QED
    BY <1>0, <2>3
<1>1. CASE TakeTask(w) /\ UNCHANGED <<submissionVars, recoveryVars, processVars>>
  BY <1>1, QueueTyped DEF TakeTask, Dequeue, Goto, WorkerPc, TaskStatus
<1>2. CASE Acquire(w) /\ UNCHANGED <<submissionVars, recoveryVars, processVars>>
  BY <1>2 DEF Acquire, AcquireLock, Goto, WorkerPc, TaskStatus
<1>3. CASE LockBusy(w) /\ UNCHANGED <<submissionVars, recoveryVars, processVars>>
  BY <1>3 DEF LockBusy, Goto, WorkerPc, TaskStatus
<1>4. CASE Requeue(w) /\ UNCHANGED <<submissionVars, recoveryVars, processVars>>
  BY <1>4, QueueTyped DEF Requeue, Enqueue, LoopHead, Goto, WorkerPc, TaskStatus
<1>5. CASE RejectTask(w) /\ UNCHANGED <<submissionVars, recoveryVars, processVars>>
  <2>1. Transition(job[w], "failed") \in Task
    BY <1>5, TransitionTyped DEF RejectTask, TaskStatus
  <2>2. QED
    BY <1>5, <2>1, <1>0 DEF RejectTask
<1>6. CASE StartRun(w) /\ UNCHANGED <<submissionVars, recoveryVars, processVars>>
  <2>1. Transition(job[w], "running") \in Task
    BY <1>6, TransitionTyped DEF StartRun, TaskStatus
  <2>2. QED
    BY <1>6, <2>1, <1>0 DEF StartRun
<1>7. ASSUME NEW status \in {"success", "failed"}, StreamEnds(w, status),
             UNCHANGED <<submissionVars, recoveryVars, processVars>>
      PROVE  Typed'
  <2>1. Transition(job[w], status) \in Task
    BY <1>7, TransitionTyped DEF StreamEnds, TaskStatus
  <2>2. Update(w, Transition(job[w], status), "release", FALSE)
    BY <1>7 DEF StreamEnds, Update
  <2>3. QED
    BY <1>7, <2>1, <2>2, <1>0 DEF StreamEnds
<1>8. CASE StreamRetriable(w) /\ UNCHANGED <<submissionVars, recoveryVars, processVars>>
  BY <1>8 DEF StreamRetriable, Goto, WorkerPc, TaskStatus
<1>9. CASE RetryTask(w) /\ UNCHANGED <<submissionVars, recoveryVars, processVars>>
  <2>1. Transition(CountRetry(job[w]), "interrupted") \in Task
    BY <1>9, TransitionTyped, RetryTyped DEF RetryTask, TaskStatus
  <2>2. QED
    BY <1>9, <2>1, <1>0 DEF RetryTask
<1>10. CASE ExhaustTask(w) /\ UNCHANGED <<submissionVars, recoveryVars, processVars>>
  <2>1. Transition(job[w], "failed") \in Task
    BY <1>10, TransitionTyped DEF ExhaustTask, TaskStatus
  <2>2. QED
    BY <1>10, <2>1, <1>0 DEF ExhaustTask
<1>11. CASE EnqueueRetry(w) /\ UNCHANGED <<submissionVars, recoveryVars, processVars>>
  BY <1>11, QueueTyped DEF EnqueueRetry, Enqueue, Goto, WorkerPc, TaskStatus
<1>12. CASE Release(w) /\ UNCHANGED <<submissionVars, recoveryVars, processVars>>
  BY <1>12 DEF Release, ReleaseLock, LoopHead, Goto, WorkerPc, TaskStatus
<1>13. CASE LeaveLoop(w) /\ UNCHANGED <<submissionVars, recoveryVars, processVars>>
  BY <1>13 DEF LeaveLoop, Goto, WorkerPc, TaskStatus
<1>14. CASE WriteRecord(w) /\ UNCHANGED <<submissionVars, recoveryVars, processVars>>
  BY <1>14 DEF WriteRecord, SetRecord, Goto, WorkerPc, TaskStatus
<1>15. CASE ClearDigest(w) /\ UNCHANGED <<submissionVars, recoveryVars, processVars>>
  BY <1>15 DEF ClearDigest, DeleteDigest, Goto, WorkerPc, TaskStatus
<1>16. CASE OrphanEnds(w) /\ UNCHANGED <<submissionVars, recoveryVars, processVars>>
  BY <1>16 DEF OrphanEnds, Goto, WorkerPc, TaskStatus
<1>17. CASE StreamTimesOut(w) /\ UNCHANGED <<submissionVars, recoveryVars, processVars>>
  <2>1. Transition(job[w], "interrupted") \in Task
    BY <1>17, TransitionTyped DEF StreamTimesOut, Interrupt, GiveUp, TaskStatus
  <2>2. QED
    BY <1>17, <2>1, <1>0 DEF StreamTimesOut, Interrupt, GiveUp
<1>18. CASE CancelStream(w) /\ UNCHANGED <<submissionVars, recoveryVars, processVars>>
  <2>1. Transition(job[w], "interrupted") \in Task
    BY <1>18, TransitionTyped DEF CancelStream, Interrupt, GiveUp, TaskStatus
  <2>2. QED
    BY <1>18, <2>1, <1>0 DEF CancelStream, Interrupt, GiveUp, Delivered
<1>19. CASE CancelInside(w) /\ UNCHANGED <<submissionVars, recoveryVars, processVars>>
  BY <1>19 DEF CancelInside, RaiseInside, Delivered, Goto, WorkerPc, TaskStatus
<1>20. CASE CancelOutside(w) /\ UNCHANGED <<submissionVars, recoveryVars, processVars>>
  BY <1>20 DEF CancelOutside, RaiseOutside, Delivered, Goto, WorkerPc, TaskStatus
<1>21. CASE SuccessNotRecorded(w) /\ UNCHANGED <<submissionVars, recoveryVars, processVars>>
  <2>1. Transition(job[w], "failed") \in Task /\ Transition(job[w], "success") \in Task
    BY <1>21, TransitionTyped DEF SuccessNotRecorded, TaskStatus
  <2>2. echo' \in [Workers -> [cmd : {"set", "del"}, task : Task] \cup {None}]
    BY <1>21, <2>1 DEF SuccessNotRecorded
  <2>3. QED
    BY <1>21, <2>1, <2>2, <1>0 DEF SuccessNotRecorded
<1>22. CASE (WriteEcho(w) \/ ClearEcho(w) \/ LoseEcho(w)) /\ UNCHANGED <<submissionVars, recoveryVars, processVars>>
  <2>1. PICK e \in [cmd : {"set", "del"}, task : Task] : e = echo[w]
    BY <1>22 DEF WriteEcho, ClearEcho, LoseEcho
  <2>2. e.task \in Task /\ e.task.id \in TaskId /\ [e EXCEPT !.cmd = "del"] \in [cmd : {"set", "del"}, task : Task]
    BY <2>1, TaskFields
  <2>3. echo' \in [Workers -> [cmd : {"set", "del"}, task : Task] \cup {None}]
    BY <1>22, <2>1, <2>2 DEF WriteEcho, ClearEcho, LoseEcho
  <2>4. StoreTypeOK' /\ RecordNamed'
    BY <1>22, <2>1, <2>2 DEF WriteEcho, ClearEcho, LoseEcho, SetRecord, DeleteDigest
  <2>5. QED
    BY <1>22, <2>3, <2>4 DEF WriteEcho, ClearEcho, LoseEcho
<1>23. CASE LoseWrite(w) /\ UNCHANGED <<submissionVars, recoveryVars, processVars>>
  BY <1>23 DEF LoseWrite
<1>24. CASE CommandRaises(w) /\ UNCHANGED <<submissionVars, recoveryVars, processVars>>
  <2>1. CASE RaiseInside(w)
    BY <1>24, <2>1 DEF CommandRaises, RaiseInside, Goto, WorkerPc
  <2>2. CASE RaiseOutside(w)
    BY <1>24, <2>2 DEF CommandRaises, RaiseOutside, Goto, WorkerPc
  <2>3. QED
    BY <1>24, <2>1, <2>2 DEF CommandRaises
<1>25. CASE PublishTimesOut(w) /\ UNCHANGED <<submissionVars, recoveryVars, processVars>>
  <2>1. Transition(job[w], "interrupted") \in Task
    BY <1>25, TransitionTyped DEF PublishTimesOut, GiveUp, TaskStatus
  <2>2. QED
    BY <1>25, <2>1, <1>0 DEF PublishTimesOut, GiveUp
<1>26. QED
  BY <1>1, <1>2, <1>3, <1>4, <1>5, <1>6, <1>7, <1>8, <1>9, <1>10, <1>11, <1>12, <1>13, <1>14, <1>15, <1>16,
     <1>17, <1>18, <1>19, <1>20, <1>21, <1>22, <1>23, <1>24, <1>25
     DEF Work, WorkerStep, StoreStep, InterruptStep, FailureStep

\* ... by recovery, ...
LEMMA RecoverTyped ==
    ASSUME Typed, Recover
    PROVE  Typed'
<1> USE Constants DEF ConstantAssumptions, Typed, TypeOK, StoreTypeOK, QueueTypeOK,
          LockTypeOK, SubmissionTypeOK, WorkerTypeOK, RecoveryTypeOK,
          DraftTyped, JobTyped, RecordNamed, storeVars, submissionVars,
          workerVars, recoveryVars, processVars
<1>1. CASE \E t \in TaskId : SkipTerminal(t) /\ UNCHANGED <<lock, submissionVars, workerVars, processVars>>
  BY <1>1 DEF SkipTerminal
<1>2. CASE \E t \in TaskId : MarkInterrupted(t) /\ UNCHANGED <<lock, submissionVars, workerVars, processVars>>
  BY <1>2, TransitionTyped DEF MarkInterrupted, SetRecord, TaskStatus, Exists
<1>3. CASE \E t \in TaskId : PickUp(t) /\ UNCHANGED <<lock, submissionVars, workerVars, processVars>>
  BY <1>3 DEF PickUp, Exists
<1>4. CASE EnqueueRecovered /\ UNCHANGED <<lock, submissionVars, workerVars, processVars>>
  BY <1>4, QueueTyped DEF EnqueueRecovered, Enqueue
<1>5. QED
  BY <1>1, <1>2, <1>3, <1>4 DEF Recover, RecoveryStep

\* ... and by what happens to the process and to the locks from outside.
LEMMA ProcessTyped ==
    ASSUME Typed,
           \/ Start \/ Serve \/ Signal \/ Cancel \/ Stop \/ Crash \/ Retired
           \/ \E p \in Project : LockExpires(p)
    PROVE  Typed'
<1> USE Constants DEF ConstantAssumptions, Typed, TypeOK, StoreTypeOK, QueueTypeOK,
          LockTypeOK, SubmissionTypeOK, WorkerTypeOK, RecoveryTypeOK,
          DraftTyped, JobTyped, RecordNamed, storeVars, submissionVars,
          workerVars, recoveryVars, processVars
<1>1. CASE Start
  BY <1>1 DEF Start, ScanKeys, Exists
<1>2. CASE Serve
  BY <1>2 DEF Serve
<1>3. CASE Signal
  BY <1>3 DEF Signal, StopWorkers
<1>4. CASE Cancel
  BY <1>4 DEF Cancel, CancelWorkers
<1>5. CASE Stop \/ Crash
  <2>1. ProcessEnds
    BY <1>5 DEF Stop, Crash
  <2>2. StoreTypeOK' /\ QueueTypeOK' /\ RecordNamed' /\ RecoveryTypeOK'
    BY <2>1 DEF ProcessEnds
  <2>3. LockTypeOK'
    BY <2>1 DEF ProcessEnds, ResetWorkers, AbandonLocks
  <2>4. SubmissionTypeOK' /\ DraftTyped'
    BY <2>1 DEF ProcessEnds, DropRequests, AwaitPoint
  <2>5. WorkerTypeOK' /\ JobTyped'
    BY <2>1 DEF ProcessEnds, ResetWorkers, WorkerPc
  <2>6. proc' = "down" /\ starts' = starts
    BY <2>1 DEF ProcessEnds
  <2>7. QED
    BY <2>2, <2>3, <2>4, <2>5, <2>6
<1>6. CASE Retired
  BY <1>6 DEF Retired, vars
<1>7. CASE \E p \in Project : LockExpires(p)
  BY <1>7 DEF LockExpires, ExpireStale, ExpireAbandoned, Lapse
<1>8. QED
  BY <1>1, <1>2, <1>3, <1>4, <1>5, <1>6, <1>7

LEMMA NextTyped == Typed /\ [Next]_vars => Typed'
<1> SUFFICES ASSUME Typed, [Next]_vars PROVE Typed'
  OBVIOUS
<1>1. CASE UNCHANGED vars
  BY <1>1 DEF vars, Typed, TypeOK, StoreTypeOK, QueueTypeOK, LockTypeOK,
       SubmissionTypeOK, WorkerTypeOK, RecoveryTypeOK, DraftTyped, JobTyped,
       RecordNamed, storeVars, submissionVars, workerVars, recoveryVars, processVars
<1>2. QED
  BY <1>1, RequestTyped, WorkTyped, RecoverTyped, ProcessTyped DEF Next

\* Every variable keeps its type and no operation is applied to a local that
\* is not there, ...
LEMMA TypedAlways == Spec => []Typed
<1>1. Init => Typed
  BY InitTyped
<1>2. Typed /\ [Next]_vars => Typed'
  BY NextTyped
<1>3. QED
  BY <1>1, <1>2, PTL DEF Spec

\* ... so the type invariant holds for all sets of tasks, projects, workers
\* and clients: no Redis key, queue entry or local of a coroutine ever holds
\* anything but what the code declares for it. (all of Orchestrator)
THEOREM TypeCorrect == Spec => []TypeOK
<1>1. Typed => TypeOK
  BY DEF Typed
<1>2. QED
  BY <1>1, TypedAlways, PTL

-----------------------------------------------------------------------------
(***************************************************************************)
(* Recovery.  While the pass runs, nobody else touches the store or the    *)
(* queue; a task that is not terminal is ahead of the loop, in its hands,  *)
(* or in the queue.                                                        *)
(***************************************************************************)
InHand(t) == cur # None /\ cur.id = t
RecoveryCovers ==
    proc = "recovering" =>
        \A t \in TaskId : Active(t) => t \in todo \/ InHand(t) \/ Queued(t)

\* A task in the queue stays in it when another is pushed behind it.
LEMMA PushKeepsQueued ==
    ASSUME queue \in Seq(Task), NEW task \in Task, Enqueue(task), NEW t \in TaskId
    PROVE  (Queued(t) => Queued(t)') /\ Queued(task.id)'
<1>1. /\ Len(queue') = Len(queue) + 1
      /\ queue'[Len(queue) + 1] = task
      /\ \A i \in 1 .. Len(queue) : queue'[i] = queue[i]
  BY DEF Enqueue
<1>2. Len(queue) \in Nat
  OBVIOUS
<1>3. Queued(t) => Queued(t)'
  <2> SUFFICES ASSUME NEW i \in 1 .. Len(queue), queue[i].id = t PROVE Queued(t)'
    BY DEF Queued
  <2>1. i \in 1 .. Len(queue') /\ queue'[i].id = t
    BY <1>1, <1>2
  <2>2. QED
    BY <2>1 DEF Queued
<1>4. Queued(task.id)'
  <2>1. Len(queue) + 1 \in 1 .. Len(queue') /\ queue'[Len(queue) + 1].id = task.id
    BY <1>1, <1>2
  <2>2. QED
    BY <2>1 DEF Queued
<1>5. QED
  BY <1>3, <1>4

LEMMA RecoveryPass ==
    ASSUME Typed, RecoveryCovers, Recover
    PROVE  RecoveryCovers'
<1> USE Constants DEF ConstantAssumptions, Typed, TypeOK, StoreTypeOK, QueueTypeOK,
        RecoveryTypeOK, RecordNamed, processVars
<1>1. ASSUME NEW t \in TaskId, SkipTerminal(t), UNCHANGED processVars PROVE RecoveryCovers'
  <2>1. UNCHANGED <<record, queue, cur>> /\ todo' = todo \ {t} /\ ~Active(t)
    BY <1>1 DEF SkipTerminal, storeVars
  <2>2. QED
    BY <1>1, <2>1 DEF RecoveryCovers, Active, Exists, IsTerminal, InHand, Queued
<1>2. ASSUME NEW t \in TaskId, MarkInterrupted(t), UNCHANGED processVars PROVE RecoveryCovers'
  <2>1. /\ record[t] \in Task /\ record[t].id = t /\ record[t].status = "running"
        /\ todo' = todo \ {t} /\ queue' = queue /\ cur = None
        /\ cur' = Transition(record[t], "interrupted")
    BY <1>2 DEF MarkInterrupted, Exists
  <2>2. cur' \in Task /\ cur'.id = t
    BY <2>1, TransitionTyped DEF TaskStatus
  <2>3. \A s \in TaskId \ {t} : record'[s] = record[s]
    BY <1>2, <2>2 DEF MarkInterrupted, SetRecord
  <2>4. ASSUME NEW s \in TaskId, Active(s)', proc' = "recovering"
        PROVE  s \in todo' \/ InHand(s)' \/ Queued(s)'
    <3>1. CASE s = t
      BY <3>1, <2>2 DEF InHand
    <3>2. CASE s # t
      BY <3>2, <1>2, <2>1, <2>3, <2>4 DEF RecoveryCovers, Active, Exists, IsTerminal, InHand, Queued
    <3>3. QED
      BY <3>1, <3>2
  <2>5. QED
    BY <2>4 DEF RecoveryCovers
<1>3. ASSUME NEW t \in TaskId, PickUp(t), UNCHANGED processVars PROVE RecoveryCovers'
  <2>1. /\ UNCHANGED <<record, queue>> /\ todo' = todo \ {t} /\ cur = None
        /\ cur' # None /\ cur'.id = t
    BY <1>3 DEF PickUp, storeVars, Exists
  <2>2. QED
    BY <1>3, <2>1 DEF RecoveryCovers, Active, Exists, IsTerminal, InHand, Queued
<1>4. ASSUME EnqueueRecovered, UNCHANGED processVars PROVE RecoveryCovers'
  <2>1. PICK task \in Task : UNCHANGED <<record, todo>> /\ task = cur /\ Enqueue(task)
    BY <1>4 DEF EnqueueRecovered, storeVars
  <2>2. \A t \in TaskId : (Queued(t) => Queued(t)') /\ Queued(task.id)'
    BY <2>1, PushKeepsQueued
  <2>3. QED
    BY <1>4, <2>1, <2>2 DEF RecoveryCovers, Active, Exists, IsTerminal, InHand
<1>5. QED
  BY <1>1, <1>2, <1>3, <1>4 DEF Recover, RecoveryStep

LEMMA RecoveryCoversStep == Typed /\ RecoveryCovers /\ [Next]_vars => RecoveryCovers'
<1> SUFFICES ASSUME Typed, RecoveryCovers, [Next]_vars PROVE RecoveryCovers'
  OBVIOUS
<1>1. CASE Recover
  BY <1>1, RecoveryPass
<1>2. CASE Start
  BY <1>2 DEF Start, ScanKeys, RecoveryCovers, Active, Exists, storeVars
<1>3. CASE proc' # "recovering"
  BY <1>3 DEF RecoveryCovers
<1>4. CASE UNCHANGED <<record, queue, recoveryVars, proc>>
  BY <1>4 DEF RecoveryCovers, Active, Exists, IsTerminal, InHand, Queued, recoveryVars
<1>5. QED
  BY <1>1, <1>2, <1>3, <1>4
     DEF Next, Serve, Signal, Cancel, Stop, Crash, ProcessEnds, Retired, Request, Work,
         LockExpires, vars, storeVars, processVars

\* Whenever the workers and the API are started, every task that is not
\* terminal is in the queue: no crash point, of the recovery itself either,
\* and no content of the surviving Redis server leaves one out.
\* (recovery.py 18-90; main.py 87-94)
THEOREM RecoveryIsComplete == Spec => RecoveryComplete
<1> DEFINE Handover == proc = "recovering" /\ proc' = "up"
                          => \A t \in TaskId : Active(t) => Queued(t)
<1>1. Init => RecoveryCovers
  BY DEF Init, RecoveryCovers
<1>2. Typed /\ RecoveryCovers /\ [Next]_vars => RecoveryCovers'
  BY RecoveryCoversStep
<1>3. RecoveryCovers /\ [Next]_vars => [Handover]_vars
  <2> SUFFICES ASSUME RecoveryCovers, Next, proc = "recovering", proc' = "up"
               PROVE  \A t \in TaskId : Active(t) => Queued(t)
    BY DEF vars
  <2>1. Serve
    BY DEF Next, Start, Signal, Cancel, Stop, Crash, ProcessEnds, Retired, Recover,
       Request, Work, LockExpires, vars, processVars
  <2>2. QED
    BY <2>1 DEF Serve, RecoveryCovers, InHand
<1>4. QED
  BY <1>1, <1>2, <1>3, TypedAlways, PTL DEF Spec, RecoveryComplete
-----------------------------------------------------------------------------
(***************************************************************************)
(* The project lock: it is leaked only with its worker, never taken from   *)
(* its holder by anybody else, and it keeps engine runs of one project     *)
(* apart.                                                                  *)
(***************************************************************************)

\* What a step that does not touch the locks does to a worker inside its
\* critical section, and to one that is dead.
KeepsHolding(w) ==
    /\ Holding(w) => pc'[w] = "dead" \/ (Holding(w)' /\ job'[w].project = job[w].project)
    /\ pc[w] = "dead" => pc'[w] = "dead"

LEMMA QuietStep ==
    ASSUME Typed, LocksLeakOnlyByDeath, lock' = lock,
           \A w \in Workers : KeepsHolding(w)
    PROVE  LocksLeakOnlyByDeath'
BY DEF LocksLeakOnlyByDeath, KeepsHolding, Typed, TypeOK, LockTypeOK

\* The steps of a worker that leave the locks alone.
LEMMA WorkerKeepsHolding ==
    ASSUME Typed, NEW w \in Workers, Work(w), NEW v \in Workers
    PROVE  (KeepsHolding(v) /\ lock' = lock) \/ Release(w) \/ Acquire(w)
<1> USE DEF Typed, TypeOK, WorkerTypeOK, JobTyped, KeepsHolding, Holding
<1>1. CASE TakeTask(w) \/ LockBusy(w) \/ Requeue(w) \/ LeaveLoop(w)
  BY <1>1 DEF TakeTask, LockBusy, Requeue, LeaveLoop, Goto, WorkerPc
<1>2. CASE RejectTask(w) \/ StartRun(w) \/ ExhaustTask(w)
  BY <1>2, TransitionTyped DEF RejectTask, StartRun, ExhaustTask, Update, UpdateReturns, UpdateRaises, Goto, TaskStatus
<1>3. CASE \E status \in {"success", "failed"} : StreamEnds(w, status)
  BY <1>3, TransitionTyped DEF StreamEnds, UpdateReturns, UpdateRaises, Goto, TaskStatus
<1>4. CASE RetryTask(w)
  BY <1>4, TransitionTyped, RetryTyped DEF RetryTask, Update, UpdateReturns, UpdateRaises, Goto, TaskStatus
<1>5. CASE StreamRetriable(w) \/ EnqueueRetry(w) \/ RaiseInside(w)
  BY <1>5 DEF StreamRetriable, EnqueueRetry, RaiseInside, Goto
<1>6. CASE GiveUp(w)
  BY <1>6, TransitionTyped DEF GiveUp, Update, UpdateReturns, UpdateRaises, Goto, TaskStatus
<1>7. CASE \/ WriteRecord(w) \/ ClearDigest(w) \/ LoseWrite(w) \/ OrphanEnds(w)
           \/ WriteEcho(w) \/ ClearEcho(w) \/ LoseEcho(w)
  BY <1>7 DEF WriteRecord, ClearDigest, LoseWrite, OrphanEnds, WriteEcho, ClearEcho, LoseEcho
<1>8. CASE SuccessNotRecorded(w)
  BY <1>8, TransitionTyped
     DEF SuccessNotRecorded, Update, UpdateReturns, UpdateRaises, Goto, TaskStatus
<1>9. CASE RaiseOutside(w)
  BY <1>9 DEF RaiseOutside, Goto
<1>10. QED
  BY <1>1, <1>2, <1>3, <1>4, <1>5, <1>6, <1>7, <1>8, <1>9
     DEF Work, WorkerStep, StoreStep, InterruptStep, FailureStep, CancelInside, CancelOutside,
         CommandRaises, StreamTimesOut, CancelStream, Interrupt, PublishTimesOut

\* The steps that do change a lock.
LEMMA LockSteps ==
    ASSUME Typed, LocksLeakOnlyByDeath, NEW w \in Workers, Acquire(w) \/ Release(w)
    PROVE  LocksLeakOnlyByDeath'
<1> USE Constants DEF ConstantAssumptions, Typed, TypeOK, LockTypeOK, WorkerTypeOK,
        JobTyped, LocksLeakOnlyByDeath, Holding
<1>1. CASE Acquire(w)
  BY <1>1, TaskFields DEF Acquire, AcquireLock, Goto
<1>2. CASE Release(w)
  BY <1>2, TaskFields DEF Release, ReleaseLock, Goto
<1>3. QED
  BY <1>1, <1>2

LEMMA LeakStep == Typed /\ LocksLeakOnlyByDeath /\ [Next]_vars => LocksLeakOnlyByDeath'
<1> SUFFICES ASSUME Typed, LocksLeakOnlyByDeath, [Next]_vars PROVE LocksLeakOnlyByDeath'
  OBVIOUS
<1>1. ASSUME NEW w \in Workers, Work(w) PROVE LocksLeakOnlyByDeath'
  <2>1. CASE Acquire(w) \/ Release(w)
    BY <2>1, LockSteps
  <2>2. CASE ~(Acquire(w) \/ Release(w))
    BY <1>1, <2>2, WorkerKeepsHolding, QuietStep
  <2>3. QED
    BY <2>1, <2>2
<1>2. CASE Stop \/ Crash
  BY <1>2, Constants
     DEF Stop, Crash, ProcessEnds, ResetWorkers, AbandonLocks, LocksLeakOnlyByDeath,
         ConstantAssumptions, Typed, TypeOK, LockTypeOK
<1>3. ASSUME NEW p \in Project, LockExpires(p) PROVE LocksLeakOnlyByDeath'
  BY <1>3, Constants
     DEF LockExpires, ExpireStale, ExpireAbandoned, Lapse, LocksLeakOnlyByDeath, Holding,
         workerVars, ConstantAssumptions, Typed, TypeOK, LockTypeOK
<1>4. CASE \/ Start \/ Serve \/ Signal \/ Cancel \/ Retired \/ Recover
           \/ (\E c \in Clients : Request(c)) \/ UNCHANGED vars
  <2>1. lock' = lock /\ pc' = pc /\ job' = job
    BY <1>4 DEF Start, Serve, Signal, StopWorkers, Cancel, CancelWorkers, Retired,
       Recover, Request, vars, workerVars
  <2>2. QED
    BY <2>1, QuietStep DEF KeepsHolding, Holding
<1>5. QED
  BY <1>1, <1>2, <1>3, <1>4 DEF Next

LEMMA LeakInit == Init => LocksLeakOnlyByDeath
BY Constants DEF ConstantAssumptions, Init, LockInit, LocksLeakOnlyByDeath

\* A key that carries the token of a living worker is the key of the project
\* in whose critical section it is, on the raising and the cancelled paths of
\* _execute too; the keys left to their TTL are those of dead workers, at most
\* one for each. (worker.py 85-123)
THEOREM LeaksComeFromDeath == Spec => []LocksLeakOnlyByDeath
<1>1. Init => Typed /\ LocksLeakOnlyByDeath
  BY InitTyped, LeakInit
<1>2. (Typed /\ LocksLeakOnlyByDeath) /\ [Next]_vars => (Typed /\ LocksLeakOnlyByDeath)'
  BY NextTyped, LeakStep
<1>3. QED
  BY <1>1, <1>2, PTL DEF Spec

\* A lock changes hands by an act of its holder or by expiry, and a release
\* that comes too late, after the key has expired and been taken again, does
\* no harm to the new holder. (worker_locks.py 35-44)
THEOREM LocksFreedByHolders == Spec => LockFreedByHolder
<1> DEFINE Freed == \A p \in Project : lock[p] \in Workers /\ lock'[p] # lock[p]
                       => pc' = pc \/ pc'[lock[p]] # pc[lock[p]]
<1>1. Typed /\ LocksLeakOnlyByDeath /\ [Next]_vars => [Freed]_vars
  <2> SUFFICES ASSUME Typed, LocksLeakOnlyByDeath, [Next]_vars,
                      NEW p \in Project, lock[p] \in Workers, lock'[p] # lock[p],
                      pc' # pc
               PROVE  pc'[lock[p]] # pc[lock[p]]
    BY DEF vars
  <2> USE Constants DEF ConstantAssumptions, Typed, TypeOK, LockTypeOK, WorkerTypeOK,
          JobTyped
  <2>1. ASSUME NEW w \in Workers, Acquire(w) \/ Release(w)
        PROVE  pc'[lock[p]] # pc[lock[p]]
    <3>1. CASE Acquire(w)
      BY <3>1, TaskFields DEF Acquire, AcquireLock
    <3>2. CASE Release(w)
      BY <3>2, TaskFields DEF Release, ReleaseLock, Goto, LoopHead
    <3>3. QED
      BY <2>1, <3>1, <3>2
  <2>2. ASSUME NEW w \in Workers, Work(w)
        PROVE  pc'[lock[p]] # pc[lock[p]]
    BY <2>1, <2>2, WorkerKeepsHolding
  <2>3. CASE Stop \/ Crash
    BY <2>3 DEF Stop, Crash, ProcessEnds, ResetWorkers, LocksLeakOnlyByDeath, Holding
  <2>4. QED
    BY <2>2, <2>3
       DEF Next, Start, Serve, Signal, StopWorkers, Cancel, CancelWorkers, Retired, Recover,
         Request, LockExpires, workerVars, vars
<1>2. Spec => []Typed
  BY TypedAlways
<1>3. Spec => []LocksLeakOnlyByDeath
  BY LeaksComeFromDeath
<1>4. QED
  BY <1>1, <1>2, <1>3, PTL DEF Spec, LockFreedByHolder

-----------------------------------------------------------------------------
(***************************************************************************)
(* Exclusion of engine runs, for a lock that does not lapse under a live   *)
(* holder and streams that are not cut off by a timeout.  Holding the lock *)
(* is not enough: a shutdown cancels the await on the engine while its     *)
(* thread goes on, and the lock is released.  What saves the property is   *)
(* that all workers are cancelled in one go, so that nobody can start an   *)
(* engine once a thread has been orphaned.                                 *)
(***************************************************************************)
HoldersOwnLocks == \A w \in Workers : Holding(w) => lock[job[w].project] = w

NothingStartsAfterCancel ==
    \A w \in Workers :
        /\ cancel[w] => shutdown = "cancel"
        /\ shutdown = "cancel" /\ ~cancel[w] => pc[w] \in {"release", "dead"}

OrphansComeFromCancel ==
    \A w \in Workers : orphan[w] =>
        shutdown = "cancel" /\ dying[w] /\ pc[w] \in {"release", "dead"} /\ job[w] \in Task

Occupies(w) == pc[w] = "stream" \/ orphan[w]

EnginesApart ==
    \A v, w \in Workers :
        v # w /\ Occupies(v) /\ Occupies(w) => job[v].project # job[w].project

Exclusion == HoldersOwnLocks /\ NothingStartsAfterCancel /\ OrphansComeFromCancel /\ EnginesApart

\* What an update() does to the state of the exclusion, whether it returns or
\* raises.
Shifts(w, task, point) ==
    /\ job' = [job EXCEPT ![w] = task]
    /\ pc' = [pc EXCEPT ![w] = point]
    /\ \A v \in Workers \ {w} : dying'[v] = dying[v]
    /\ UNCHANGED <<lock, orphan, shutdown, cancel>>

LEMMA UpdateShifts ==
    ASSUME Typed, NEW w \in Workers, NEW task \in Task, NEW point, NEW dies,
           Update(w, task, point, dies), UNCHANGED <<lock, orphan, shutdown, cancel>>
    PROVE  \E q \in {point, "release"} : Shifts(w, task, q)
<1> USE DEF Typed, TypeOK, WorkerTypeOK
<1>1. CASE UpdateReturns(w, task, point, dies)
  <2>1. Shifts(w, task, point)
    BY <1>1 DEF UpdateReturns, Goto, Shifts
  <2>2. QED
    BY <2>1
<1>2. CASE UpdateRaises(w, task)
  <2>1. Shifts(w, task, "release")
    BY <1>2 DEF UpdateRaises, Goto, Shifts
  <2>2. QED
    BY <2>1
<1>3. QED
  BY <1>1, <1>2 DEF Update

LEMMA ExclusionShifts ==
    ASSUME Typed, Exclusion, NEW w \in Workers, NEW task \in Task, task.project = job[w].project,
           NEW q \in {"stream", "enqueue", "release"}, Shifts(w, task, q),
           pc[w] \in {"execute", "stream", "retry"}, ~cancel[w]
    PROVE  Exclusion'
<1> USE DEF Typed, TypeOK, WorkerTypeOK, Exclusion, Shifts
<1>1. shutdown # "cancel" /\ \A v \in Workers : ~orphan[v] /\ ~cancel[v]
  BY DEF NothingStartsAfterCancel, OrphansComeFromCancel
<1>2. HoldersOwnLocks'
  BY DEF HoldersOwnLocks, Holding
<1>3. NothingStartsAfterCancel' /\ OrphansComeFromCancel'
  BY <1>1 DEF NothingStartsAfterCancel, OrphansComeFromCancel
<1>4. EnginesApart'
  BY <1>1, <1>2 DEF EnginesApart, Occupies, HoldersOwnLocks, Holding
<1>5. QED
  BY <1>2, <1>3, <1>4

LEMMA ExclusionUpdates ==
    ASSUME Typed, Exclusion, NEW w \in Workers,
           StartRun(w) \/ RejectTask(w) \/ RetryTask(w) \/ ExhaustTask(w) \/ SuccessNotRecorded(w)
    PROVE  Exclusion'
<1>1. CASE StartRun(w)
  <2> DEFINE task == Transition(job[w], "running")
  <2>1. /\ pc[w] \in {"execute", "stream", "retry"} /\ job[w] \in Task /\ ~cancel[w]
        /\ Update(w, task, "stream", FALSE) /\ UNCHANGED <<lock, orphan, shutdown, cancel>>
    BY <1>1 DEF StartRun, Resumes, Typed, JobTyped
  <2>2. task \in Task /\ task.project = job[w].project
    BY <2>1, TransitionTyped, TaskFields DEF TaskStatus
  <2> HIDE DEF task
  <2>3. QED
    BY <2>1, <2>2, UpdateShifts, ExclusionShifts
<1>2. CASE RejectTask(w)
  <2> DEFINE task == Transition(job[w], "failed")
  <2>1. /\ pc[w] \in {"execute", "stream", "retry"} /\ job[w] \in Task /\ ~cancel[w]
        /\ Update(w, task, "release", FALSE) /\ UNCHANGED <<lock, orphan, shutdown, cancel>>
    BY <1>2 DEF RejectTask, Resumes, Typed, JobTyped
  <2>2. task \in Task /\ task.project = job[w].project
    BY <2>1, TransitionTyped, TaskFields DEF TaskStatus
  <2> HIDE DEF task
  <2>3. QED
    BY <2>1, <2>2, UpdateShifts, ExclusionShifts
<1>3. CASE RetryTask(w)
  <2> DEFINE task == Transition(CountRetry(job[w]), "interrupted")
  <2>1. /\ pc[w] \in {"execute", "stream", "retry"} /\ job[w] \in Task /\ ~cancel[w]
        /\ Update(w, task, "enqueue", FALSE) /\ UNCHANGED <<lock, orphan, shutdown, cancel>>
    BY <1>3 DEF RetryTask, Resumes, Typed, JobTyped
  <2>2. task \in Task /\ task.project = job[w].project
    BY <2>1, TransitionTyped, RetryTyped, TaskFields DEF TaskStatus
  <2> HIDE DEF task
  <2>3. QED
    BY <2>1, <2>2, UpdateShifts, ExclusionShifts
<1>4. CASE SuccessNotRecorded(w)
  <2> DEFINE task == Transition(job[w], "failed")
  <2>1. /\ pc[w] \in {"execute", "stream", "retry"} /\ job[w] \in Task /\ ~cancel[w]
        /\ Update(w, task, "release", FALSE) /\ UNCHANGED <<lock, orphan, shutdown, cancel>>
    BY <1>4 DEF SuccessNotRecorded, Resumes, Typed, JobTyped
  <2>2. task \in Task /\ task.project = job[w].project
    BY <2>1, TransitionTyped, TaskFields DEF TaskStatus
  <2> HIDE DEF task
  <2>3. QED
    BY <2>1, <2>2, UpdateShifts, ExclusionShifts
<1>5. CASE ExhaustTask(w)
  <2> DEFINE task == Transition(job[w], "failed")
  <2>1. /\ pc[w] \in {"execute", "stream", "retry"} /\ job[w] \in Task /\ ~cancel[w]
        /\ Update(w, task, "release", FALSE) /\ UNCHANGED <<lock, orphan, shutdown, cancel>>
    BY <1>5 DEF ExhaustTask, Resumes, Typed, JobTyped
  <2>2. task \in Task /\ task.project = job[w].project
    BY <2>1, TransitionTyped, TaskFields DEF TaskStatus
  <2> HIDE DEF task
  <2>3. QED
    BY <2>1, <2>2, UpdateShifts, ExclusionShifts
<1>6. QED
  BY <1>1, <1>2, <1>3, <1>4, <1>5

LEMMA ExclusionWork ==
    ASSUME ~LockMayLapse, ~StreamTimeouts, Typed, Exclusion, NEW w \in Workers, Work(w)
    PROVE  Exclusion'
<1> USE Constants DEF ConstantAssumptions, Typed, TypeOK, LockTypeOK, WorkerTypeOK, JobTyped,
        Exclusion, HoldersOwnLocks, NothingStartsAfterCancel, OrphansComeFromCancel,
        EnginesApart, Occupies, Holding
<1>1. CASE TakeTask(w)
  BY <1>1 DEF TakeTask, Goto, TaskStatus, WorkerPc
<1>2. CASE Acquire(w)
  BY <1>2, TaskFields DEF Acquire, AcquireLock, Goto, TaskStatus, WorkerPc
<1>3. CASE LockBusy(w) \/ Requeue(w) \/ LeaveLoop(w)
  BY <1>3 DEF LockBusy, Requeue, LeaveLoop, LoopHead, Stopping, Goto, TaskStatus, WorkerPc
<1>4. CASE StartRun(w) \/ RejectTask(w) \/ RetryTask(w) \/ ExhaustTask(w) \/ SuccessNotRecorded(w)
  BY <1>4, ExclusionUpdates
<1>5. CASE \E status \in {"success", "failed"} : StreamEnds(w, status)
  BY <1>5, TransitionTyped DEF StreamEnds, UpdateReturns, UpdateRaises, Goto, TaskStatus, WorkerPc
<1>6. CASE StreamRetriable(w) \/ EnqueueRetry(w)
  BY <1>6 DEF StreamRetriable, EnqueueRetry, Resumes, Goto, TaskStatus, WorkerPc
<1>7. CASE Release(w)
  BY <1>7, TaskFields DEF Release, ReleaseLock, LoopHead, Stopping, Goto, TaskStatus, WorkerPc
<1>8. CASE WriteRecord(w) \/ ClearDigest(w) \/ OrphanEnds(w)
  BY <1>8 DEF WriteRecord, ClearDigest, OrphanEnds, Goto, TaskStatus, WorkerPc
<1>9. CASE CancelStream(w)
  BY <1>9, TransitionTyped DEF CancelStream, Interrupt, GiveUp, Delivered, Update, UpdateReturns, UpdateRaises, Goto, TaskStatus, WorkerPc
<1>10. CASE CancelInside(w)
  BY <1>10 DEF CancelInside, RaiseInside, Delivered, Goto, TaskStatus, WorkerPc
<1>11. CASE CancelOutside(w)
  BY <1>11, TaskFields DEF CancelOutside, RaiseOutside, Delivered, Goto, TaskStatus, WorkerPc
<1>12. CASE LoseWrite(w) \/ WriteEcho(w) \/ ClearEcho(w) \/ LoseEcho(w)
  BY <1>12 DEF LoseWrite, WriteEcho, ClearEcho, LoseEcho
<1>13. CASE CommandRaises(w) /\ RaiseInside(w)
  BY <1>13 DEF CommandRaises, RaiseInside, Goto, WorkerPc
<1>14. CASE CommandRaises(w) /\ RaiseOutside(w)
  BY <1>14, TaskFields DEF CommandRaises, RaiseOutside, Goto, WorkerPc
<1>15. CASE PublishTimesOut(w)
  BY <1>15, TransitionTyped
     DEF PublishTimesOut, GiveUp, Update, UpdateReturns, UpdateRaises, Goto, TaskStatus, WorkerPc
<1>16. QED
  BY <1>1, <1>2, <1>3, <1>4, <1>5, <1>6, <1>7, <1>8, <1>9, <1>10,
     <1>11, <1>12, <1>13, <1>14, <1>15
     DEF Work, WorkerStep, StoreStep, InterruptStep, FailureStep, CommandRaises, StreamTimesOut

LEMMA ExclusionStep ==
    ASSUME ~LockMayLapse, ~StreamTimeouts, Typed, Exclusion, [Next]_vars
    PROVE  Exclusion'
<1> USE Constants DEF ConstantAssumptions, Typed, TypeOK, LockTypeOK, WorkerTypeOK, JobTyped,
        Exclusion, HoldersOwnLocks, NothingStartsAfterCancel, OrphansComeFromCancel,
        EnginesApart, Occupies, Holding
<1>1. CASE \E w \in Workers : Work(w)
  BY <1>1, ExclusionWork
<1>2. CASE Stop \/ Crash
  BY <1>2 DEF Stop, Crash, ProcessEnds, ResetWorkers
<1>3. CASE \E p \in Project : LockExpires(p)
  BY <1>3, TaskFields DEF LockExpires, ExpireStale, ExpireAbandoned, Lapse, workerVars
<1>4. CASE Signal
  BY <1>4 DEF Signal, StopWorkers
<1>5. CASE Cancel
  BY <1>5 DEF Cancel, CancelWorkers
<1>6. CASE \/ Start \/ Serve \/ Retired \/ Recover
           \/ (\E c \in Clients : Request(c)) \/ UNCHANGED vars
  <2>1. UNCHANGED <<lock, workerVars>>
    BY <1>6 DEF Start, Serve, Retired, Recover, Request, vars
  <2>2. QED
    BY <2>1 DEF workerVars
<1>7. QED
  BY <1>1, <1>2, <1>3, <1>4, <1>5, <1>6 DEF Next

LEMMA ExclusionInit == Init => Exclusion
BY Constants DEF ConstantAssumptions, Init, LockInit, WorkerInit, Exclusion,
   HoldersOwnLocks, NothingStartsAfterCancel, OrphansComeFromCancel, EnginesApart,
   Occupies, Holding

\* The engines of one project never run in two threads, whatever the number
\* of workers, through crashes, cancelled shutdowns and restarts. (worker.py
\* 85-123, 239-254; main.py 51-61)
THEOREM EnginesExclude ==
    ASSUME ~LockMayLapse, ~StreamTimeouts
    PROVE  Spec => []EngineExclusive
<1>1. Init => Typed /\ Exclusion
  BY InitTyped, ExclusionInit
<1>2. (Typed /\ Exclusion) /\ [Next]_vars => (Typed /\ Exclusion)'
  BY NextTyped, ExclusionStep
<1>3. Typed /\ Exclusion => EngineExclusive
  BY DEF Exclusion, EnginesApart, EngineExclusive, Occupies, EngineRuns
<1>4. QED
  BY <1>1, <1>2, <1>3, PTL DEF Spec
=============================================================================
