----------------------------- MODULE CopyProofs -----------------------------
(***************************************************************************)
(* One copy of every task: as long as no second start adds entries to a    *)
(* queue that has survived, a task is in one queue entry, or with one      *)
(* worker, or with one handler.  This does not depend on the bridge, on    *)
(* Redis answering, or on the locks.                                       *)
(***************************************************************************)
EXTENDS OrchestratorProofs, FiniteSetTheorems

(***************************************************************************)
(* What a worker can still do with its object.  An orphaned thread or a    *)
(* write nobody waits for is left only by a worker on its way out of       *)
(* run(), and a worker that is waiting for a task has none.                *)
(***************************************************************************)
LifeOf(w) ==
    /\ orphan[w] \/ write[w] \in {"late_set", "late_del"} => dying[w]
    /\ dying[w] => pc[w] \in {"release", "dead"}
    /\ pc[w] = "idle" => job[w] = None
    /\ write[w] # "none" => job[w] \in Task /\ pc[w] \in {"stream", "enqueue", "release", "dead"}
Life == \A w \in Workers : LifeOf(w)

LEMMA LifeInit == Init => Life
BY DEF Init, WorkerInit, Life, LifeOf

\* A worker that reports on its task, by an update() that returns or raises.
LEMMA LifeUpdate ==
    ASSUME Typed, Life, NEW w \in Workers, NEW task \in Task, NEW dies \in BOOLEAN,
           NEW point \in {"stream", "enqueue", "release"}, Update(w, task, point, dies),
           pc[w] \in {"execute", "stream", "retry"}, dies => point = "release",
           \A v \in Workers \ {w} : orphan'[v] = orphan[v],
           orphan'[w] => dies \/ orphan[w]
    PROVE  Life'
<1> USE DEF Typed, TypeOK, WorkerTypeOK, Life, LifeOf
<1>1. CASE UpdateReturns(w, task, point, dies)
  BY <1>1 DEF UpdateReturns, Goto
<1>2. CASE UpdateRaises(w, task)
  BY <1>2 DEF UpdateRaises, Goto
<1>3. QED
  BY <1>1, <1>2 DEF Update

LEMMA LifeWork ==
    ASSUME Typed, Life, NEW w \in Workers, Work(w)
    PROVE  Life'
<1> USE DEF Typed, TypeOK, WorkerTypeOK, JobTyped
<1>1. CASE TakeTask(w) \/ Acquire(w) \/ LockBusy(w) \/ LeaveLoop(w)
  BY <1>1 DEF TakeTask, Acquire, LockBusy, LeaveLoop, Goto, Life, LifeOf
<1>2. CASE StreamRetriable(w) \/ EnqueueRetry(w) \/ RaiseInside(w)
  BY <1>2 DEF StreamRetriable, EnqueueRetry, RaiseInside, Resumes, Settled, Goto, Life, LifeOf
<1>3. CASE Requeue(w)
  BY <1>3 DEF Requeue, LoopHead, Goto, Life, LifeOf
<1>4. CASE Release(w)
  BY <1>4 DEF Release, LoopHead, Settled, Goto, Life, LifeOf
<1>5. CASE RaiseOutside(w)
  BY <1>5 DEF RaiseOutside, Goto, Life, LifeOf
<1>6. CASE WriteRecord(w) \/ ClearDigest(w) \/ LoseWrite(w) \/ OrphanEnds(w)
  BY <1>6 DEF WriteRecord, ClearDigest, SetsRecord, DeletesDigest, LoseWrite, OrphanEnds, Life, LifeOf
<1>7. CASE RejectTask(w) \/ StartRun(w) \/ ExhaustTask(w)
  BY <1>7, TransitionTyped, LifeUpdate DEF RejectTask, StartRun, ExhaustTask, TaskStatus
<1>8. CASE RetryTask(w)
  <2>1. Transition(CountRetry(job[w]), "interrupted") \in Task
    BY <1>8, TransitionTyped, RetryTyped DEF RetryTask, TaskStatus
  <2>2. QED
    BY <1>8, <2>1, LifeUpdate DEF RetryTask
<1>9. ASSUME NEW s \in {"success", "failed"}, StreamEnds(w, s) PROVE Life'
  <2>1. Transition(job[w], s) \in Task
    BY <1>9, TransitionTyped DEF StreamEnds, TaskStatus
  <2>2. QED
    BY <1>9, <2>1, LifeUpdate DEF StreamEnds, Update
<1>10. CASE SuccessNotRecorded(w)
  BY <1>10, TransitionTyped, LifeUpdate DEF SuccessNotRecorded, TaskStatus
<1>11. CASE Interrupt(w) \/ PublishTimesOut(w)
  <2>1. Transition(job[w], "interrupted") \in Task
    BY <1>11, TransitionTyped DEF Interrupt, PublishTimesOut, GiveUp, TaskStatus
  <2>2. QED
    BY <1>11, <2>1, LifeUpdate DEF Interrupt, PublishTimesOut, GiveUp
<1>12. CASE WriteEcho(w) \/ ClearEcho(w) \/ LoseEcho(w)
  BY <1>12 DEF WriteEcho, ClearEcho, LoseEcho, Life, LifeOf
<1>13. QED
  BY <1>1, <1>2, <1>3, <1>4, <1>5, <1>6, <1>7, <1>8, <1>9, <1>10, <1>11, <1>12
     DEF Work, WorkerStep, StoreStep, InterruptStep, FailureStep, StreamTimesOut, CancelStream,
         CancelInside, CancelOutside, CommandRaises

LEMMA LifeStep == Typed /\ Life /\ [Next]_vars => Life'
<1> SUFFICES ASSUME Typed, Life, [Next]_vars PROVE Life'
  OBVIOUS
<1>1. CASE Stop \/ Crash
  BY <1>1 DEF Stop, Crash, ProcessEnds, ResetWorkers, Life, LifeOf
<1>2. CASE UNCHANGED <<pc, job, write, dying, orphan>>
  BY <1>2 DEF Life, LifeOf
<1>3. QED
  BY <1>1, <1>2, LifeWork
     DEF Next, Start, Serve, Signal, Cancel, StopWorkers, CancelWorkers, Retired, Recover, Request,
         LockExpires, vars, workerVars

-----------------------------------------------------------------------------
(***************************************************************************)
(* Copies.  A task is on its way through the system in one place: in one   *)
(* queue entry, or in the hands of one worker that may still put it back   *)
(* or has a write of it outstanding, or with the handler that creates it.  *)
(***************************************************************************)
Engaged(w) == pc[w] \notin {"release", "dead"} \/ write[w] # "none"
InHands(w, t) == job[w] # None /\ job[w].id = t /\ Engaged(w)

EntriesDiffer == \A i, j \in 1 .. Len(queue) : queue[i].id = queue[j].id => i = j
QueuedApart ==
    \A t \in TaskId : Queued(t) => Exists(t) /\ \A w \in Workers : ~InHands(w, t)
HandsDiffer == \A t \in TaskId : \A v, w \in Workers : InHands(v, t) /\ InHands(w, t) => v = w
JobsStored == \A w \in Workers : job[w] # None => Exists(job[w].id)
DraftsApart ==
    \A c \in Clients : draft[c] # None =>
        /\ ~Queued(draft[c].id)
        /\ \A w \in Workers : job[w] # None => job[w].id # draft[c].id
        /\ \A d \in Clients : draft[d] # None /\ draft[d].id = draft[c].id => d = c
DraftsStored == \A c \in Clients : at[c] \in {"member", "index", "push"} => Exists(draft[c].id)

\* The first start finds nothing to recover.
FirstStart ==
    /\ starts = 0 => proc = "down"
    /\ starts = 0 \/ proc = "recovering" =>
         todo = {} /\ cur = None /\ \A t \in TaskId : ~Exists(t)

Apart ==
    /\ EntriesDiffer /\ QueuedApart /\ HandsDiffer /\ JobsStored
    /\ DraftsApart /\ DraftsStored
Copies == Apart /\ FirstStart

LEMMA CopiesInit == Init => Copies
BY DEF Init, StoreInit, QueueInit, SubmissionInit, WorkerInit, RecoveryInit, Copies, Apart,
   EntriesDiffer, QueuedApart, HandsDiffer, JobsStored, DraftsApart, DraftsStored, FirstStart,
   Queued, InHands, Exists

\* With a single start, no step of the recovery pass is ever taken.
LEMMA FirstStartStep ==
    ASSUME MaxStarts = 1, Typed, FirstStart, [Next]_vars
    PROVE  FirstStart'
<1> USE DEF FirstStart, Typed, TypeOK
<1>1. CASE Start
  BY <1>1 DEF Start, ScanKeys, storeVars, Exists
<1>2. CASE Serve
  BY <1>2 DEF Serve
<1>3. CASE Recover
  BY <1>3 DEF Recover, RecoveryStep, SkipTerminal, MarkInterrupted, PickUp, EnqueueRecovered
<1>4. CASE proc = "up" /\ UNCHANGED processVars
  BY <1>4 DEF processVars
<1>5. CASE Stop \/ Crash
  BY <1>5 DEF Stop, Crash, ProcessEnds
<1>6. CASE UNCHANGED <<record, todo, cur, proc, starts>>
  BY <1>6 DEF Exists
<1>7. QED
  BY <1>1, <1>2, <1>3, <1>4, <1>5, <1>6
     DEF Next, Signal, Cancel, Retired, Request, Work, LockExpires, vars, storeVars, recoveryVars, processVars

\* No worker has, after a step, a task that it did not have before.
NoNewJob ==
    \A w \in Workers : job'[w] # None =>
        job[w] # None /\ job'[w].id = job[w].id /\ (Engaged(w)' => Engaged(w))
NoNewDraft ==
    \A c \in Clients :
        /\ draft'[c] \in {draft[c], None}
        /\ at'[c] \in {"member", "index", "push"} =>
             at[c] \in {"member", "index", "push"} /\ draft'[c] = draft[c]
RecordsKept == \A t \in TaskId : Exists(t) => Exists(t)'

LEMMA ShrinkStep ==
    ASSUME Typed, Apart, NoNewJob, NoNewDraft, RecordsKept, UNCHANGED queue
    PROVE  Apart'
<1> USE DEF Typed, TypeOK, WorkerTypeOK, SubmissionTypeOK, NoNewJob, NoNewDraft, RecordsKept, Apart
<1>1. /\ \A w \in Workers : job[w] # None => job[w].id \in TaskId
      /\ \A c \in Clients : draft[c] # None => draft[c].id \in TaskId
  BY TaskFields
<1>2. \A t \in TaskId : Queued(t)' <=> Queued(t)
  BY DEF Queued
<1>3. EntriesDiffer'
  BY DEF EntriesDiffer
<1>4. QueuedApart' /\ HandsDiffer'
  BY <1>2 DEF QueuedApart, HandsDiffer, InHands
<1>5. JobsStored'
  BY <1>1 DEF JobsStored
<1>6. DraftsApart'
  BY <1>1, <1>2 DEF DraftsApart
<1>7. DraftsStored'
  BY <1>1, Constants DEF DraftsStored, DraftTyped, ConstantAssumptions
<1>8. QED
  BY <1>3, <1>4, <1>5, <1>6, <1>7

\* A task that nobody keeps enters the queue.
LEMMA PushStep ==
    ASSUME Typed, Apart, NoNewJob, NoNewDraft, UNCHANGED record,
           NEW task \in Task, Enqueue(task), ~Queued(task.id), Exists(task.id),
           \A w \in Workers : ~InHands(w, task.id)',
           \A c \in Clients : draft'[c] # None => draft[c].id # task.id
    PROVE  Apart'
<1> USE DEF Typed, TypeOK, WorkerTypeOK, SubmissionTypeOK, NoNewJob, NoNewDraft, Apart
<1>1. /\ \A w \in Workers : job[w] # None => job[w].id \in TaskId
      /\ \A c \in Clients : draft[c] # None => draft[c].id \in TaskId
      /\ task.id \in TaskId
  BY TaskFields
<1>2. /\ Len(queue') = Len(queue) + 1 /\ Len(queue) \in Nat
      /\ queue'[Len(queue) + 1] = task
      /\ \A i \in 1 .. Len(queue) : queue'[i] = queue[i]
  BY DEF Enqueue, QueueTypeOK
<1>3. \A i \in 1 .. Len(queue') : i \in 1 .. Len(queue) \/ i = Len(queue) + 1
  BY <1>2
<1>4. \A t \in TaskId : Queued(t)' => Queued(t) \/ t = task.id
  BY <1>2, <1>3 DEF Queued
<1>5. EntriesDiffer'
  <2> SUFFICES ASSUME NEW i \in 1 .. Len(queue'), NEW j \in 1 .. Len(queue'), queue'[i].id = queue'[j].id
               PROVE  i = j
    BY DEF EntriesDiffer
  <2>1. \A k \in 1 .. Len(queue) : queue[k].id # task.id
    BY DEF Queued
  <2>2. QED
    BY <1>2, <1>3, <2>1 DEF EntriesDiffer
<1>6. \A t \in TaskId : Exists(t)' <=> Exists(t)
  BY DEF Exists
<1>7. QueuedApart'
  BY <1>4, <1>6 DEF QueuedApart, InHands
<1>8. HandsDiffer'
  BY DEF HandsDiffer, InHands
<1>9. JobsStored'
  BY <1>1, <1>6 DEF JobsStored
<1>10. DraftsApart'
  BY <1>1, <1>4 DEF DraftsApart
<1>11. DraftsStored'
  BY <1>1, <1>6, Constants DEF DraftsStored, DraftTyped, ConstantAssumptions
<1>12. QED
  BY <1>5, <1>7, <1>8, <1>9, <1>10, <1>11

\* A worker receives the oldest entry.
LEMMA TakeStep ==
    ASSUME Typed, Apart, NEW w \in Workers, TakeTask(w), UNCHANGED submissionVars
    PROVE  Apart'
<1> USE DEF Typed, TypeOK, WorkerTypeOK, SubmissionTypeOK, Apart, submissionVars, storeVars
<1> DEFINE h == Head(queue).id
<1>1. /\ \A v \in Workers : job[v] # None => job[v].id \in TaskId
      /\ \A c \in Clients : draft[c] # None => draft[c].id \in TaskId
  BY TaskFields
<1>2. queue # <<>> /\ queue \in Seq(Task) /\ queue' = Tail(queue) /\ Head(queue) \in Task /\ h \in TaskId
  BY TaskFields DEF TakeTask, Dequeue, QueueTypeOK
<1>3. /\ Len(queue) \in Nat /\ Len(queue) >= 1 /\ Len(queue') = Len(queue) - 1
      /\ Head(queue) = queue[1]
      /\ \A i \in 1 .. Len(queue') : queue'[i] = queue[i + 1] /\ i + 1 \in 2 .. Len(queue)
  BY <1>2
<1>4. Queued(h)
  BY <1>3 DEF Queued
<1>5. \A t \in TaskId : Queued(t)' => Queued(t) /\ t # h
  <2> SUFFICES ASSUME NEW i \in 1 .. Len(queue') PROVE Queued(queue'[i].id) /\ queue'[i].id # h
    BY DEF Queued
  <2>1. queue'[i] = queue[i + 1] /\ i + 1 \in 1 .. Len(queue) /\ i + 1 # 1
    BY <1>3
  <2>2. queue[i + 1].id # queue[1].id /\ 1 \in 1 .. Len(queue)
    BY <1>3, <2>1 DEF EntriesDiffer
  <2>3. QED
    BY <1>3, <2>1, <2>2 DEF Queued
<1>6. /\ job'[w].id = h
      /\ \A v \in Workers \ {w} : job'[v] = job[v] /\ (Engaged(v)' <=> Engaged(v))
  BY DEF TakeTask, Goto, Engaged
<1>7. \A t \in TaskId : Exists(t)' <=> Exists(t)
  BY DEF TakeTask, Exists
<1>8. EntriesDiffer'
  BY <1>3 DEF EntriesDiffer
<1>9. QueuedApart'
  BY <1>5, <1>6, <1>7 DEF QueuedApart, InHands
<1>10. HandsDiffer'
  BY <1>2, <1>4, <1>6 DEF HandsDiffer, QueuedApart, InHands
<1>11. JobsStored'
  BY <1>1, <1>2, <1>4, <1>6, <1>7 DEF JobsStored, QueuedApart
<1>12. DraftsApart'
  BY <1>1, <1>2, <1>4, <1>5, <1>6 DEF DraftsApart
<1>13. DraftsStored'
  BY <1>1, <1>7, Constants DEF DraftsStored, DraftTyped, ConstantAssumptions
<1>14. QED
  BY <1>8, <1>9, <1>10, <1>11, <1>12, <1>13

\* A worker reports on the task it has.
LEMMA ReportKeeps ==
    ASSUME Typed, NEW w \in Workers, NEW task \in Task, NEW point, NEW dies,
           Update(w, task, point, dies), job[w] \in Task, task.id = job[w].id,
           pc[w] \in {"execute", "stream", "retry"}
    PROVE  NoNewJob
BY Constants DEF Typed, TypeOK, WorkerTypeOK, ConstantAssumptions, Update, UpdateReturns, UpdateRaises, Goto,
   NoNewJob, Engaged

\* Storing a record removes none.
LEMMA StoreKeeps ==
    ASSUME Typed, NEW task \in Task, SetRecord(task) \/ UNCHANGED record
    PROVE  RecordsKept
BY Constants, TaskFields DEF Typed, TypeOK, StoreTypeOK, ConstantAssumptions, SetRecord, RecordsKept, Exists

LEMMA CopiesWork ==
    ASSUME Typed, Life, Apart, NEW w \in Workers, Work(w)
    PROVE  Apart'
<1> USE DEF Typed, TypeOK, WorkerTypeOK, JobTyped, storeVars
<1>1. UNCHANGED submissionVars /\ NoNewDraft
  BY DEF Work, submissionVars, NoNewDraft
<1>2. UNCHANGED record => RecordsKept
  BY DEF RecordsKept, Exists
<1>3. CASE TakeTask(w)
  BY <1>1, <1>3, TakeStep
<1>4. CASE Acquire(w) \/ LockBusy(w) \/ LeaveLoop(w) \/ StreamRetriable(w) \/ RaiseInside(w)
  <2>1. NoNewJob
    BY <1>4 DEF Acquire, LockBusy, LeaveLoop, StreamRetriable, RaiseInside, Goto, NoNewJob, Engaged
  <2>2. UNCHANGED <<record, queue>>
    BY <1>4 DEF Acquire, LockBusy, LeaveLoop, StreamRetriable, RaiseInside
  <2>3. QED
    BY <1>1, <1>2, <2>1, <2>2, ShrinkStep
<1>5. CASE Release(w) \/ RaiseOutside(w)
  <2>1. /\ job'[w] # None => job'[w] = job[w] /\ pc'[w] = "dead"
        /\ UNCHANGED write /\ \A v \in Workers \ {w} : job'[v] = job[v] /\ pc'[v] = pc[v]
    BY <1>5 DEF Release, RaiseOutside, LoopHead, Goto
  <2>2. NoNewJob
    BY <2>1 DEF NoNewJob, Engaged
  <2>3. UNCHANGED <<record, queue>>
    BY <1>5 DEF Release, RaiseOutside
  <2>4. QED
    BY <1>1, <1>2, <2>2, <2>3, ShrinkStep
<1>6. CASE ClearDigest(w) \/ LoseWrite(w) \/ OrphanEnds(w) \/ ClearEcho(w) \/ LoseEcho(w)
  <2>1. NoNewJob
    BY <1>6 DEF ClearDigest, LoseWrite, OrphanEnds, ClearEcho, LoseEcho, NoNewJob, Engaged
  <2>2. UNCHANGED <<record, queue>>
    BY <1>6 DEF ClearDigest, LoseWrite, OrphanEnds, ClearEcho, LoseEcho
  <2>3. QED
    BY <1>1, <1>2, <2>1, <2>2, ShrinkStep
<1>7. CASE WriteRecord(w)
  <2>1. NoNewJob /\ UNCHANGED queue
    BY <1>7 DEF WriteRecord, NoNewJob, Engaged, SetsRecord
  <2>2. job[w] \in Task
    BY <1>7 DEF WriteRecord, SetsRecord, Life, LifeOf
  <2>3. RecordsKept
    BY <1>7, <2>2, StoreKeeps DEF WriteRecord
  <2>4. QED
    BY <1>1, <2>1, <2>3, ShrinkStep
<1>8. CASE Requeue(w) \/ EnqueueRetry(w)
  <2>0. PICK task \in Task : task = job[w]
    BY <1>8 DEF Requeue, EnqueueRetry
  <2>1. /\ Enqueue(task) /\ UNCHANGED record
        /\ job[w] # None /\ InHands(w, task.id) /\ task.id \in TaskId
    BY <1>8, <2>0, TaskFields, Constants DEF Requeue, EnqueueRetry, InHands, Engaged, ConstantAssumptions
  <2>2. NoNewJob /\ \A v \in Workers \ {w} : job'[v] = job[v] /\ (Engaged(v)' <=> Engaged(v))
    BY <1>8 DEF Requeue, EnqueueRetry, LoopHead, Goto, NoNewJob, Engaged
  <2>3. job'[w] = None \/ ~Engaged(w)'
    BY <1>8 DEF Requeue, EnqueueRetry, Goto, Engaged, Settled, Life, LifeOf
  <2>4. \A v \in Workers : ~InHands(v, task.id)'
    BY <2>0, <2>1, <2>2, <2>3 DEF Apart, HandsDiffer, InHands
  <2>5. ~Queued(task.id) /\ Exists(task.id)
    BY <2>0, <2>1 DEF Apart, QueuedApart, JobsStored
  <2>6. \A c \in Clients : draft'[c] # None => draft[c].id # task.id
    BY <1>1, <2>0, <2>1 DEF Apart, DraftsApart, submissionVars
  <2>7. QED
    BY <1>1, <2>1, <2>2, <2>4, <2>5, <2>6, PushStep
<1>9. ASSUME NEW s \in TaskStatus, NEW point \in WorkerPc, NEW dies \in BOOLEAN, pc[w] \in {"execute", "stream", "retry"},
             Update(w, Transition(job[w], s), point, dies), RecordsKept, UNCHANGED queue
      PROVE  Apart'
  <2>1. NoNewJob
    BY <1>9, TransitionTyped, ReportKeeps
  <2>2. QED
    BY <1>1, <1>9, <2>1, ShrinkStep
<1>10. CASE RejectTask(w) \/ StartRun(w) \/ ExhaustTask(w)
  BY <1>2, <1>9, <1>10 DEF RejectTask, StartRun, ExhaustTask, TaskStatus, WorkerPc
<1>11. ASSUME NEW s \in {"success", "failed"}, StreamEnds(w, s) PROVE Apart'
  BY <1>2, <1>9, <1>11 DEF StreamEnds, Update, TaskStatus, WorkerPc
<1>12. CASE GiveUp(w) \/ SuccessNotRecorded(w)
  BY <1>2, <1>9, <1>12 DEF GiveUp, SuccessNotRecorded, TaskStatus, WorkerPc
<1>13. CASE WriteEcho(w)
  <2>1. NoNewJob /\ UNCHANGED queue
    BY <1>13 DEF WriteEcho, NoNewJob, Engaged
  <2>2. PICK e \in [cmd : {"set", "del"}, task : Task] : e = echo[w]
    BY <1>13 DEF WriteEcho
  <2>3. RecordsKept
    BY <1>13, <2>2, StoreKeeps DEF WriteEcho
  <2>4. QED
    BY <1>1, <2>1, <2>3, ShrinkStep
<1>14. CASE RetryTask(w)
  <2>1. CountRetry(job[w]) \in Task /\ CountRetry(job[w]).id = job[w].id /\ job[w] \in Task
    BY <1>14, RetryTyped DEF RetryTask
  <2>2. /\ Transition(CountRetry(job[w]), "interrupted") \in Task
        /\ Transition(CountRetry(job[w]), "interrupted").id = job[w].id
    BY <2>1, TransitionTyped DEF TaskStatus
  <2>3. NoNewJob
    BY <1>14, <2>1, <2>2, ReportKeeps DEF RetryTask
  <2>4. QED
    BY <1>1, <1>2, <1>14, <2>3, ShrinkStep DEF RetryTask
<1>15. QED
  BY <1>3, <1>4, <1>5, <1>6, <1>7, <1>8, <1>10, <1>11, <1>12, <1>13, <1>14
     DEF Work, WorkerStep, StoreStep, InterruptStep, FailureStep, StreamTimesOut, CancelStream,
         Interrupt, PublishTimesOut, CancelInside, CancelOutside, CommandRaises

\* POST /tasks: an id is drawn, stored, and pushed once.
LEMMA CopiesRequest ==
    ASSUME Typed, Apart, NEW c \in Clients, Request(c)
    PROVE  Apart'
<1> USE DEF Typed, TypeOK, SubmissionTypeOK, storeVars
<1>1. NoNewJob /\ UNCHANGED <<pc, job, write>>
  BY DEF Request, NoNewJob, Engaged, workerVars
<1>2. UNCHANGED record => RecordsKept
  BY DEF RecordsKept, Exists
<1>3. CASE ReadMembers(c) \/ NoIncomplete(c) \/ SaveMember(c) \/ SaveDigest(c)
  <2>1. NoNewDraft /\ UNCHANGED <<record, queue>>
    BY <1>3 DEF ReadMembers, NoIncomplete, SaveMember, SaveDigest, GoTo, NoNewDraft
  <2>2. QED
    BY <1>1, <1>2, <2>1, ShrinkStep
<1>4. CASE AnswerIncomplete(c) \/ AnswerDigest(c) \/ TurnAway(c) \/ RequestFails(c)
  <2>1. NoNewDraft /\ UNCHANGED <<record, queue>>
    BY <1>4 DEF AnswerIncomplete, AnswerDigest, TurnAway, RequestFails, Respond, GoTo, NoNewDraft
  <2>2. QED
    BY <1>1, <1>2, <2>1, ShrinkStep
<1>5. CASE CreateTask(c)
  <2>1. PICK t \in TaskId : FreshId(t) /\ draft' = [draft EXCEPT ![c] = NewTask(t, body[c][1], body[c][2])]
    BY <1>5 DEF CreateTask
  <2>2. /\ draft'[c].id = t /\ \A d \in Clients \ {c} : draft'[d] = draft[d]
        /\ at'[c] = "save" /\ \A d \in Clients \ {c} : at'[d] = at[d]
        /\ UNCHANGED <<record, queue>>
    BY <1>5, <2>1 DEF CreateTask, NewTask, GoTo
  <2>3. ~Exists(t) /\ \A d \in Clients : draft[d] # None => draft[d].id # t
    BY <2>1 DEF FreshId
  <2>4. ~Queued(t) /\ \A w \in Workers : job[w] # None => job[w].id # t
    BY <2>3 DEF Apart, QueuedApart, JobsStored
  <2>5. DraftsApart' /\ DraftsStored'
    BY <1>1, <2>2, <2>3, <2>4 DEF Apart, DraftsApart, DraftsStored, Queued, Exists
  <2>6. EntriesDiffer' /\ QueuedApart' /\ HandsDiffer' /\ JobsStored'
    BY <1>1, <2>2 DEF Apart, EntriesDiffer, QueuedApart, HandsDiffer, JobsStored, InHands, Engaged,
       Queued, Exists
  <2>7. QED
    BY <2>5, <2>6 DEF Apart
<1>6. CASE SaveRecord(c)
  <2>1. /\ draft[c] \in Task /\ draft[c].id \in TaskId
        /\ record' = [record EXCEPT ![draft[c].id] = draft[c]]
    BY <1>6, TaskFields DEF SaveRecord, SetRecordNX, SetRecord, DraftTyped
  <2>2. RecordsKept /\ Exists(draft[c].id)'
    BY <1>6, <2>1, Constants DEF SaveRecord, RecordsKept, Exists, StoreTypeOK, ConstantAssumptions
  <2>3. /\ UNCHANGED <<draft, queue>> /\ \A d \in Clients \ {c} : at'[d] = at[d]
        /\ at'[c] = "member"
    BY <1>6 DEF SaveRecord, GoTo
  <2>4. \A d \in Clients : at[d] \in {"member", "index", "push"} => draft[d].id \in TaskId
    BY TaskFields DEF DraftTyped
  <2>5. DraftsStored'
    BY <2>2, <2>3, <2>4 DEF Apart, DraftsStored, RecordsKept, Exists
  <2>6. DraftsApart' /\ EntriesDiffer' /\ HandsDiffer'
    BY <1>1, <2>3 DEF Apart, DraftsApart, EntriesDiffer, HandsDiffer, InHands, Engaged, Queued
  <2>7. \A w \in Workers : job[w] # None => job[w].id \in TaskId
    BY TaskFields DEF WorkerTypeOK
  <2>8. QueuedApart' /\ JobsStored'
    BY <1>1, <2>2, <2>3, <2>7 DEF Apart, QueuedApart, JobsStored, InHands, Engaged, Queued,
       RecordsKept, Exists
  <2>9. QED
    BY <2>5, <2>6, <2>8 DEF Apart
<1>7. CASE PushTask(c)
  <2>1. PICK task \in Task : task = draft[c]
    BY <1>7 DEF PushTask, DraftTyped
  <2>2. /\ Enqueue(task) /\ UNCHANGED record /\ NoNewDraft /\ draft'[c] = None
        /\ task # None /\ task.id \in TaskId
        /\ \A d \in Clients \ {c} : draft'[d] = draft[d]
    BY <1>7, <2>1, TaskFields, Constants
       DEF PushTask, Respond, GoTo, NoNewDraft, ConstantAssumptions
  <2>3. /\ ~Queued(task.id) /\ Exists(task.id)
        /\ \A w \in Workers : job[w] # None => job[w].id # task.id
        /\ \A d \in Clients : draft'[d] # None => draft[d].id # task.id
    BY <1>7, <2>1, <2>2 DEF PushTask, Apart, DraftsApart, DraftsStored
  <2>4. \A w \in Workers : ~InHands(w, task.id)'
    BY <1>1, <2>3 DEF InHands
  <2>5. QED
    BY <1>1, <2>1, <2>2, <2>3, <2>4, PushStep
<1>8. QED
  BY <1>3, <1>4, <1>5, <1>6, <1>7 DEF Request, ContinueRequest

LEMMA CopiesStep ==
    ASSUME MaxStarts = 1, Typed, Life, Copies, [Next]_vars
    PROVE  Copies'
<1>1. FirstStart'
  BY FirstStartStep DEF Copies
<1>2. CASE Stop \/ Crash
  <2>1. NoNewJob /\ NoNewDraft /\ RecordsKept /\ UNCHANGED queue
    BY <1>2 DEF Stop, Crash, ProcessEnds, ResetWorkers, DropRequests, NoNewJob, NoNewDraft,
       RecordsKept, Exists, storeVars
  <2>2. QED
    BY <1>1, <2>1, ShrinkStep DEF Copies
<1>3. CASE Recover
  BY <1>3 DEF Recover, RecoveryStep, SkipTerminal, MarkInterrupted, PickUp, EnqueueRecovered,
     Copies, FirstStart
<1>4. CASE UNCHANGED <<record, queue, draft, at, pc, job, write>>
  <2>1. NoNewJob /\ NoNewDraft /\ RecordsKept /\ UNCHANGED queue
    BY <1>4 DEF NoNewJob, NoNewDraft, RecordsKept, Exists, Engaged
  <2>2. QED
    BY <1>1, <2>1, ShrinkStep DEF Copies
<1>5. ASSUME NEW w \in Workers, Work(w) PROVE Copies'
  BY <1>1, <1>5, CopiesWork DEF Copies
<1>6. ASSUME NEW c \in Clients, Request(c) PROVE Copies'
  BY <1>1, <1>6, CopiesRequest DEF Copies
<1>7. QED
  BY <1>2, <1>3, <1>4, <1>5, <1>6
     DEF Next, Start, Serve, Signal, Cancel, StopWorkers, CancelWorkers, Retired, LockExpires, vars,
         storeVars, submissionVars, workerVars

\* What the invariant says of the queue: no two entries are the same task.
LEMMA OneEntry ==
    ASSUME Typed, EntriesDiffer, NEW t \in TaskId
    PROVE  Cardinality(Entries(t)) <= 1
<1>1. CASE Entries(t) = {}
  BY <1>1, FS_EmptySet
<1>2. CASE Entries(t) # {}
  <2>1. PICK i : i \in Entries(t)
    BY <1>2
  <2>2. Entries(t) = {i}
    BY <2>1 DEF Entries, EntriesDiffer
  <2>3. Cardinality({i}) = 1
    BY FS_Singleton, Zenon
  <2>4. QED
    BY <2>2, <2>3
<1>3. QED
  BY <1>1, <1>2

\* Between its first start and its end, whatever fails, a process never has
\* two copies of a task in circulation: not two queue entries, not an entry
\* and a worker, not two workers. (queue.py 25-42; worker.py 97, 282)
THEOREM OneCopy == ASSUME MaxStarts = 1 PROVE Spec => []SingleCopy
<1>1. Init => Typed /\ Life /\ Copies
  BY InitTyped, LifeInit, CopiesInit
<1>2. (Typed /\ Life /\ Copies) /\ [Next]_vars => (Typed /\ Life /\ Copies)'
  BY NextTyped, LifeStep, CopiesStep
<1>3. Typed /\ Life /\ Copies => SingleCopy
  <2> SUFFICES ASSUME Typed, Copies, NEW t \in TaskId
               PROVE  /\ Cardinality(Entries(t)) <= 1
                      /\ Queued(t) => \A w \in Workers :
                             ~(job[w] # None /\ job[w].id = t /\ pc[w] \notin {"release", "dead"})
                      /\ \A v, w \in Workers : v # w /\ Carries(v, t) => ~Carries(w, t)
    BY DEF SingleCopy
  <2>1. Cardinality(Entries(t)) <= 1
    BY OneEntry DEF Copies, Apart
  <2>2. \A w \in Workers : Carries(w, t) => InHands(w, t)
    BY DEF Carries, InHands, Engaged, SetsRecord
  <2>3. QED
    BY <2>1, <2>2 DEF Copies, Apart, QueuedApart, HandsDiffer, InHands, Engaged
<1>4. QED
  BY <1>1, <1>2, <1>3, PTL DEF Spec
=============================================================================
