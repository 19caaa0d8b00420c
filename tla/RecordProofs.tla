---------------------------- MODULE RecordProofs ----------------------------
(***************************************************************************)
(* What the task records and the digest keys go through.  Every copy of a  *)
(* task that is in circulation is compared with the record it came from:   *)
(* as long as there is one copy, it is the record, or the next state of    *)
(* it, and the store moves along the life cycle of a task.                 *)
(***************************************************************************)
EXTENDS CopyProofs

(***************************************************************************)
(* One move of a task along its life cycle: transition() as the worker     *)
(* calls it, with the retry counted or not.                                *)
(***************************************************************************)
Waiting(task) == task.status \in {"pending", "interrupted"}
SameTask(a, b) == a.id = b.id /\ a.project = b.project /\ a.requirement = b.requirement
Advances(a, b) ==
    /\ SameTask(a, b)
    /\ \/ /\ Waiting(a) /\ b.status \in {"running", "failed"}
          /\ b.retry = a.retry
       \/ /\ a.status = "running" /\ b.status \in {"success", "failed", "interrupted"}
          /\ b.retry = a.retry
       \/ /\ a.status = "running" /\ b.status = "interrupted"
          /\ a.retry < MaxRetries /\ b.retry = a.retry + 1

LEMMA TransitionAdvances ==
    ASSUME NEW task \in Task, NEW s \in TaskStatus,
           \/ Waiting(task) /\ s \in {"running", "failed"}
           \/ task.status = "running" /\ s \in {"success", "failed", "interrupted"}
    PROVE  Advances(task, Transition(task, s))
BY DEF Task, Transition, Advances, SameTask

LEMMA RetryAdvances ==
    ASSUME NEW task \in Task, task.status = "running", task.retry < MaxRetries
    PROVE  Advances(task, Transition(CountRetry(task), "interrupted"))
BY DEF Task, Transition, CountRetry, Advances, SameTask

-----------------------------------------------------------------------------
(***************************************************************************)
(* Copies keep up with the store.  What is queued is what is stored, and   *)
(* waits to be executed; the object of a worker is what is stored, or,     *)
(* while its update() is to be carried out, one move ahead of it; where    *)
(* the worker is suspended says which state the object is in.              *)
(***************************************************************************)
QueueCurrent ==
    \A i \in 1 .. Len(queue) : queue[i] = record[queue[i].id] /\ Waiting(queue[i])
JobTracks(w) ==
    job[w] # None =>
        /\ SetsRecord(w) => Advances(record[job[w].id], job[w])
        /\ Engaged(w) /\ ~SetsRecord(w) => record[job[w].id] = job[w]
        /\ pc[w] \in {"acquire", "requeue", "execute"} => Waiting(job[w])
        /\ pc[w] \in {"stream", "retry"} => job[w].status = "running"
        /\ pc[w] = "enqueue" => job[w].status = "interrupted"
        /\ DeletesDigest(w) => ClearsDigest(job[w])
DraftTracks(c) ==
    /\ at[c] \in {"save", "member", "index", "push"} =>
         draft[c].status = "pending" /\ draft[c].retry = 0
    /\ at[c] \in {"member", "index", "push"} => record[draft[c].id] = draft[c]
JobsTrack == \A w \in Workers : JobTracks(w)
DraftsTrack == \A c \in Clients : DraftTracks(c)
Tracks == QueueCurrent /\ JobsTrack /\ DraftsTrack

LEMMA TracksInit == Init => Tracks
BY DEF Init, QueueInit, SubmissionInit, WorkerInit, Tracks, QueueCurrent, JobsTrack, JobTracks,
   DraftsTrack, DraftTracks

\* A step of one worker that stores nothing.
LEMMA OneTracks ==
    ASSUME Tracks, NEW w \in Workers, UNCHANGED <<record, at, draft>>, QueueCurrent', JobTracks(w)',
           \A v \in Workers \ {w} : job'[v] = job[v] /\ pc'[v] = pc[v] /\ write'[v] = write[v]
    PROVE  Tracks'
<1>1. ASSUME NEW v \in Workers \ {w} PROVE JobTracks(v)'
  BY <1>1 DEF Tracks, JobsTrack, JobTracks, SetsRecord, DeletesDigest, Engaged
<1>2. DraftsTrack'
  BY DEF Tracks, DraftsTrack, DraftTracks
<1>3. QED
  BY <1>1, <1>2 DEF Tracks, JobsTrack

\* A worker that reports on its task has what is stored, and moves it on.
LEMMA ReportTracks ==
    ASSUME Typed, Life, Tracks, NEW w \in Workers, NEW task \in Task,
           NEW point \in WorkerPc, NEW dies \in BOOLEAN, Update(w, task, point, dies),
           pc[w] \in {"execute", "stream", "retry"}, Settled(w), Advances(job[w], task),
           point \in {"release", "stream", "enqueue"},
           point = "stream" => task.status = "running", point = "enqueue" => task.status = "interrupted",
           UNCHANGED <<record, queue, at, draft>>
    PROVE  Tracks'
<1> USE DEF Typed, TypeOK, WorkerTypeOK
<1>1. job[w] \in Task /\ job[w] # None /\ write[w] = "none"
  BY Constants DEF JobTyped, Settled, Life, LifeOf, ConstantAssumptions
<1>2. record[job[w].id] = job[w]
  BY <1>1 DEF Tracks, JobsTrack, JobTracks, Engaged, SetsRecord
<1>3. /\ job'[w] = task /\ write'[w] \in {"set", "late_set"} /\ pc'[w] \in {point, "release"}
      /\ \A v \in Workers \ {w} : job'[v] = job[v] /\ pc'[v] = pc[v] /\ write'[v] = write[v]
  BY DEF Update, UpdateReturns, UpdateRaises, Goto
<1>4. task.id = job[w].id
  BY DEF Advances, SameTask
<1>5. JobTracks(w)'
  BY <1>2, <1>3, <1>4 DEF JobTracks, SetsRecord, DeletesDigest
<1>6. QueueCurrent'
  BY DEF Tracks, QueueCurrent
<1>7. QED
  BY <1>3, <1>5, <1>6, OneTracks

\* Pushing the stored state of a waiting task.
LEMMA PushTracks ==
    ASSUME Typed, QueueCurrent, NEW task \in Task, Enqueue(task), UNCHANGED record,
           record[task.id] = task, Waiting(task)
    PROVE  QueueCurrent'
<1>1. /\ Len(queue') = Len(queue) + 1 /\ Len(queue) \in Nat
      /\ queue'[Len(queue) + 1] = task
      /\ \A i \in 1 .. Len(queue) : queue'[i] = queue[i]
  BY DEF Enqueue, Typed, TypeOK, QueueTypeOK
<1>2. \A i \in 1 .. Len(queue') : i \in 1 .. Len(queue) \/ i = Len(queue) + 1
  BY <1>1
<1>3. QED
  BY <1>1, <1>2 DEF QueueCurrent, Waiting

LEMMA TakeTracks ==
    ASSUME Typed, Life, Tracks, NEW w \in Workers, TakeTask(w), UNCHANGED <<at, draft>>
    PROVE  Tracks'
<1> USE DEF Typed, TypeOK, WorkerTypeOK
<1>1. queue # <<>> /\ queue \in Seq(Task) /\ queue' = Tail(queue) /\ UNCHANGED record
  BY DEF TakeTask, Dequeue, QueueTypeOK, storeVars
<1>2. /\ Len(queue) \in Nat /\ Len(queue) >= 1 /\ Len(queue') = Len(queue) - 1
      /\ Head(queue) = queue[1] /\ 1 \in 1 .. Len(queue)
      /\ \A i \in 1 .. Len(queue') : queue'[i] = queue[i + 1] /\ i + 1 \in 1 .. Len(queue)
  BY <1>1
<1>3. QueueCurrent'
  BY <1>1, <1>2 DEF Tracks, QueueCurrent
<1>4. record[Head(queue).id] = Head(queue) /\ Waiting(Head(queue))
  BY <1>2 DEF Tracks, QueueCurrent
<1>5. /\ job'[w] = Head(queue) /\ pc'[w] = "acquire" /\ write'[w] = "none"
      /\ \A v \in Workers \ {w} : job'[v] = job[v] /\ pc'[v] = pc[v] /\ write'[v] = write[v]
  BY DEF TakeTask, Goto, Life, LifeOf
<1>6. JobTracks(w)'
  BY <1>1, <1>4, <1>5 DEF JobTracks, SetsRecord, DeletesDigest
<1>7. QED
  BY <1>1, <1>3, <1>5, <1>6, OneTracks

\* The SET of an update(): the store catches up with the object of the worker,
\* and no other copy of the task is left that could fall behind.
LEMMA WriteTracks ==
    ASSUME Typed, Life, Apart, Tracks, NEW w \in Workers, WriteRecord(w), UNCHANGED <<at, draft>>
    PROVE  Tracks'
<1> USE Constants DEF ConstantAssumptions, Typed, TypeOK, WorkerTypeOK, StoreTypeOK
<1>1. PICK task \in Task : task = job[w]
  BY DEF WriteRecord, SetsRecord, Life, LifeOf
<1>2. /\ task.id \in TaskId /\ InHands(w, task.id)
      /\ record' = [record EXCEPT ![task.id] = task]
      /\ UNCHANGED <<queue, pc, job>>
      /\ \A v \in Workers \ {w} : write'[v] = write[v]
      /\ write'[w] \notin {"set", "late_set"}
      /\ write'[w] \in {"del", "late_del"} => ClearsDigest(task)
  BY <1>1, TaskFields DEF WriteRecord, SetRecord, SetsRecord, InHands, Engaged
<1>3. record'[task.id] = task /\ \A t \in TaskId \ {task.id} : record'[t] = record[t]
  BY <1>2
<1>4. QueueCurrent'
  <2> SUFFICES ASSUME NEW i \in 1 .. Len(queue)
               PROVE  queue[i] = record'[queue[i].id] /\ Waiting(queue[i])
    BY <1>2 DEF QueueCurrent, Waiting
  <2>1. queue[i] \in Task /\ queue[i].id \in TaskId
    BY TaskFields DEF QueueTypeOK
  <2>2. Queued(queue[i].id)
    BY DEF Queued
  <2>3. queue[i].id # task.id
    BY <1>2, <2>1, <2>2 DEF Apart, QueuedApart
  <2>4. QED
    BY <1>3, <2>1, <2>3 DEF Tracks, QueueCurrent
<1>5. JobTracks(w)'
  BY <1>1, <1>2, <1>3 DEF Tracks, JobsTrack, JobTracks, SetsRecord, DeletesDigest
<1>6. ASSUME NEW v \in Workers \ {w}, job[v] # None PROVE JobTracks(v)'
  <2>1. job[v] \in Task /\ job[v].id \in TaskId
    BY <1>6, TaskFields
  <2>2. CASE job[v].id = task.id
    <3>1. ~Engaged(v)
      BY <1>2, <1>6, <2>1, <2>2 DEF Apart, HandsDiffer, InHands
    <3>2. QED
      BY <1>2, <3>1 DEF JobTracks, Engaged, SetsRecord, DeletesDigest
  <2>3. CASE job[v].id # task.id
    BY <1>2, <1>3, <2>1, <2>3 DEF Tracks, JobsTrack, JobTracks, Engaged, SetsRecord, DeletesDigest
  <2>4. QED
    BY <2>2, <2>3
<1>7. ASSUME NEW c \in Clients PROVE DraftTracks(c)'
  <2>1. CASE at[c] \in {"save", "member", "index", "push"}
    <3>1. draft[c] \in Task /\ draft[c] # None /\ draft[c].id \in TaskId
      BY <2>1, TaskFields DEF DraftTyped
    <3>2. draft[c].id # task.id
      BY <1>1, <3>1 DEF Apart, DraftsApart
    <3>3. QED
      BY <1>3, <3>1, <3>2 DEF Tracks, DraftsTrack, DraftTracks
  <2>2. QED
    BY <2>1 DEF DraftTracks
<1>8. QED
  BY <1>2, <1>4, <1>5, <1>6, <1>7 DEF Tracks, JobsTrack, DraftsTrack, JobTracks

LEMMA TracksWork ==
    ASSUME ~RedisMayFail, Typed, Life, Apart, Tracks, NEW w \in Workers, Work(w)
    PROVE  Tracks'
<1> USE DEF Typed, TypeOK, WorkerTypeOK, JobTyped
<1>1. UNCHANGED <<at, draft>>
  BY DEF Work, submissionVars
<1>2. CASE TakeTask(w)
  BY <1>1, <1>2, TakeTracks
<1>3. CASE WriteRecord(w)
  BY <1>1, <1>3, WriteTracks
<1>4. CASE Acquire(w) \/ LockBusy(w) \/ LeaveLoop(w) \/ StreamRetriable(w) \/ RaiseInside(w)
  <2>1. /\ UNCHANGED <<record, queue, job, write>>
        /\ \A v \in Workers \ {w} : pc'[v] = pc[v]
    BY <1>4 DEF Acquire, LockBusy, LeaveLoop, StreamRetriable, RaiseInside, Goto, storeVars
  <2>2. JobTracks(w)'
    BY <1>4, <2>1 DEF Tracks, JobsTrack, JobTracks, SetsRecord, DeletesDigest, Engaged,
       Acquire, LockBusy, LeaveLoop, StreamRetriable, RaiseInside, Goto
  <2>3. QueueCurrent'
    BY <2>1 DEF Tracks, QueueCurrent
  <2>4. QED
    BY <1>1, <2>1, <2>2, <2>3, OneTracks
<1>5. CASE Release(w) \/ RaiseOutside(w)
  <2>1. /\ job'[w] # None => job'[w] = job[w]
        /\ pc'[w] \in {"idle", "dead"} /\ UNCHANGED <<record, queue, write>>
        /\ \A v \in Workers \ {w} : job'[v] = job[v] /\ pc'[v] = pc[v]
    BY <1>5 DEF Release, RaiseOutside, LoopHead, Goto, storeVars
  <2>2. LifeOf(w)'
    BY LifeWork DEF Life
  <2>3. JobTracks(w)'
    BY <2>1, <2>2 DEF Tracks, JobsTrack, JobTracks, SetsRecord, DeletesDigest, Engaged, LifeOf
  <2>4. QueueCurrent'
    BY <2>1 DEF Tracks, QueueCurrent
  <2>5. QED
    BY <1>1, <2>1, <2>3, <2>4, OneTracks
<1>6. CASE ClearDigest(w) \/ OrphanEnds(w)
  <2>1. /\ UNCHANGED <<record, queue, job, pc>> /\ write'[w] \in {write[w], "none"}
        /\ \A v \in Workers \ {w} : write'[v] = write[v]
        /\ ~SetsRecord(w) \/ UNCHANGED write
    BY <1>6 DEF ClearDigest, OrphanEnds, DeletesDigest, SetsRecord, storeVars
  <2>2. JobTracks(w)'
    BY <2>1 DEF Tracks, JobsTrack, JobTracks, SetsRecord, DeletesDigest, Engaged
  <2>3. QueueCurrent'
    BY <2>1 DEF Tracks, QueueCurrent
  <2>4. QED
    BY <1>1, <2>1, <2>2, <2>3, OneTracks
<1>7. CASE Requeue(w) \/ EnqueueRetry(w)
  <2>1. PICK task \in Task : task = job[w]
    BY <1>7 DEF Requeue, EnqueueRetry
  <2>2. write[w] = "none" /\ task # None /\ Engaged(w)
    BY <1>7, <2>1, Constants DEF Requeue, EnqueueRetry, Settled, Engaged, Life, LifeOf, ConstantAssumptions
  <2>3. Enqueue(task) /\ record[task.id] = task /\ Waiting(task)
    BY <1>7, <2>1, <2>2 DEF Requeue, EnqueueRetry, Tracks, JobsTrack, JobTracks, SetsRecord, Waiting
  <2>4. /\ UNCHANGED <<record, write>>
        /\ \A v \in Workers \ {w} : job'[v] = job[v] /\ pc'[v] = pc[v]
        /\ job'[w] = None \/ pc'[w] = "release"
    BY <1>7 DEF Requeue, EnqueueRetry, Goto, storeVars
  <2>5. JobTracks(w)'
    BY <2>2, <2>4 DEF JobTracks, SetsRecord, DeletesDigest, Engaged
  <2>6. QueueCurrent'
    BY <2>3, <2>4, PushTracks DEF Tracks
  <2>7. QED
    BY <1>1, <2>4, <2>5, <2>6, OneTracks
<1>8. pc[w] \in {"execute", "stream", "retry"} =>
        /\ job[w] \in Task /\ job[w] # None
        /\ pc[w] = "execute" => Waiting(job[w])
        /\ pc[w] # "execute" => job[w].status = "running"
  BY Constants DEF Tracks, JobsTrack, JobTracks, ConstantAssumptions
<1>9. CASE RejectTask(w) \/ StartRun(w) \/ ExhaustTask(w)
  <2>1. PICK s \in {"failed", "running"}, point \in {"release", "stream"} :
          /\ Update(w, Transition(job[w], s), point, FALSE) /\ (point = "stream" => s = "running")
          /\ pc[w] \in {"execute", "retry"} /\ (pc[w] = "retry" => s = "failed") /\ Settled(w)
    BY <1>9 DEF RejectTask, StartRun, ExhaustTask, Resumes
  <2>2. PICK task \in Task : task = Transition(job[w], s) /\ task.status = s
    BY <1>8, <2>1, TransitionTyped DEF TaskStatus
  <2>3. Advances(job[w], task)
    BY <1>8, <2>1, <2>2, TransitionAdvances DEF TaskStatus
  <2>4. UNCHANGED <<record, queue>>
    BY <1>9 DEF RejectTask, StartRun, ExhaustTask, storeVars
  <2>5. QED
    BY <1>1, <2>1, <2>2, <2>3, <2>4, ReportTracks DEF WorkerPc
<1>10. ASSUME NEW s \in {"success", "failed", "interrupted"}, NEW dies \in BOOLEAN,
              Update(w, Transition(job[w], s), "release", dies), pc[w] = "stream", Settled(w),
              UNCHANGED <<record, queue>>
       PROVE  Tracks'
  <2>1. PICK task \in Task : task = Transition(job[w], s)
    BY <1>8, <1>10, TransitionTyped DEF TaskStatus
  <2>2. Advances(job[w], task)
    BY <1>8, <1>10, <2>1, TransitionAdvances DEF TaskStatus
  <2>3. QED
    BY <1>1, <1>10, <2>1, <2>2, ReportTracks DEF WorkerPc
<1>11. ASSUME NEW s \in {"success", "failed"}, StreamEnds(w, s) PROVE Tracks'
  BY <1>10, <1>11 DEF StreamEnds, Resumes, Update, storeVars
<1>12. CASE GiveUp(w)
  BY <1>10, <1>12 DEF GiveUp, storeVars
<1>13. CASE RetryTask(w)
  <2>1. PICK task \in Task : task = Transition(CountRetry(job[w]), "interrupted") /\ task.status = "interrupted"
    BY <1>8, <1>13, TransitionTyped, RetryTyped DEF RetryTask, TaskStatus
  <2>2. Advances(job[w], task)
    BY <1>8, <1>13, <2>1, RetryAdvances DEF RetryTask
  <2>3. QED
    BY <1>1, <1>13, <2>1, <2>2, ReportTracks DEF RetryTask, Resumes, WorkerPc, storeVars
<1>14. QED
  BY <1>2, <1>3, <1>4, <1>5, <1>6, <1>7, <1>9, <1>11, <1>12, <1>13
     DEF Work, WorkerStep, StoreStep, InterruptStep, FailureStep, StreamTimesOut, CancelStream,
         Interrupt, CancelInside, CancelOutside

\* POST /tasks: the record is the draft, and the entry is the record.
LEMMA TracksRequest ==
    ASSUME ~RedisMayFail, Typed, Apart, Tracks, NEW c \in Clients, Request(c)
    PROVE  Tracks'
<1> USE DEF Typed, TypeOK, SubmissionTypeOK
<1>1. UNCHANGED <<pc, job, write>>
  BY DEF Request, workerVars
<1>2. UNCHANGED record => JobsTrack'
  BY <1>1 DEF Tracks, JobsTrack, JobTracks, SetsRecord, DeletesDigest, Engaged
<1>3. UNCHANGED <<record, queue>> => QueueCurrent'
  BY DEF Tracks, QueueCurrent
<1>4. CASE ReadMembers(c) \/ NoIncomplete(c) \/ SaveMember(c) \/ SaveDigest(c)
  <2>1. UNCHANGED <<record, queue, draft>>
    BY <1>4 DEF ReadMembers, NoIncomplete, SaveMember, SaveDigest, storeVars
  <2>2. \A d \in Clients : at'[d] = at[d] \/ at'[d] \in {"scan", "digest"}
                             \/ (at[d] \in {"member", "index"} /\ at'[d] \in {"index", "push"})
    BY <1>4 DEF ReadMembers, NoIncomplete, SaveMember, SaveDigest, GoTo
  <2>3. DraftsTrack'
    BY <2>1, <2>2 DEF Tracks, DraftsTrack, DraftTracks
  <2>4. QED
    BY <1>2, <1>3, <2>1, <2>3 DEF Tracks
<1>5. CASE AnswerIncomplete(c) \/ AnswerDigest(c) \/ TurnAway(c)
  <2>1. /\ UNCHANGED <<record, queue>> /\ at'[c] = "idle"
        /\ \A d \in Clients \ {c} : at'[d] = at[d] /\ draft'[d] = draft[d]
    BY <1>5 DEF AnswerIncomplete, AnswerDigest, TurnAway, Respond, GoTo, storeVars
  <2>2. DraftsTrack'
    BY <2>1 DEF Tracks, DraftsTrack, DraftTracks
  <2>3. QED
    BY <1>2, <1>3, <2>1, <2>2 DEF Tracks
<1>6. CASE CreateTask(c)
  <2>1. PICK t \in TaskId : draft' = [draft EXCEPT ![c] = NewTask(t, body[c][1], body[c][2])]
    BY <1>6 DEF CreateTask
  <2>2. /\ UNCHANGED <<record, queue>> /\ at'[c] = "save"
        /\ draft'[c].status = "pending" /\ draft'[c].retry = 0
        /\ \A d \in Clients \ {c} : at'[d] = at[d] /\ draft'[d] = draft[d]
    BY <1>6, <2>1 DEF CreateTask, NewTask, GoTo, storeVars
  <2>3. DraftsTrack'
    BY <2>2 DEF Tracks, DraftsTrack, DraftTracks
  <2>4. QED
    BY <1>2, <1>3, <2>2, <2>3 DEF Tracks
<1>7. CASE SaveRecord(c)
  <2>1. PICK task \in Task : task = draft[c]
    BY <1>7 DEF SaveRecord, DraftTyped
  <2>2. /\ task # None /\ task.id \in TaskId /\ ~Exists(task.id)
        /\ record' = [record EXCEPT ![task.id] = task]
        /\ UNCHANGED <<queue, draft>> /\ at'[c] = "member"
        /\ \A d \in Clients \ {c} : at'[d] = at[d]
    BY <1>7, <2>1, TaskFields, Constants
       DEF SaveRecord, SetRecordNX, SetRecord, GoTo, ConstantAssumptions
  <2>3. record'[task.id] = task /\ \A t \in TaskId \ {task.id} : record'[t] = record[t]
    BY <2>2 DEF StoreTypeOK
  <2>4. ASSUME NEW i \in 1 .. Len(queue)
        PROVE  queue[i] = record'[queue[i].id] /\ Waiting(queue[i])
    <3>1. queue[i].id \in TaskId /\ Queued(queue[i].id)
      BY TaskFields DEF QueueTypeOK, Queued
    <3>2. queue[i].id # task.id
      BY <2>2, <3>1 DEF Apart, QueuedApart
    <3>3. QED
      BY <2>3, <3>1, <3>2 DEF Tracks, QueueCurrent
  <2>5. QueueCurrent'
    BY <2>2, <2>4 DEF QueueCurrent, Waiting
  <2>6. ASSUME NEW w \in Workers, job[w] # None PROVE record'[job[w].id] = record[job[w].id]
    <3>1. job[w].id \in TaskId
      BY <2>6, TaskFields DEF WorkerTypeOK
    <3>2. job[w].id # task.id
      BY <2>2, <2>6 DEF Apart, JobsStored
    <3>3. QED
      BY <2>3, <3>1, <3>2
  <2>7. JobsTrack'
    BY <1>1, <2>6 DEF Tracks, JobsTrack, JobTracks, SetsRecord, DeletesDigest, Engaged
  <2>8. ASSUME NEW d \in Clients \ {c}, at[d] \in {"member", "index", "push"}
        PROVE  record'[draft[d].id] = record[draft[d].id]
    <3>1. draft[d] \in Task /\ draft[d] # None /\ draft[d].id \in TaskId
      BY <2>8, TaskFields, Constants DEF DraftTyped, ConstantAssumptions
    <3>2. draft[d].id # task.id
      BY <2>1, <2>2, <3>1 DEF Apart, DraftsApart
    <3>3. QED
      BY <2>3, <3>1, <3>2
  <2>9. DraftsTrack'
    BY <1>7, <2>1, <2>2, <2>3, <2>8 DEF SaveRecord, Tracks, DraftsTrack, DraftTracks
  <2>10. QED
    BY <2>5, <2>7, <2>9 DEF Tracks
<1>8. CASE PushTask(c)
  <2>1. PICK task \in Task : task = draft[c]
    BY <1>8 DEF PushTask, DraftTyped
  <2>2. /\ Enqueue(task) /\ UNCHANGED record /\ at'[c] = "idle"
        /\ \A d \in Clients \ {c} : at'[d] = at[d] /\ draft'[d] = draft[d]
    BY <1>8, <2>1 DEF PushTask, Respond, GoTo, storeVars
  <2>3. record[task.id] = task /\ Waiting(task)
    BY <1>8, <2>1 DEF PushTask, Tracks, DraftsTrack, DraftTracks, Waiting
  <2>4. QueueCurrent'
    BY <2>2, <2>3, PushTracks DEF Tracks
  <2>5. DraftsTrack'
    BY <2>2 DEF Tracks, DraftsTrack, DraftTracks
  <2>6. QED
    BY <1>2, <2>2, <2>4, <2>5 DEF Tracks
<1>9. QED
  BY <1>4, <1>5, <1>6, <1>7, <1>8 DEF Request, ContinueRequest

LEMMA TracksStep ==
    ASSUME ~RedisMayFail, Typed, Life, Copies, Tracks, [Next]_vars
    PROVE  Tracks'
<1>1. CASE Stop \/ Crash
  <2>1. /\ UNCHANGED <<record, queue>> /\ \A w \in Workers : job'[w] = None
        /\ \A c \in Clients : at'[c] = "idle"
    BY <1>1 DEF Stop, Crash, ProcessEnds, ResetWorkers, DropRequests, storeVars
  <2>2. QED
    BY <2>1 DEF Tracks, QueueCurrent, JobsTrack, JobTracks, DraftsTrack, DraftTracks
<1>2. CASE Recover
  BY <1>2 DEF Recover, RecoveryStep, SkipTerminal, MarkInterrupted, PickUp, EnqueueRecovered,
     Copies, FirstStart
<1>3. CASE UNCHANGED <<record, queue, draft, at, pc, job, write>>
  BY <1>3 DEF Tracks, QueueCurrent, JobsTrack, JobTracks, DraftsTrack, DraftTracks, SetsRecord,
     DeletesDigest, Engaged
<1>4. ASSUME NEW w \in Workers, Work(w) PROVE Tracks'
  BY <1>4, TracksWork DEF Copies
<1>5. ASSUME NEW c \in Clients, Request(c) PROVE Tracks'
  BY <1>5, TracksRequest DEF Copies
<1>6. QED
  BY <1>1, <1>2, <1>3, <1>4, <1>5
     DEF Next, Start, Serve, Signal, Cancel, StopWorkers, CancelWorkers, Retired, LockExpires, vars,
         storeVars, submissionVars, workerVars

\* The invariant of the first run of the program, on a Redis server that
\* answers.
Orderly == Typed /\ Life /\ Copies /\ Tracks

LEMMA OrderlyAlways ==
    ASSUME MaxStarts = 1, ~RedisMayFail
    PROVE  Spec => []Orderly
<1>1. Init => Orderly
  BY InitTyped, LifeInit, CopiesInit, TracksInit DEF Orderly
<1>2. Orderly /\ [Next]_vars => Orderly'
  BY NextTyped, LifeStep, CopiesStep, TracksStep DEF Orderly
<1>3. QED
  BY <1>1, <1>2, PTL DEF Spec

-----------------------------------------------------------------------------
(***************************************************************************)
(* The store moves along the life cycle: a step that changes a record      *)
(* creates a pending one or advances one.                                  *)
(***************************************************************************)
Stores(task) ==
    /\ record' = [record EXCEPT ![task.id] = task]
    /\ \/ ~Exists(task.id) /\ task.status = "pending" /\ task.retry = 0
       \/ Exists(task.id) /\ Advances(record[task.id], task)

LEMMA StoreMoves ==
    ASSUME ~RedisMayFail, Orderly, [Next]_vars
    PROVE  UNCHANGED record \/ \E task \in Task : Stores(task)
<1> USE DEF Orderly, Typed, TypeOK, storeVars
<1>1. ASSUME NEW c \in Clients, SaveRecord(c) PROVE \E task \in Task : Stores(task)
  <2>1. PICK task \in Task : task = draft[c]
    BY <1>1 DEF SaveRecord, DraftTyped
  <2>2. Stores(task)
    BY <1>1, <2>1 DEF SaveRecord, SetRecordNX, SetRecord, Stores, Tracks, DraftsTrack, DraftTracks
  <2>3. QED
    BY <2>2
<1>2. ASSUME NEW w \in Workers, WriteRecord(w) PROVE \E task \in Task : Stores(task)
  <2>1. PICK task \in Task : task = job[w]
    BY <1>2 DEF WriteRecord, SetsRecord, Life, LifeOf
  <2>2. task # None /\ Exists(task.id) /\ Advances(record[task.id], task)
    BY <1>2, <2>1, Constants
       DEF WriteRecord, Tracks, JobsTrack, JobTracks, Copies, Apart, JobsStored, ConstantAssumptions
  <2>3. Stores(task)
    BY <1>2, <2>1, <2>2 DEF WriteRecord, SetRecord, Stores
  <2>4. QED
    BY <2>3
<1>3. ASSUME NEW c \in Clients, Request(c), ~SaveRecord(c) PROVE UNCHANGED record
  BY <1>3 DEF Request, ContinueRequest, ReadMembers, AnswerIncomplete, NoIncomplete, AnswerDigest,
     CreateTask, TurnAway, SaveMember, SaveDigest, PushTask
<1>4. ASSUME NEW w \in Workers, Work(w), ~WriteRecord(w) PROVE UNCHANGED record
  BY <1>4 DEF Work, WorkerStep, StoreStep, InterruptStep, FailureStep, TakeTask, Acquire, LockBusy,
     Requeue, RejectTask, StartRun, StreamEnds, StreamRetriable, RetryTask, ExhaustTask, EnqueueRetry,
     Release, LeaveLoop, ClearDigest, OrphanEnds, StreamTimesOut, CancelStream, Interrupt, GiveUp,
     CancelInside, RaiseInside, CancelOutside, RaiseOutside
<1>5. CASE Recover
  BY <1>5 DEF Recover, RecoveryStep, SkipTerminal, MarkInterrupted, PickUp, EnqueueRecovered,
     Copies, FirstStart
<1>6. CASE ~Recover /\ (\A c \in Clients : ~Request(c)) /\ (\A w \in Workers : ~Work(w))
  BY <1>6 DEF Next, Start, Serve, Signal, Cancel, StopWorkers, CancelWorkers, Stop, Crash, ProcessEnds,
     Retired, LockExpires, vars
<1>7. QED
  BY <1>1, <1>2, <1>3, <1>4, <1>5, <1>6

\* In the first run of the program, a task that has succeeded or failed keeps
\* the outcome it has, however the workers, the late writes of a broken
\* bridge, cancellations and timeouts interleave; run v_terminal shows that a
\* second start takes this away. (task.py 55-63; worker.py 143-294)
THEOREM OutcomesAreFinal ==
    ASSUME MaxStarts = 1, ~RedisMayFail
    PROVE  Spec => TerminalIsFinal
<1> DEFINE Final == \A t \in TaskId : Exists(t) /\ IsTerminal(record[t]) => record'[t] = record[t]
<1>1. Orderly /\ [Next]_vars => [Final]_vars
  <2> SUFFICES ASSUME Orderly, [Next]_vars, NEW t \in TaskId, Exists(t), IsTerminal(record[t])
               PROVE  record'[t] = record[t]
    OBVIOUS
  <2>1. CASE UNCHANGED record
    BY <2>1
  <2>2. ASSUME NEW task \in Task, Stores(task) PROVE record'[t] = record[t]
    <3>1. task.id # t
      BY <2>2 DEF Stores, Advances, Waiting, IsTerminal
    <3>2. QED
      BY <2>2, <3>1, TaskFields DEF Stores, Orderly, Typed, TypeOK, StoreTypeOK
  <2>3. QED
    BY <2>1, <2>2, StoreMoves
<1>2. QED
  BY <1>1, OrderlyAlways, PTL DEF Spec, TerminalIsFinal

\* What a client that polls sees in one step: nothing, or a step of the state
\* machine of TaskLifecycle.
LEMMA LifecycleMove ==
    ASSUME Typed, NEW task \in Task, Stores(task)
    PROVE  Lifecycle!LifecycleNext
<1> DEFINE status == [t \in TaskId |-> IF Exists(t) THEN record[t].status ELSE "absent"]
           tries == [t \in TaskId |-> IF Exists(t) THEN record[t].retry ELSE 0]
           t0 == task.id
<1> USE DEF Typed, TypeOK, StoreTypeOK
<1>1. t0 \in TaskId /\ task # None /\ task.status \in TaskStatus /\ task.retry \in Nat
  BY TaskFields, Constants DEF Task, ConstantAssumptions
<1>2. record'[t0] = task /\ \A t \in TaskId \ {t0} : record'[t] = record[t]
  BY <1>1 DEF Stores
<1>3. status' = [status EXCEPT ![t0] = task.status]
  BY <1>1, <1>2 DEF Exists
<1>4. tries' = [tries EXCEPT ![t0] = task.retry]
  BY <1>1, <1>2 DEF Exists
<1>5. tries[t0] = task.retry => tries' = tries
  BY <1>1, <1>4
<1>6. CASE ~Exists(t0) /\ task.status = "pending" /\ task.retry = 0
  <2>1. status[t0] = "absent" /\ tries[t0] = 0
    BY <1>1, <1>6
  <2>2. Lifecycle!Accept(t0)
    BY <1>3, <1>5, <1>6, <2>1 DEF Lifecycle!Accept, Lifecycle!Moves
  <2>3. QED
    BY <1>1, <2>2 DEF Lifecycle!LifecycleNext
<1>7. CASE Exists(t0) /\ Advances(record[t0], task)
  <2>1. status[t0] = record[t0].status /\ tries[t0] = record[t0].retry
    BY <1>1, <1>7
  <2>2. CASE Waiting(record[t0]) /\ task.status = "running" /\ task.retry = record[t0].retry
    <3>1. Lifecycle!Begin(t0)
      BY <1>3, <1>5, <2>1, <2>2 DEF Waiting, Lifecycle!Begin, Lifecycle!Moves
    <3>2. QED
      BY <1>1, <3>1 DEF Lifecycle!LifecycleNext
  <2>3. CASE Waiting(record[t0]) /\ task.status = "failed" /\ task.retry = record[t0].retry
    <3>1. Lifecycle!Refuse(t0)
      BY <1>3, <1>5, <2>1, <2>3 DEF Waiting, Lifecycle!Refuse, Lifecycle!Moves
    <3>2. QED
      BY <1>1, <3>1 DEF Lifecycle!LifecycleNext
  <2>4. CASE /\ record[t0].status = "running" /\ task.status \in {"success", "failed"}
             /\ task.retry = record[t0].retry
    <3>1. Lifecycle!Finish(t0)
      BY <1>3, <1>5, <2>1, <2>4 DEF Lifecycle!Finish, Lifecycle!Moves
    <3>2. QED
      BY <1>1, <3>1 DEF Lifecycle!LifecycleNext
  <2>5. CASE /\ record[t0].status = "running" /\ task.status = "interrupted"
             /\ task.retry = record[t0].retry
    <3>1. Lifecycle!Suspend(t0)
      BY <1>3, <1>5, <2>1, <2>5 DEF Lifecycle!Suspend, Lifecycle!Moves
    <3>2. QED
      BY <1>1, <3>1 DEF Lifecycle!LifecycleNext
  <2>6. CASE /\ record[t0].status = "running" /\ task.status = "interrupted"
             /\ record[t0].retry < MaxRetries /\ task.retry = record[t0].retry + 1
    <3>1. Lifecycle!Retry(t0)
      BY <1>1, <1>3, <1>4, <2>1, <2>6 DEF Lifecycle!Retry, Lifecycle!Moves
    <3>2. QED
      BY <1>1, <3>1 DEF Lifecycle!LifecycleNext
  <2>7. QED
    BY <1>7, <2>2, <2>3, <2>4, <2>5, <2>6 DEF Advances
<1>8. QED
  BY <1>6, <1>7 DEF Stores

\* In the first run of the program, the records refine the life cycle that
\* the enumeration of states and the calls of transition() describe: every
\* execution of the whole system, whatever interleaves with what, is one of
\* TaskLifecycle for a client that polls.
\* (task.py 39-63; api.py 172; worker.py 143-294)
THEOREM RecordsRefineLifecycle ==
    ASSUME MaxStarts = 1, ~RedisMayFail
    PROVE  Spec => ImplementsLifecycle
<1>1. Init => Lifecycle!LifecycleInit
  BY DEF Init, StoreInit, Exists, Lifecycle!LifecycleInit
<1>2. Orderly /\ [Next]_vars => [Lifecycle!LifecycleNext]_(Lifecycle!lifecycleVars)
  <2> SUFFICES ASSUME Orderly, [Next]_vars
               PROVE  Lifecycle!LifecycleNext \/ UNCHANGED Lifecycle!lifecycleVars
    OBVIOUS
  <2>1. CASE UNCHANGED record
    BY <2>1 DEF Lifecycle!lifecycleVars, Exists
  <2>2. CASE \E task \in Task : Stores(task)
    BY <2>2, LifecycleMove DEF Orderly
  <2>3. QED
    BY <2>1, <2>2, StoreMoves
<1>3. QED
  BY <1>1, <1>2, OrderlyAlways, PTL DEF Spec, ImplementsLifecycle, Lifecycle!LifecycleSpec

-----------------------------------------------------------------------------
(***************************************************************************)
(* Identity, over any number of starts and whatever fails.  Copies of a    *)
(* task may be many and may be out of date, but each of them is of a       *)
(* stored task and has its project and requirement; and what a handler is  *)
(* creating nobody else knows of.                                          *)
(***************************************************************************)
Matches(task) == Exists(task.id) /\ KeyOf(record[task.id]) = KeyOf(task)
QueueKeyed == \A i \in 1 .. Len(queue) : Matches(queue[i])
JobsKeyed == \A w \in Workers : job[w] # None => Matches(job[w])
CurKeyed == cur # None => Matches(cur)
EchoKeyed ==
    \A w \in Workers : echo[w] # None =>
        /\ Matches(echo[w].task) /\ IsTerminal(echo[w].task)
        /\ \A c \in Clients : draft[c] # None => draft[c].id # echo[w].task.id
DigestKeyed ==
    \A k \in DigestKey : digest[k] # None => Exists(digest[k]) /\ KeyOf(record[digest[k]]) = k
DraftsSaved ==
    \A c \in Clients : draft[c] # None =>
        /\ proc = "up"
        /\ draft[c].status = "pending"
        /\ at[c] = "save" => ~Exists(draft[c].id)
        /\ at[c] \in {"member", "index", "push"} => record[draft[c].id] = draft[c]

Keyed ==
    /\ QueueKeyed /\ JobsKeyed /\ CurKeyed /\ EchoKeyed
    /\ DigestKeyed /\ DraftsApart /\ DraftsSaved

LEMMA KeyedInit == Init => Keyed
BY DEF Init, StoreInit, QueueInit, SubmissionInit, WorkerInit, RecoveryInit, Keyed, QueueKeyed,
   JobsKeyed, CurKeyed, EchoKeyed, DigestKeyed, DraftsApart, DraftsSaved

\* No step removes a record or makes it that of another request.
KeysKept == \A t \in TaskId : Exists(t) => Exists(t)' /\ KeyOf(record'[t]) = KeyOf(record[t])

LEMMA MatchKept ==
    ASSUME KeysKept, NEW task \in Task, Matches(task)
    PROVE  Exists(task.id)' /\ KeyOf(record'[task.id]) = KeyOf(task)
BY TaskFields DEF KeysKept, Matches

\* Storing a later state of a known task.
LEMMA StoreKeepsKeys ==
    ASSUME Typed, NEW task \in Task, SetRecord(task), Matches(task)
    PROVE  /\ KeysKept
           /\ \A t \in TaskId \ {task.id} : record'[t] = record[t]
<1>1. record'[task.id] = task /\ \A t \in TaskId \ {task.id} : record'[t] = record[t]
  BY TaskFields DEF SetRecord, Typed, TypeOK, StoreTypeOK
<1>2. QED
  BY <1>1, Constants DEF KeysKept, Matches, Exists, ConstantAssumptions

\* The task is one that the queue, a worker or a write left behind had.
Known(task) ==
    \/ \E i \in 1 .. Len(queue) : SameTask(task, queue[i])
    \/ \E w \in Workers : job[w] # None /\ SameTask(task, job[w])
    \/ \E w \in Workers : echo[w] # None /\ SameTask(task, echo[w].task)

LEMMA KnownMatches ==
    ASSUME Keyed, NEW task, Known(task)
    PROVE  Matches(task) /\ \A c \in Clients : draft[c] # None => draft[c].id # task.id
BY DEF Keyed, QueueKeyed, JobsKeyed, EchoKeyed, DraftsApart, Known, SameTask, Matches, KeyOf, Queued

\* Work on known tasks keeps the invariant.
LEMMA KnownStep ==
    ASSUME Typed, Typed', Keyed, KeysKept, UNCHANGED <<at, draft, cur, proc>>,
           \A i \in 1 .. Len(queue') : Known(queue'[i]),
           \A w \in Workers : job'[w] # None => Known(job'[w]),
           \A w \in Workers : echo'[w] # None => Known(echo'[w].task) /\ IsTerminal(echo'[w].task),
           \A k \in DigestKey : digest'[k] \in {digest[k], None},
           \A c \in Clients : draft[c] # None => record'[draft[c].id] = record[draft[c].id]
    PROVE  Keyed'
<1> USE DEF Typed, TypeOK
<1>1. QueueKeyed'
  <2> SUFFICES ASSUME NEW i \in 1 .. Len(queue') PROVE Matches(queue[i])'
    BY DEF QueueKeyed
  <2>1. queue'[i] \in Task
    BY DEF QueueTypeOK
  <2>2. QED
    BY <2>1, KnownMatches, MatchKept DEF Matches
<1>2. JobsKeyed'
  <2> SUFFICES ASSUME NEW w \in Workers, job'[w] # None PROVE Matches(job[w])'
    BY DEF JobsKeyed
  <2>1. job'[w] \in Task
    BY DEF WorkerTypeOK
  <2>2. QED
    BY <2>1, KnownMatches, MatchKept DEF Matches
<1>3. CurKeyed'
  BY MatchKept DEF Keyed, CurKeyed, RecoveryTypeOK, Matches
<1>4. DigestKeyed'
  BY DEF Keyed, DigestKeyed, KeysKept, StoreTypeOK
<1>5. DraftsApart'
  <2> SUFFICES ASSUME NEW c \in Clients, draft[c] # None
               PROVE  /\ ~Queued(draft[c].id)'
                      /\ \A w \in Workers : job'[w] # None => job'[w].id # draft[c].id
                      /\ \A d \in Clients : draft[d] # None /\ draft[d].id = draft[c].id => d = c
    BY DEF DraftsApart, Queued
  <2>1. \A i \in 1 .. Len(queue') : queue'[i].id # draft[c].id
    BY KnownMatches
  <2>2. \A w \in Workers : job'[w] # None => job'[w].id # draft[c].id
    BY KnownMatches
  <2>3. QED
    BY <2>1, <2>2 DEF Queued, Keyed, DraftsApart
<1>6. DraftsSaved'
  BY DEF Keyed, DraftsSaved, Exists
<1>7. EchoKeyed'
  <2> SUFFICES ASSUME NEW w \in Workers, echo'[w] # None
               PROVE  /\ Matches(echo[w].task)' /\ IsTerminal(echo'[w].task)
                      /\ \A c \in Clients : draft[c] # None => draft[c].id # echo'[w].task.id
    BY DEF EchoKeyed, IsTerminal
  <2>1. echo'[w].task \in Task
    BY DEF WorkerTypeOK
  <2>2. QED
    BY <2>1, KnownMatches, MatchKept DEF Matches
<1>8. QED
  BY <1>1, <1>2, <1>3, <1>4, <1>5, <1>6, <1>7 DEF Keyed

\* What a step of a worker does to the copies of tasks.
LEMMA WorkKnown ==
    ASSUME Typed, NEW w \in Workers, Work(w)
    PROVE  /\ \A i \in 1 .. Len(queue') : Known(queue'[i])
           /\ \A v \in Workers : job'[v] # None => Known(job'[v])
<1> USE DEF Typed, TypeOK, WorkerTypeOK, JobTyped, QueueTypeOK
<1>1. \A v \in Workers : job[v] # None => Known(job[v])
  BY DEF Known, SameTask
<1>2. \A i \in 1 .. Len(queue) : Known(queue[i])
  BY DEF Known, SameTask
<1>3. CASE TakeTask(w)
  <2>1. queue # <<>> /\ queue' = Tail(queue) /\ job' = [job EXCEPT ![w] = Head(queue)]
    BY <1>3 DEF TakeTask, Dequeue
  <2>2. /\ Head(queue) = queue[1] /\ 1 \in 1 .. Len(queue)
        /\ \A i \in 1 .. Len(queue') : queue'[i] = queue[i + 1] /\ i + 1 \in 1 .. Len(queue)
    BY <2>1
  <2>3. QED
    BY <1>1, <1>2, <2>1, <2>2
<1>4. CASE Requeue(w) \/ EnqueueRetry(w)
  <2>1. PICK task \in Task : task = job[w]
    BY <1>4 DEF Requeue, EnqueueRetry
  <2>2. /\ queue' = Append(queue, task) /\ task # None
        /\ \A v \in Workers : job'[v] \in {job[v], None}
    BY <1>4, <2>1, Constants DEF Requeue, EnqueueRetry, Enqueue, ConstantAssumptions
  <2>3. \A i \in 1 .. Len(queue') : (i \in 1 .. Len(queue) /\ queue'[i] = queue[i]) \/ queue'[i] = task
    BY <2>2
  <2>4. QED
    BY <1>1, <1>2, <2>1, <2>2, <2>3
<1>5. ASSUME UNCHANGED queue, \A v \in Workers : job'[v] \in {job[v], None}
      PROVE  /\ \A i \in 1 .. Len(queue') : Known(queue'[i])
             /\ \A v \in Workers : job'[v] # None => Known(job'[v])
  BY <1>1, <1>2, <1>5
<1>6. ASSUME NEW task, NEW point, NEW dies, Update(w, task, point, dies), UNCHANGED queue,
             job[w] \in Task, SameTask(task, job[w])
      PROVE  /\ \A i \in 1 .. Len(queue') : Known(queue'[i])
             /\ \A v \in Workers : job'[v] # None => Known(job'[v])
  <2>1. job' = [job EXCEPT ![w] = task] /\ job[w] # None
    BY <1>6, Constants DEF Update, UpdateReturns, UpdateRaises, ConstantAssumptions
  <2>2. Known(task)
    BY <1>6, <2>1 DEF Known
  <2>3. QED
    BY <1>1, <1>2, <1>6, <2>1, <2>2
<1>7. \A s \in TaskStatus : job[w] \in Task =>
        SameTask(Transition(job[w], s), job[w]) /\ SameTask(Transition(CountRetry(job[w]), s), job[w])
  BY DEF Task, Transition, CountRetry, SameTask
<1>8. CASE RejectTask(w) \/ StartRun(w) \/ RetryTask(w) \/ ExhaustTask(w) \/ GiveUp(w) \/ SuccessNotRecorded(w)
  BY <1>6, <1>7, <1>8
     DEF RejectTask, StartRun, RetryTask, ExhaustTask, GiveUp, SuccessNotRecorded, TaskStatus
<1>9. ASSUME NEW s \in {"success", "failed"}, StreamEnds(w, s)
      PROVE  /\ \A i \in 1 .. Len(queue') : Known(queue'[i])
             /\ \A v \in Workers : job'[v] # None => Known(job'[v])
  BY <1>6, <1>7, <1>9 DEF StreamEnds, Update, TaskStatus
<1>10. CASE Acquire(w) \/ LockBusy(w) \/ LeaveLoop(w) \/ StreamRetriable(w) \/ Release(w)
            \/ RaiseInside(w) \/ RaiseOutside(w)
  BY <1>5, <1>10 DEF Acquire, LockBusy, LeaveLoop, StreamRetriable, Release, RaiseInside, RaiseOutside
<1>11. CASE \/ WriteRecord(w) \/ ClearDigest(w) \/ LoseWrite(w) \/ OrphanEnds(w)
            \/ WriteEcho(w) \/ ClearEcho(w) \/ LoseEcho(w)
  BY <1>5, <1>11 DEF WriteRecord, ClearDigest, LoseWrite, OrphanEnds, WriteEcho, ClearEcho, LoseEcho
<1>12. QED
  BY <1>3, <1>4, <1>8, <1>9, <1>10, <1>11
     DEF Work, WorkerStep, StoreStep, InterruptStep, FailureStep, StreamTimesOut, CancelStream,
         Interrupt, PublishTimesOut, CancelInside, CancelOutside, CommandRaises

\* What it does to the success whose update() has given up waiting.
LEMMA EchoKnown ==
    ASSUME Typed, Keyed, NEW w \in Workers, Work(w), NEW v \in Workers, echo'[v] # None
    PROVE  Known(echo'[v].task) /\ IsTerminal(echo'[v].task)
<1> USE DEF Typed, TypeOK, WorkerTypeOK, JobTyped
<1>1. ASSUME echo[v] # None, echo'[v].task = echo[v].task
      PROVE  Known(echo'[v].task) /\ IsTerminal(echo'[v].task)
  BY <1>1 DEF Known, SameTask, Keyed, EchoKeyed
<1>2. CASE SuccessNotRecorded(w) /\ v = w
  <2>1. job[w] \in Task /\ job[w] # None
    BY <1>2, Constants DEF SuccessNotRecorded, ConstantAssumptions
  <2>2. echo'[v].task = Transition(job[w], "success")
    BY <1>2 DEF SuccessNotRecorded
  <2>3. SameTask(Transition(job[w], "success"), job[w]) /\ IsTerminal(Transition(job[w], "success"))
    BY <2>1 DEF Task, Transition, SameTask, IsTerminal
  <2>4. QED
    BY <2>1, <2>2, <2>3 DEF Known
<1>3. CASE SuccessNotRecorded(w) /\ v # w
  BY <1>1, <1>3 DEF SuccessNotRecorded
<1>4. CASE WriteEcho(w)
  <2>1. PICK e \in [cmd : {"set", "del"}, task : Task] : e = echo[w]
    BY <1>4 DEF WriteEcho
  <2>2. [e EXCEPT !.cmd = "del"].task = e.task
    BY <2>1
  <2>3. v = w => echo'[v] \in {[e EXCEPT !.cmd = "del"], None}
    BY <1>4, <2>1 DEF WriteEcho
  <2>4. v # w => echo'[v] = echo[v]
    BY <1>4 DEF WriteEcho
  <2>5. echo[w] # None
    BY <1>4 DEF WriteEcho
  <2>6. QED
    BY <1>1, <2>1, <2>2, <2>3, <2>4, <2>5
<1>5. CASE ClearEcho(w) \/ LoseEcho(w)
  BY <1>1, <1>5 DEF ClearEcho, LoseEcho
<1>6. CASE UNCHANGED echo
  BY <1>1, <1>6
<1>7. QED
  BY <1>2, <1>3, <1>4, <1>5, <1>6
     DEF Work, WorkerStep, StoreStep, InterruptStep, FailureStep, TakeTask, Acquire, LockBusy,
         Requeue, RejectTask, StartRun, StreamEnds, StreamRetriable, RetryTask, ExhaustTask,
         EnqueueRetry, Release, LeaveLoop, WriteRecord, ClearDigest, OrphanEnds, StreamTimesOut,
         CancelStream, Interrupt, GiveUp, PublishTimesOut, CancelInside, RaiseInside, CancelOutside,
         RaiseOutside, LoseWrite, CommandRaises

LEMMA KeyedWork ==
    ASSUME Typed, Typed', Life, Keyed, NEW w \in Workers, Work(w)
    PROVE  Keyed'
<1> USE DEF Typed, TypeOK, WorkerTypeOK, JobTyped
<1>1. UNCHANGED <<at, draft, cur, proc>>
  BY DEF Work, submissionVars, recoveryVars, processVars
<1>2. \A k \in DigestKey : digest'[k] \in {digest[k], None}
  BY DEF Work, WorkerStep, StoreStep, InterruptStep, FailureStep, TakeTask, Acquire, LockBusy,
     Requeue, RejectTask, StartRun, StreamEnds, StreamRetriable, RetryTask, ExhaustTask, EnqueueRetry,
     Release, LeaveLoop, WriteRecord, ClearDigest, DeleteDigest, OrphanEnds, StreamTimesOut,
     CancelStream, Interrupt, GiveUp, PublishTimesOut, CancelInside, RaiseInside, CancelOutside,
     RaiseOutside, SuccessNotRecorded, WriteEcho, ClearEcho, LoseEcho, LoseWrite, CommandRaises,
     StoreTypeOK, storeVars
<1>3. UNCHANGED record \/ \E task \in Task : SetRecord(task) /\ Known(task)
  <2>1. CASE WriteRecord(w)
    <3>1. job[w] \in Task /\ job[w] # None
      BY <2>1, Constants DEF WriteRecord, SetsRecord, Life, LifeOf, ConstantAssumptions
    <3>2. QED
      BY <2>1, <3>1 DEF WriteRecord, Known, SameTask
  <2>2. CASE WriteEcho(w)
    <3>1. PICK e \in [cmd : {"set", "del"}, task : Task] : e = echo[w]
      BY <2>2 DEF WriteEcho
    <3>2. e.task \in Task /\ Known(e.task)
      BY <2>2, <3>1 DEF WriteEcho, Known, SameTask
    <3>3. QED
      BY <2>2, <3>1, <3>2 DEF WriteEcho
  <2>3. QED
    BY <2>1, <2>2
       DEF Work, WorkerStep, StoreStep, InterruptStep, FailureStep, TakeTask, Acquire, LockBusy,
           Requeue, RejectTask, StartRun, StreamEnds, StreamRetriable, RetryTask, ExhaustTask,
           EnqueueRetry, Release, LeaveLoop, ClearDigest, OrphanEnds, StreamTimesOut, CancelStream,
           Interrupt, GiveUp, PublishTimesOut, CancelInside, RaiseInside, CancelOutside, RaiseOutside,
           SuccessNotRecorded, ClearEcho, LoseEcho, LoseWrite, CommandRaises, storeVars
<1>4. KeysKept /\ \A c \in Clients : draft[c] # None => record'[draft[c].id] = record[draft[c].id]
  <2>1. CASE UNCHANGED record
    BY <2>1 DEF KeysKept, Exists
  <2>2. ASSUME NEW task \in Task, SetRecord(task), Known(task)
        PROVE  KeysKept /\ \A c \in Clients : draft[c] # None => record'[draft[c].id] = record[draft[c].id]
    <3>1. Matches(task) /\ \A c \in Clients : draft[c] # None => draft[c].id # task.id
      BY <2>2, KnownMatches
    <3>2. \A c \in Clients : draft[c] # None => draft[c].id \in TaskId
      BY TaskFields DEF SubmissionTypeOK
    <3>3. QED
      BY <2>2, <3>1, <3>2, StoreKeepsKeys
  <2>3. QED
    BY <1>3, <2>1, <2>2
<1>5. \A v \in Workers : echo'[v] # None => Known(echo'[v].task) /\ IsTerminal(echo'[v].task)
  BY EchoKnown
<1>6. QED
  BY <1>1, <1>2, <1>4, <1>5, WorkKnown, KnownStep

\* POST /tasks: a fresh id, which only this handler knows until it is pushed.
LEMMA KeyedRequest ==
    ASSUME Typed, Typed', Keyed, NEW c \in Clients, Request(c)
    PROVE  Keyed'
<1> USE DEF Typed, TypeOK, SubmissionTypeOK
<1>1. proc = "up" /\ UNCHANGED <<job, cur, echo, proc>>
  BY DEF Request, workerVars, recoveryVars, processVars
<1>2. /\ \A i \in 1 .. Len(queue) : Known(queue[i])
      /\ \A w \in Workers : job[w] # None => Known(job[w])
  BY DEF Known, SameTask
<1>3. ASSUME UNCHANGED <<record, digest, queue>>,
             \A d \in Clients : draft'[d] # None =>
                 /\ draft'[d] = draft[d]
                 /\ at'[d] = "save" => at[d] = "save"
                 /\ at'[d] \in {"member", "index", "push"} => at[d] \in {"member", "index", "push"}
      PROVE  Keyed'
  <2>1. QueueKeyed' /\ JobsKeyed' /\ CurKeyed' /\ DigestKeyed'
    BY <1>1, <1>3 DEF Keyed, QueueKeyed, JobsKeyed, CurKeyed, DigestKeyed, Matches, Exists, KeyOf
  <2>2. DraftsApart' /\ DraftsSaved' /\ EchoKeyed'
    BY <1>1, <1>3 DEF Keyed, DraftsApart, DraftsSaved, EchoKeyed, Matches, Exists, KeyOf, Queued
  <2>3. QED
    BY <2>1, <2>2 DEF Keyed
<1>4. CASE ReadMembers(c) \/ NoIncomplete(c) \/ SaveMember(c)
  BY <1>3, <1>4 DEF ReadMembers, NoIncomplete, SaveMember, GoTo, storeVars
<1>5. CASE AnswerIncomplete(c) \/ AnswerDigest(c) \/ TurnAway(c) \/ RequestFails(c)
  BY <1>3, <1>5 DEF AnswerIncomplete, AnswerDigest, TurnAway, RequestFails, Respond, GoTo, storeVars
<1>6. CASE CreateTask(c)
  <2>1. PICK t \in TaskId : FreshId(t) /\ draft' = [draft EXCEPT ![c] = NewTask(t, body[c][1], body[c][2])]
    BY <1>6 DEF CreateTask
  <2>2. /\ draft'[c].id = t /\ draft'[c].status = "pending" /\ at'[c] = "save"
        /\ \A d \in Clients \ {c} : draft'[d] = draft[d] /\ at'[d] = at[d]
        /\ UNCHANGED <<record, digest, queue>>
    BY <1>6, <2>1 DEF CreateTask, NewTask, GoTo, storeVars
  <2>3. ~Exists(t) /\ \A d \in Clients : draft[d] # None => draft[d].id # t
    BY <2>1 DEF FreshId
  <2>4. ~Queued(t) /\ \A w \in Workers : job[w] # None => job[w].id # t
    BY <2>3 DEF Keyed, QueueKeyed, JobsKeyed, Matches, Queued
  <2>5. QueueKeyed' /\ JobsKeyed' /\ CurKeyed' /\ DigestKeyed'
    BY <1>1, <2>2 DEF Keyed, QueueKeyed, JobsKeyed, CurKeyed, DigestKeyed, Matches, Exists, KeyOf
  <2>6. DraftsApart' /\ DraftsSaved'
    BY <1>1, <2>2, <2>3, <2>4 DEF Keyed, DraftsApart, DraftsSaved, Queued, Exists
  <2>7. EchoKeyed'
    BY <1>1, <2>2, <2>3 DEF Keyed, EchoKeyed, Matches, Exists, KeyOf
  <2>8. QED
    BY <2>5, <2>6, <2>7 DEF Keyed
<1>7. CASE SaveRecord(c)
  <2>1. PICK task \in Task : task = draft[c]
    BY <1>7 DEF SaveRecord, DraftTyped
  <2>2. /\ task # None /\ task.id \in TaskId /\ ~Exists(task.id)
        /\ record' = [record EXCEPT ![task.id] = task] /\ UNCHANGED <<digest, queue, draft>>
        /\ at'[c] = "member" /\ \A d \in Clients \ {c} : at'[d] = at[d]
    BY <1>7, <2>1, TaskFields, Constants
       DEF SaveRecord, SetRecordNX, SetRecord, GoTo, ConstantAssumptions
  <2>3. record'[task.id] = task /\ \A t \in TaskId \ {task.id} : record'[t] = record[t]
    BY <2>2 DEF StoreTypeOK
  <2>4. KeysKept
    BY <2>2, <2>3 DEF KeysKept, Exists
  <2>5. QueueKeyed' /\ JobsKeyed'
    <3>1. ASSUME NEW i \in 1 .. Len(queue) PROVE Matches(queue[i])'
      <4>1. queue[i] \in Task /\ Matches(queue[i])
        BY DEF QueueTypeOK, Keyed, QueueKeyed
      <4>2. QED
        BY <2>2, <2>4, <4>1, MatchKept DEF Matches
    <3>2. ASSUME NEW w \in Workers, job[w] # None PROVE Matches(job[w])'
      <4>1. job[w] \in Task /\ Matches(job[w])
        BY <3>2 DEF WorkerTypeOK, Keyed, JobsKeyed
      <4>2. QED
        BY <1>1, <2>4, <4>1, MatchKept DEF Matches
    <3>3. QED
      BY <1>1, <2>2, <3>1, <3>2 DEF QueueKeyed, JobsKeyed
  <2>6. CurKeyed' /\ DigestKeyed'
    BY <1>1, <2>2, <2>4, MatchKept DEF Keyed, CurKeyed, DigestKeyed, KeysKept, Matches, StoreTypeOK, RecoveryTypeOK
  <2>7. DraftsApart'
    BY <1>1, <2>2 DEF Keyed, DraftsApart, Queued
  <2>8. DraftsSaved'
    <3> SUFFICES ASSUME NEW d \in Clients, draft[d] # None
                 PROVE  /\ draft[d].status = "pending"
                        /\ at'[d] = "save" => record'[draft[d].id] = None
                        /\ at'[d] \in {"member", "index", "push"} => record'[draft[d].id] = draft[d]
      BY <1>1, <2>2 DEF Keyed, DraftsSaved, Exists
    <3>1. draft[d].id \in TaskId /\ (d # c => draft[d].id # task.id)
      BY <2>1, <2>2, TaskFields DEF Keyed, DraftsApart
    <3>2. QED
      BY <2>1, <2>2, <2>3, <3>1 DEF Keyed, DraftsSaved, Exists
  <2>9. EchoKeyed'
    <3> SUFFICES ASSUME NEW w \in Workers, echo[w] # None PROVE Matches(echo[w].task)'
      BY <1>1, <2>2 DEF Keyed, EchoKeyed
    <3>1. echo[w].task \in Task /\ Matches(echo[w].task)
      BY DEF WorkerTypeOK, Keyed, EchoKeyed
    <3>2. QED
      BY <1>1, <2>4, <3>1, MatchKept DEF Matches
  <2>10. QED
    BY <2>5, <2>6, <2>7, <2>8, <2>9 DEF Keyed
<1>8. CASE SaveDigest(c)
  <2>1. PICK task \in Task : task = draft[c]
    BY <1>8 DEF SaveDigest, DraftTyped
  <2>2. /\ task # None /\ record[task.id] = task /\ UNCHANGED <<record, queue, draft>>
        /\ digest' = [digest EXCEPT ![KeyOf(task)] = task.id]
        /\ at[c] = "index" /\ at'[c] = "push" /\ \A d \in Clients \ {c} : at'[d] = at[d]
    BY <1>8, <2>1, Constants DEF SaveDigest, SetDigest, GoTo, Keyed, DraftsSaved, ConstantAssumptions
  <2>3. DigestKeyed'
    BY <2>2 DEF Keyed, DigestKeyed, StoreTypeOK, Exists, KeyOf
  <2>4. QueueKeyed' /\ JobsKeyed' /\ CurKeyed'
    BY <1>1, <2>2 DEF Keyed, QueueKeyed, JobsKeyed, CurKeyed, Matches, Exists, KeyOf
  <2>5. DraftsApart' /\ DraftsSaved' /\ EchoKeyed'
    BY <1>1, <2>2 DEF Keyed, DraftsApart, DraftsSaved, EchoKeyed, Matches, Exists, KeyOf, Queued
  <2>6. QED
    BY <2>3, <2>4, <2>5 DEF Keyed
<1>9. CASE PushTask(c)
  <2>1. PICK task \in Task : task = draft[c]
    BY <1>9 DEF PushTask, DraftTyped
  <2>2. /\ task # None /\ record[task.id] = task /\ UNCHANGED <<record, digest>>
        /\ queue' = Append(queue, task) /\ draft'[c] = None
        /\ \A d \in Clients \ {c} : draft'[d] = draft[d] /\ at'[d] = at[d]
    BY <1>9, <2>1, Constants
       DEF PushTask, Enqueue, Respond, GoTo, Keyed, DraftsSaved, ConstantAssumptions, storeVars
  <2>3. \A i \in 1 .. Len(queue') : (i \in 1 .. Len(queue) /\ queue'[i] = queue[i]) \/ queue'[i] = task
    BY <2>2 DEF QueueTypeOK
  <2>4. QueueKeyed'
    BY <2>2, <2>3 DEF Keyed, QueueKeyed, Matches, Exists, KeyOf
  <2>5. JobsKeyed' /\ CurKeyed' /\ DigestKeyed'
    BY <1>1, <2>2 DEF Keyed, JobsKeyed, CurKeyed, DigestKeyed, Matches, Exists, KeyOf
  <2>6. \A d \in Clients : draft'[d] # None => ~Queued(draft[d].id)' /\ draft[d].id # task.id
    BY <2>1, <2>2, <2>3 DEF Keyed, DraftsApart, Queued
  <2>7. DraftsApart' /\ DraftsSaved'
    BY <1>1, <2>2, <2>6 DEF Keyed, DraftsApart, DraftsSaved, Exists
  <2>8. EchoKeyed'
    BY <1>1, <2>2 DEF Keyed, EchoKeyed, Matches, Exists, KeyOf
  <2>9. QED
    BY <2>4, <2>5, <2>7, <2>8 DEF Keyed
<1>10. QED
  BY <1>4, <1>5, <1>6, <1>7, <1>8, <1>9 DEF Request, ContinueRequest

\* The recovery pass: no handler is there yet.
LEMMA KeyedRecover ==
    ASSUME Typed, Typed', Keyed, Recover
    PROVE  Keyed'
<1> USE DEF Typed, TypeOK
<1>1. /\ UNCHANGED <<job, echo, at, draft, proc>> /\ \A c \in Clients : draft[c] = None
  BY DEF Recover, submissionVars, workerVars, processVars, Keyed, DraftsSaved
<1>2. DraftsApart' /\ DraftsSaved'
  BY <1>1 DEF DraftsApart, DraftsSaved
<1>3. ASSUME UNCHANGED queue, KeysKept, UNCHANGED digest
      PROVE  QueueKeyed' /\ JobsKeyed' /\ DigestKeyed' /\ EchoKeyed'
  <2>1. ASSUME NEW i \in 1 .. Len(queue) PROVE Matches(queue[i])'
    <3>1. queue[i] \in Task /\ Matches(queue[i])
      BY DEF QueueTypeOK, Keyed, QueueKeyed
    <3>2. QED
      BY <1>3, <3>1, MatchKept DEF Matches
  <2>2. ASSUME NEW w \in Workers, job[w] # None PROVE Matches(job[w])'
    <3>1. job[w] \in Task /\ Matches(job[w])
      BY <2>2 DEF WorkerTypeOK, Keyed, JobsKeyed
    <3>2. QED
      BY <1>1, <1>3, <3>1, MatchKept DEF Matches
  <2>3. DigestKeyed'
    BY <1>3 DEF Keyed, DigestKeyed, KeysKept, StoreTypeOK
  <2>4. ASSUME NEW w \in Workers, echo[w] # None PROVE Matches(echo[w].task)'
    <3>1. echo[w].task \in Task /\ Matches(echo[w].task)
      BY <2>4 DEF WorkerTypeOK, Keyed, EchoKeyed
    <3>2. QED
      BY <1>1, <1>3, <3>1, MatchKept DEF Matches
  <2>5. QED
    BY <1>1, <1>3, <2>1, <2>2, <2>3, <2>4 DEF QueueKeyed, JobsKeyed, Keyed, EchoKeyed
<1>4. UNCHANGED record => KeysKept
  BY DEF KeysKept, Exists
<1>5. ASSUME NEW t \in TaskId, SkipTerminal(t) PROVE Keyed'
  <2>1. UNCHANGED <<record, digest, queue, cur>>
    BY <1>5 DEF SkipTerminal, storeVars
  <2>2. CurKeyed'
    BY <2>1 DEF Keyed, CurKeyed, Matches, Exists, KeyOf
  <2>3. QED
    BY <1>2, <1>3, <1>4, <2>1, <2>2 DEF Keyed
<1>6. ASSUME NEW t \in TaskId, PickUp(t) PROVE Keyed'
  <2>1. UNCHANGED <<record, digest, queue>> /\ cur' = record[t] /\ Exists(t) /\ record[t].id = t
    BY <1>6 DEF PickUp, RecordNamed, Exists, storeVars
  <2>2. CurKeyed'
    BY <2>1 DEF CurKeyed, Matches, Exists, KeyOf
  <2>3. QED
    BY <1>2, <1>3, <1>4, <2>1, <2>2 DEF Keyed
<1>7. ASSUME NEW t \in TaskId, MarkInterrupted(t) PROVE Keyed'
  <2>1. /\ record[t] \in Task /\ record[t].id = t /\ Exists(t)
        /\ UNCHANGED <<digest, queue>>
    BY <1>7 DEF MarkInterrupted, RecordNamed, Exists, StoreTypeOK
  <2>2. PICK task \in Task : task = Transition(record[t], "interrupted")
    BY <2>1, TransitionTyped DEF TaskStatus
  <2>3. SetRecord(task) /\ cur' = task
    BY <1>7, <2>2 DEF MarkInterrupted, SetRecord
  <2>4. SameTask(task, record[t])
    BY <2>1, <2>2 DEF Task, Transition, SameTask
  <2>5. Matches(task)
    BY <2>1, <2>4 DEF Matches, SameTask, KeyOf
  <2>6. KeysKept
    BY <2>3, <2>5, StoreKeepsKeys
  <2>7. CurKeyed'
    BY <2>3, <2>5, <2>6, MatchKept DEF CurKeyed, Matches
  <2>8. QED
    BY <1>2, <1>3, <2>1, <2>6, <2>7 DEF Keyed
<1>8. CASE EnqueueRecovered
  <2>1. PICK task \in Task : task = cur
    BY <1>8 DEF EnqueueRecovered, RecoveryTypeOK
  <2>2. queue' = Append(queue, task) /\ cur' = None /\ UNCHANGED <<record, digest>> /\ Matches(task)
    BY <1>8, <2>1 DEF EnqueueRecovered, Enqueue, Keyed, CurKeyed, storeVars
  <2>3. \A i \in 1 .. Len(queue') : (i \in 1 .. Len(queue) /\ queue'[i] = queue[i]) \/ queue'[i] = task
    BY <2>2 DEF QueueTypeOK
  <2>4. QueueKeyed'
    BY <2>2, <2>3 DEF Keyed, QueueKeyed, Matches, Exists, KeyOf
  <2>5. JobsKeyed' /\ CurKeyed' /\ DigestKeyed' /\ EchoKeyed'
    BY <1>1, <2>2 DEF Keyed, JobsKeyed, CurKeyed, DigestKeyed, EchoKeyed, Matches, Exists, KeyOf
  <2>6. QED
    BY <1>2, <2>4, <2>5 DEF Keyed
<1>9. QED
  BY <1>5, <1>6, <1>7, <1>8 DEF Recover, RecoveryStep

LEMMA KeyedStep ==
    ASSUME Typed, Life, Keyed, [Next]_vars
    PROVE  Keyed'
<1>1. Typed'
  BY NextTyped
<1>2. CASE Stop \/ Crash
  <2>1. /\ UNCHANGED <<record, digest, queue>> /\ cur' = None
        /\ \A w \in Workers : job'[w] = None /\ echo'[w] = None
        /\ \A c \in Clients : draft'[c] = None
    BY <1>2 DEF Stop, Crash, ProcessEnds, ResetWorkers, DropRequests, storeVars
  <2>2. QED
    BY <2>1 DEF Keyed, QueueKeyed, JobsKeyed, CurKeyed, EchoKeyed, DigestKeyed, DraftsApart, DraftsSaved, Matches,
       Exists, KeyOf
<1>3. CASE /\ UNCHANGED <<record, digest, queue, job, echo, at, draft>> /\ cur' \in {cur, None}
           /\ proc = "up" => proc' = "up"
  BY <1>3 DEF Keyed, QueueKeyed, JobsKeyed, CurKeyed, EchoKeyed, DigestKeyed, DraftsApart, DraftsSaved, Matches,
     Exists, KeyOf, Queued
<1>4. ASSUME NEW w \in Workers, Work(w) PROVE Keyed'
  BY <1>1, <1>4, KeyedWork
<1>5. ASSUME NEW c \in Clients, Request(c) PROVE Keyed'
  BY <1>1, <1>5, KeyedRequest
<1>6. CASE Recover
  BY <1>1, <1>6, KeyedRecover
<1>7. QED
  BY <1>2, <1>3, <1>4, <1>5, <1>6
     DEF Next, Start, ScanKeys, Serve, Signal, Cancel, StopWorkers, CancelWorkers, Retired, LockExpires,
         vars, storeVars, submissionVars, workerVars, recoveryVars, processVars

-----------------------------------------------------------------------------
(***************************************************************************)
(* The digest index, on a Redis server that answers.  A worker that has    *)
(* written an outcome still has the object, and still has the DEL to come, *)
(* whether its update() is waited for or has raised.                       *)
(***************************************************************************)
Owes(w, t) ==
    /\ job[w] # None /\ job[w].id = t
    /\ DeletesDigest(w) \/ (SetsRecord(w) /\ ClearsDigest(job[w]))

\* A worker that has to write an outcome, or delete a digest, lets go of it
\* by no other step.
LEMMA OwesKept ==
    ASSUME ~RedisMayFail, Typed, Life, NEW w \in Workers, Work(w), ~WriteRecord(w), ~ClearDigest(w),
           NEW v \in Workers, NEW t \in TaskId, Owes(v, t)
    PROVE  Owes(v, t)' /\ UNCHANGED <<record, digest>>
<1> USE DEF Typed, TypeOK, WorkerTypeOK, Owes, DeletesDigest, SetsRecord, storeVars
<1>1. CASE TakeTask(w) \/ Acquire(w) \/ LockBusy(w) \/ LeaveLoop(w) \/ Requeue(w)
  <2>1. write[w] = "none"
    BY <1>1 DEF TakeTask, Acquire, LockBusy, LeaveLoop, Requeue, Life, LifeOf
  <2>2. QED
    BY <1>1, <2>1 DEF TakeTask, Acquire, LockBusy, LeaveLoop, Requeue
<1>2. CASE StreamRetriable(w) \/ EnqueueRetry(w) \/ RaiseInside(w) \/ RaiseOutside(w) \/ OrphanEnds(w)
  BY <1>2 DEF StreamRetriable, EnqueueRetry, RaiseInside, RaiseOutside, OrphanEnds
<1>3. CASE Release(w)
  BY <1>3 DEF Release, Settled, Life, LifeOf
<1>4. ASSUME NEW task, NEW point, NEW dies, Update(w, task, point, dies), Settled(w),
             pc[w] \in {"execute", "stream", "retry"}, UNCHANGED storeVars
      PROVE  Owes(v, t)' /\ UNCHANGED <<record, digest>>
  <2>1. v # w
    BY <1>4 DEF Settled, Life, LifeOf
  <2>2. QED
    BY <1>4, <2>1 DEF Update, UpdateReturns, UpdateRaises
<1>5. CASE RejectTask(w) \/ StartRun(w) \/ RetryTask(w) \/ ExhaustTask(w) \/ GiveUp(w)
  BY <1>4, <1>5 DEF RejectTask, StartRun, RetryTask, ExhaustTask, GiveUp, Resumes
<1>6. ASSUME NEW s \in {"success", "failed"}, StreamEnds(w, s)
      PROVE  Owes(v, t)' /\ UNCHANGED <<record, digest>>
  BY <1>4, <1>6 DEF StreamEnds, Update, Resumes
<1>7. QED
  BY <1>1, <1>2, <1>3, <1>5, <1>6
     DEF Work, WorkerStep, StoreStep, InterruptStep, FailureStep, StreamTimesOut, CancelStream,
         Interrupt, CancelInside, CancelOutside

\* No other step of a worker touches the store.
LEMMA StoreUntouched ==
    ASSUME ~RedisMayFail, NEW w \in Workers, Work(w), ~WriteRecord(w), ~ClearDigest(w)
    PROVE  UNCHANGED <<record, digest>>
BY DEF Work, WorkerStep, StoreStep, InterruptStep, FailureStep, TakeTask, Acquire, LockBusy,
   Requeue, RejectTask, StartRun, StreamEnds, StreamRetriable, RetryTask, ExhaustTask, EnqueueRetry,
   Release, LeaveLoop, OrphanEnds, StreamTimesOut, CancelStream, Interrupt, GiveUp, CancelInside,
   RaiseInside, CancelOutside, RaiseOutside, storeVars

\* A key stays fresh when it is not set, active tasks stay active, and the
\* deletions that are due stay due.
LEMMA FreshFrame ==
    ASSUME Typed, NEW k \in DigestKey, ~Stale(k), digest'[k] = digest[k],
           digest[k] # None /\ Active(digest[k]) => Active(digest[k])',
           \A v \in Workers : digest[k] # None /\ Owes(v, digest[k]) => Owes(v, digest[k])'
    PROVE  ~Stale(k)'
<1> DEFINE d == digest[k]
<1>1. CASE d = None
  BY <1>1 DEF Stale
<1>2. CASE d # None /\ Active(d)
  BY <1>2 DEF Stale, Active, Exists
<1>3. CASE d # None /\ ~Active(d)
  <2>1. PICK v \in Workers : Owes(v, d)
    BY <1>3 DEF Stale, Owes
  <2>2. Owes(v, d)'
    BY <1>3, <2>1
  <2>3. QED
    BY <2>2 DEF Stale, Owes, ClearsDigest, IsTerminal
<1>4. QED
  BY <1>1, <1>2, <1>3

LEMMA FreshWork ==
    ASSUME ~RedisMayFail, Typed, Life, Keyed, NEW w \in Workers, Work(w),
           NEW k \in DigestKey, ~Stale(k)
    PROVE  ~Stale(k)'
<1> USE DEF Typed, TypeOK, WorkerTypeOK, StoreTypeOK
<1>0. digest[k] # None => digest[k] \in TaskId /\ Exists(digest[k]) /\ KeyOf(record[digest[k]]) = k
  BY DEF Keyed, DigestKeyed
<1>1. CASE WriteRecord(w)
  <2>1. PICK task \in Task : task = job[w]
    BY <1>1 DEF WriteRecord, SetsRecord, Life, LifeOf
  <2>2. /\ task # None /\ task.id \in TaskId /\ Matches(task)
        /\ record'[task.id] = task /\ \A t \in TaskId \ {task.id} : record'[t] = record[t]
        /\ UNCHANGED <<digest, job>>
        /\ ClearsDigest(task) => write'[w] \in {"del", "late_del"}
        /\ \A v \in Workers \ {w} : write'[v] = write[v]
    BY <1>1, <2>1, TaskFields, Constants
       DEF WriteRecord, SetRecord, SetsRecord, Keyed, JobsKeyed, ConstantAssumptions
  <2>3. CASE digest[k] = task.id
    <3>1. task.requirement # Blank
      BY <1>0, <2>2, <2>3, Constants DEF Matches, KeyOf, DigestKey, ConstantAssumptions
    <3>2. CASE IsTerminal(task)
      BY <2>1, <2>2, <2>3, <3>1, <3>2 DEF Stale, ClearsDigest, DeletesDigest
    <3>3. CASE ~IsTerminal(task)
      BY <2>2, <2>3, <3>3 DEF Stale, Active, Exists
    <3>4. QED
      BY <3>2, <3>3
  <2>4. CASE digest[k] # task.id
    <3>1. digest[k] # None => record'[digest[k]] = record[digest[k]]
      BY <1>0, <2>2, <2>4
    <3>2. ASSUME NEW v \in Workers, digest[k] # None, Owes(v, digest[k]) PROVE Owes(v, digest[k])'
      BY <2>1, <2>2, <2>4, <3>2 DEF Owes, DeletesDigest, SetsRecord, ClearsDigest, IsTerminal
    <3>3. QED
      BY <2>2, <3>1, <3>2, FreshFrame DEF Active, Exists
  <2>5. QED
    BY <2>3, <2>4
<1>2. CASE ClearDigest(w)
  <2>1. PICK task \in Task : task = job[w]
    BY <1>2 DEF ClearDigest, DeletesDigest, Life, LifeOf
  <2>2. /\ task # None /\ Matches(task) /\ UNCHANGED <<record, job>>
        /\ digest' = [digest EXCEPT ![KeyOf(task)] = None]
        /\ \A v \in Workers \ {w} : write'[v] = write[v]
    BY <1>2, <2>1, Constants
       DEF ClearDigest, DeleteDigest, Keyed, JobsKeyed, ConstantAssumptions
  <2>3. CASE digest'[k] = None
    BY <2>3 DEF Stale
  <2>4. CASE digest'[k] # None
    <3>1. k # KeyOf(task) /\ digest'[k] = digest[k]
      BY <2>2, <2>4
    <3>2. digest[k] # task.id
      BY <1>0, <2>2, <2>4, <3>1 DEF Matches
    <3>3. ASSUME NEW v \in Workers, Owes(v, digest[k]) PROVE Owes(v, digest[k])'
      BY <2>1, <2>2, <3>1, <3>2, <3>3 DEF Owes, DeletesDigest, SetsRecord, ClearsDigest, IsTerminal
    <3>4. QED
      BY <2>2, <3>1, <3>3, FreshFrame DEF Active, Exists
  <2>5. QED
    BY <2>3, <2>4
<1>3. CASE ~WriteRecord(w) /\ ~ClearDigest(w)
  BY <1>0, <1>3, StoreUntouched, OwesKept, FreshFrame DEF Active, Exists
<1>4. QED
  BY <1>1, <1>2, <1>3

LEMMA FreshRequest ==
    ASSUME Typed, Keyed, NEW c \in Clients, Request(c), NEW k \in DigestKey, ~Stale(k)
    PROVE  ~Stale(k)'
<1> USE DEF Typed, TypeOK, StoreTypeOK
<1>1. /\ UNCHANGED <<job, write>>
      /\ digest'[k] = digest[k] => \A v \in Workers : Owes(v, digest[k]) => Owes(v, digest[k])'
  BY DEF Request, workerVars, Owes, DeletesDigest, SetsRecord, ClearsDigest, IsTerminal
<1>2. CASE SaveRecord(c)
  <2>1. PICK task \in Task : task = draft[c]
    BY <1>2 DEF SaveRecord, DraftTyped
  <2>2. /\ task.id \in TaskId /\ ~Exists(task.id) /\ UNCHANGED digest
        /\ \A t \in TaskId \ {task.id} : record'[t] = record[t]
    BY <1>2, <2>1, TaskFields DEF SaveRecord, SetRecordNX, SetRecord
  <2>3. \A t \in TaskId : Active(t) => Active(t)'
    BY <2>2 DEF Active, Exists
  <2>4. QED
    BY <1>1, <2>2, <2>3, FreshFrame
<1>3. CASE SaveDigest(c)
  <2>1. PICK task \in Task : task = draft[c]
    BY <1>3 DEF SaveDigest, DraftTyped
  <2>2. /\ digest' = [digest EXCEPT ![KeyOf(task)] = task.id] /\ UNCHANGED record
        /\ task # None /\ record[task.id] = task /\ task.status = "pending"
    BY <1>3, <2>1, Constants DEF SaveDigest, SetDigest, Keyed, DraftsSaved, ConstantAssumptions
  <2>3. CASE k = KeyOf(task)
    BY <2>2, <2>3 DEF Stale, Active, Exists, IsTerminal
  <2>4. CASE k # KeyOf(task)
    BY <1>1, <2>2, <2>4, FreshFrame DEF Active, Exists
  <2>5. QED
    BY <2>3, <2>4
<1>4. CASE ~SaveRecord(c) /\ ~SaveDigest(c)
  <2>1. UNCHANGED <<record, digest>>
    BY <1>4 DEF Request, ContinueRequest, ReadMembers, AnswerIncomplete, NoIncomplete, AnswerDigest,
       CreateTask, TurnAway, SaveMember, PushTask, RequestFails, storeVars
  <2>2. QED
    BY <1>1, <2>1, FreshFrame DEF Active, Exists
<1>5. QED
  BY <1>2, <1>3, <1>4

LEMMA FreshStep ==
    ASSUME ~RedisMayFail, Typed, Life, Keyed, [Next]_vars, NEW k \in DigestKey, ~Stale(k), proc' # "down"
    PROVE  ~Stale(k)'
<1> USE DEF Typed, TypeOK, StoreTypeOK
<1>1. UNCHANGED <<digest, job, write>> => \A v \in Workers : Owes(v, digest[k]) => Owes(v, digest[k])'
  BY DEF Owes, DeletesDigest, SetsRecord, ClearsDigest, IsTerminal
<1>2. CASE Recover
  <2>1. UNCHANGED <<digest, job, write>>
    BY <1>2 DEF Recover, RecoveryStep, SkipTerminal, MarkInterrupted, PickUp, EnqueueRecovered,
       workerVars, storeVars
  <2>2. ASSUME NEW s \in TaskId, Active(s) PROVE Active(s)'
    <3>1. CASE UNCHANGED record
      BY <2>2, <3>1 DEF Active, Exists
    <3>2. ASSUME NEW t \in TaskId, MarkInterrupted(t) PROVE Active(s)'
      <4>1. record[t] \in Task /\ record[t].id = t
        BY <3>2 DEF MarkInterrupted, RecordNamed, Exists
      <4>2. PICK task \in Task : task = Transition(record[t], "interrupted") /\ task.id = t
                                   /\ task.status = "interrupted"
        BY <4>1, TransitionTyped DEF TaskStatus
      <4>3. record' = [record EXCEPT ![t] = task]
        BY <3>2, <4>2 DEF MarkInterrupted, SetRecord
      <4>4. CASE s = t
        BY <4>2, <4>3, <4>4, Constants DEF Active, Exists, IsTerminal, ConstantAssumptions
      <4>5. CASE s # t
        BY <2>2, <4>3, <4>5 DEF Active, Exists
      <4>6. QED
        BY <4>4, <4>5
    <3>3. QED
      BY <1>2, <3>1, <3>2 DEF Recover, RecoveryStep, SkipTerminal, PickUp, EnqueueRecovered, storeVars
  <2>3. QED
    BY <1>1, <2>1, <2>2, FreshFrame
<1>3. CASE UNCHANGED <<record, digest, job, write>>
  BY <1>1, <1>3, FreshFrame DEF Active, Exists
<1>4. ASSUME NEW w \in Workers, Work(w) PROVE ~Stale(k)'
  BY <1>4, FreshWork
<1>5. ASSUME NEW c \in Clients, Request(c) PROVE ~Stale(k)'
  BY <1>5, FreshRequest
<1>6. QED
  BY <1>2, <1>3, <1>4, <1>5
     DEF Next, Start, Serve, Signal, Cancel, StopWorkers, CancelWorkers, Stop, Crash, ProcessEnds, Retired,
         LockExpires, vars, storeVars, workerVars

\* As long as Redis answers, a digest key becomes stale in one way only: the
\* process ends between the SET and the DEL of an update().  This is so over
\* any number of starts, kills, handlers and workers, whether or not update()
\* is able to wait for its commands, and with several copies of a task about.
\* (store.py 91-94, 103-127; api.py 154-164)
THEOREM StaleDigestsComeFromProcessEnd ==
    ASSUME ~RedisMayFail
    PROVE  Spec => DigestsGoStaleWithProcess
<1> DEFINE Inv == Typed /\ Life /\ Keyed
           Ends == \A k \in DigestKey : Stale(k)' /\ ~Stale(k) => proc' = "down"
<1>1. Init => Inv
  BY InitTyped, LifeInit, KeyedInit
<1>2. Inv /\ [Next]_vars => Inv'
  BY NextTyped, LifeStep, KeyedStep
<1>3. Inv /\ [Next]_vars => [Ends]_vars
  BY FreshStep
<1>4. QED
  BY <1>1, <1>2, <1>3, PTL DEF Spec, DigestsGoStaleWithProcess

-----------------------------------------------------------------------------
(***************************************************************************)
(* The code as built.  Without a bridge every update() raises, the one     *)
(* that would lead to the stream too, so no copy of a task, and no record, *)
(* ever says that it was executed.                                         *)
(***************************************************************************)
Unexecuted(task) == task # None => task.status # "success"
NoneStarted ==
    /\ \A w \in Workers :
         /\ pc[w] \notin {"stream", "retry", "enqueue"} /\ ~orphan[w] /\ echo[w] = None
         /\ Unexecuted(job[w])
    /\ \A i \in 1 .. Len(queue) : queue[i].status # "success"
    /\ \A t \in TaskId : Unexecuted(record[t])
    /\ \A c \in Clients : Unexecuted(draft[c])
    /\ Unexecuted(cur)

LEMMA NoneStartedWork ==
    ASSUME ~BridgeWorks, Typed, Life, NoneStarted, NEW w \in Workers, Work(w)
    PROVE  NoneStarted'
<1> USE DEF Typed, TypeOK, WorkerTypeOK, QueueTypeOK, JobTyped
<1>1. UNCHANGED <<draft, cur>>
  BY DEF Work, submissionVars, recoveryVars
<1>2. CASE TakeTask(w)
  <2>1. queue # <<>> /\ queue' = Tail(queue) /\ job' = [job EXCEPT ![w] = Head(queue)]
        /\ pc' = [pc EXCEPT ![w] = "acquire"] /\ UNCHANGED <<record, orphan, echo>>
    BY <1>2 DEF TakeTask, Dequeue, Goto, storeVars
  <2>2. /\ Head(queue) = queue[1] /\ 1 \in 1 .. Len(queue)
        /\ \A i \in 1 .. Len(queue') : queue'[i] = queue[i + 1] /\ i + 1 \in 1 .. Len(queue)
    BY <2>1
  <2>3. QED
    BY <1>1, <2>1, <2>2 DEF NoneStarted, Unexecuted
<1>3. CASE Requeue(w)
  <2>1. PICK task \in Task : task = job[w]
    BY <1>3 DEF Requeue
  <2>2. /\ queue' = Append(queue, task) /\ task.status # "success" /\ UNCHANGED <<record, orphan, echo>>
        /\ job' = [job EXCEPT ![w] = None] /\ pc' \in {[pc EXCEPT ![w] = "idle"], [pc EXCEPT ![w] = "dead"]}
    BY <1>3, <2>1, Constants
       DEF Requeue, Enqueue, Goto, LoopHead, NoneStarted, Unexecuted, ConstantAssumptions, storeVars
  <2>3. \A i \in 1 .. Len(queue') : (i \in 1 .. Len(queue) /\ queue'[i] = queue[i]) \/ queue'[i] = task
    BY <2>2
  <2>4. QED
    BY <1>1, <2>2, <2>3 DEF NoneStarted, Unexecuted
<1>4. ASSUME NEW s \in {"running", "failed"}, NEW point, pc[w] = "execute",
             Update(w, Transition(job[w], s), point, FALSE), UNCHANGED <<record, queue, orphan, echo>>
      PROVE  NoneStarted'
  <2>1. Transition(job[w], s).status # "success"
    BY <1>4, TransitionTyped DEF TaskStatus
  <2>2. job' = [job EXCEPT ![w] = Transition(job[w], s)] /\ pc' = [pc EXCEPT ![w] = "release"]
    BY <1>4 DEF Update, UpdateReturns, UpdateRaises, Goto
  <2>3. QED
    BY <1>1, <1>4, <2>1, <2>2 DEF NoneStarted, Unexecuted
<1>5. CASE RejectTask(w) \/ StartRun(w)
  BY <1>4, <1>5 DEF RejectTask, StartRun, storeVars
<1>6. CASE Acquire(w) \/ LockBusy(w) \/ LeaveLoop(w) \/ RaiseInside(w)
  BY <1>1, <1>6 DEF Acquire, LockBusy, LeaveLoop, RaiseInside, Goto, NoneStarted, Unexecuted, storeVars
<1>7. CASE Release(w) \/ RaiseOutside(w)
  BY <1>1, <1>7 DEF Release, RaiseOutside, LoopHead, Goto, NoneStarted, Unexecuted, storeVars
<1>8. CASE ClearDigest(w) \/ LoseWrite(w) \/ OrphanEnds(w)
  BY <1>1, <1>8 DEF ClearDigest, LoseWrite, OrphanEnds, NoneStarted, Unexecuted, storeVars
<1>9. CASE WriteRecord(w)
  <2>1. PICK task \in Task : task = job[w]
    BY <1>9 DEF WriteRecord, SetsRecord, Life, LifeOf
  <2>2. /\ record' = [record EXCEPT ![task.id] = task] /\ task.status # "success"
        /\ UNCHANGED <<queue, job, pc, orphan, echo>>
    BY <1>9, <2>1, Constants DEF WriteRecord, SetRecord, NoneStarted, Unexecuted, ConstantAssumptions
  <2>3. \A t \in TaskId : record'[t] \in {record[t], task}
    BY <2>2 DEF StoreTypeOK
  <2>4. QED
    BY <1>1, <2>2, <2>3 DEF NoneStarted, Unexecuted
<1>10. pc[w] \notin {"stream", "retry", "enqueue"} /\ echo[w] = None
  BY DEF NoneStarted
<1>11. QED
  BY <1>2, <1>3, <1>5, <1>6, <1>7, <1>8, <1>9, <1>10
     DEF Work, WorkerStep, StoreStep, InterruptStep, FailureStep, StreamEnds, StreamRetriable, RetryTask,
         ExhaustTask, EnqueueRetry, StreamTimesOut, CancelStream, Interrupt, GiveUp, CancelInside,
         CancelOutside, CommandRaises, SuccessNotRecorded, WriteEcho, ClearEcho, LoseEcho, PublishTimesOut

LEMMA NoneStartedRequest ==
    ASSUME Typed, NoneStarted, NEW c \in Clients, Request(c)
    PROVE  NoneStarted'
<1> USE DEF Typed, TypeOK, SubmissionTypeOK
<1>1. UNCHANGED <<pc, job, orphan, echo, cur>>
  BY DEF Request, workerVars, recoveryVars
<1>2. ASSUME UNCHANGED <<record, queue>>,
             \A d \in Clients : draft'[d] \in {draft[d], None} \/ draft'[d].status = "pending"
      PROVE  NoneStarted'
  BY <1>1, <1>2 DEF NoneStarted, Unexecuted
<1>3. CASE ReadMembers(c) \/ NoIncomplete(c) \/ SaveMember(c) \/ SaveDigest(c)
  BY <1>2, <1>3 DEF ReadMembers, NoIncomplete, SaveMember, SaveDigest, storeVars
<1>4. CASE AnswerIncomplete(c) \/ AnswerDigest(c) \/ TurnAway(c) \/ RequestFails(c)
  BY <1>2, <1>4 DEF AnswerIncomplete, AnswerDigest, TurnAway, RequestFails, Respond, storeVars
<1>5. CASE CreateTask(c)
  BY <1>2, <1>5 DEF CreateTask, NewTask, storeVars
<1>6. CASE SaveRecord(c) \/ PushTask(c)
  <2>1. PICK task \in Task : task = draft[c]
    BY <1>6 DEF SaveRecord, PushTask, DraftTyped
  <2>2. /\ task.status # "success" /\ \A d \in Clients : draft'[d] \in {draft[d], None}
        /\ UNCHANGED record \/ record' = [record EXCEPT ![task.id] = task]
        /\ UNCHANGED queue \/ queue' = Append(queue, task)
    BY <1>6, <2>1, Constants DEF SaveRecord, SetRecordNX, SetRecord, PushTask, Enqueue, Respond,
       NoneStarted, Unexecuted, ConstantAssumptions, storeVars
  <2>3. \A t \in TaskId : record'[t] \in {record[t], task}
    BY <2>2 DEF StoreTypeOK
  <2>4. \A i \in 1 .. Len(queue') : (i \in 1 .. Len(queue) /\ queue'[i] = queue[i]) \/ queue'[i] = task
    BY <2>2 DEF QueueTypeOK
  <2>5. QED
    BY <1>1, <2>2, <2>3, <2>4 DEF NoneStarted, Unexecuted
<1>7. QED
  BY <1>3, <1>4, <1>5, <1>6 DEF Request, ContinueRequest

LEMMA NoneStartedRecover ==
    ASSUME Typed, NoneStarted, Recover
    PROVE  NoneStarted'
<1> USE DEF Typed, TypeOK
<1>1. UNCHANGED <<pc, job, orphan, echo, draft>>
  BY DEF Recover, submissionVars, workerVars
<1>2. ASSUME NEW t \in TaskId, SkipTerminal(t) \/ PickUp(t) PROVE NoneStarted'
  BY <1>1, <1>2 DEF SkipTerminal, PickUp, NoneStarted, Unexecuted, storeVars
<1>3. ASSUME NEW t \in TaskId, MarkInterrupted(t) PROVE NoneStarted'
  <2>1. record[t] \in Task
    BY <1>3 DEF MarkInterrupted, Exists, StoreTypeOK
  <2>2. PICK task \in Task : task = Transition(record[t], "interrupted") /\ task.status = "interrupted"
    BY <2>1, TransitionTyped DEF TaskStatus
  <2>3. cur' = task /\ record' = [record EXCEPT ![task.id] = task] /\ UNCHANGED queue
    BY <1>3, <2>2 DEF MarkInterrupted, SetRecord
  <2>4. \A s \in TaskId : record'[s] \in {record[s], task}
    BY <2>3 DEF StoreTypeOK
  <2>5. QED
    BY <1>1, <2>2, <2>3, <2>4 DEF NoneStarted, Unexecuted
<1>4. CASE EnqueueRecovered
  <2>1. PICK task \in Task : task = cur /\ task # None
    BY <1>4 DEF EnqueueRecovered, RecoveryTypeOK
  <2>2. queue' = Append(queue, task) /\ cur' = None /\ UNCHANGED record /\ task.status # "success"
    BY <1>4, <2>1 DEF EnqueueRecovered, Enqueue, NoneStarted, Unexecuted, storeVars
  <2>3. \A i \in 1 .. Len(queue') : (i \in 1 .. Len(queue) /\ queue'[i] = queue[i]) \/ queue'[i] = task
    BY <2>2 DEF QueueTypeOK
  <2>4. QED
    BY <1>1, <2>2, <2>3 DEF NoneStarted, Unexecuted
<1>5. QED
  BY <1>2, <1>3, <1>4 DEF Recover, RecoveryStep

LEMMA NoneStartedStep ==
    ASSUME ~BridgeWorks, Typed, Life, NoneStarted, [Next]_vars
    PROVE  NoneStarted'
<1>1. CASE Stop \/ Crash
  BY <1>1 DEF Stop, Crash, ProcessEnds, ResetWorkers, DropRequests, NoneStarted, Unexecuted, storeVars
<1>2. CASE UNCHANGED <<record, queue, draft, pc, job, orphan, echo>> /\ cur' \in {cur, None}
  BY <1>2 DEF NoneStarted, Unexecuted
<1>3. QED
  BY <1>1, <1>2, NoneStartedWork, NoneStartedRequest, NoneStartedRecover
     DEF Next, Start, ScanKeys, Serve, Signal, Cancel, StopWorkers, CancelWorkers, Retired, LockExpires,
         vars, storeVars, submissionVars, workerVars, recoveryVars

\* As built, the program executes nothing: no engine thread is ever started
\* and no task is ever recorded as a success, over all restarts and whatever
\* else fails. (store.py 103-112; worker.py 143-210)
THEOREM AsBuiltNothingExecutes ==
    ASSUME ~BridgeWorks
    PROVE  Spec => []NothingExecutes
<1>1. Init => NoneStarted
  BY DEF Init, StoreInit, QueueInit, SubmissionInit, WorkerInit, RecoveryInit, NoneStarted, Unexecuted
<1>2. Typed /\ Life /\ NoneStarted /\ [Next]_vars => NoneStarted'
  BY NoneStartedStep
<1>3. NoneStarted => NothingExecutes
  BY DEF NoneStarted, NothingExecutes, Unexecuted, EngineRuns, Exists
<1>4. QED
  BY <1>1, <1>2, <1>3, InitTyped, NextTyped, LifeInit, LifeStep, PTL DEF Spec
=============================================================================
