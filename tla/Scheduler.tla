------------------------------ MODULE Scheduler ------------------------------
(***************************************************************************)
(* Scheduler.decide of src/scheduler.py and what depends on it: the runs   *)
(* of the CIO engine, at most one per project at a time because the worker *)
(* holds the project lock.  The engine and its files are external, modelled*)
(* from how _stream of src/worker.py uses them: a run creates the project, *)
(* one that is cut short may leave a checkpoint, RESUME goes on from the   *)
(* checkpoint that is there, NEW and SECONDARY start over.  A run whose    *)
(* worker has given up on it goes on in its thread, beside the next one.   *)
(***************************************************************************)
EXTENDS Naturals, FiniteSets

CONSTANTS
    TaskId,
    Place,             \* a project in a work directory
    EmptyTasks,        \* tasks whose requirement is empty
    None,
    Unreadable,        \* places on whose files the CIO library may raise
    MaxStrays          \* bound: engine threads without a worker in a place

ASSUME SchedulerAssumption ==
    /\ EmptyTasks \subseteq TaskId
    /\ None \notin TaskId
    /\ Unreadable \subseteq Place
    /\ MaxStrays \in Nat

Mode == {"new", "resume", "secondary"}
Run == [task : TaskId, mode : Mode]

VARIABLES
    exists,        \* the project is in work_dir
    checkpoint,    \* the task whose unfinished run left one, or None
    run,           \* the run in progress, or None
    strays,        \* tasks whose engine thread goes on without a worker
    disturbed      \* there has been such a thread since the process started

schedulerVars == <<exists, checkpoint, run, strays, disturbed>>

SchedulerInit ==
    /\ exists \in [Place -> BOOLEAN]
    /\ checkpoint = [p \in Place |-> None]
    /\ run = [p \in Place |-> None]
    /\ strays = [p \in Place |-> {}]
    /\ disturbed = [p \in Place |-> FALSE]

\* What project_exists() and checkpoint_exists() may answer for project p.
Answers(p, truth) ==
    {IF truth THEN "yes" ELSE "no"} \cup {x \in {"raised"} : p \in Unreadable}

\* Mutants of ModeFor: a checkpoint is only looked for on behalf of an empty
\* requirement; a check that raises counts as a checkpoint.
ModeWithoutResume(t, there, found) ==
    IF t \in EmptyTasks THEN (IF found = "yes" THEN "resume" ELSE "refused")
    ELSE IF there = "yes" THEN "secondary" ELSE "new"
ModeHopingForCheckpoint(t, there, found) ==
    IF t \in EmptyTasks THEN (IF found = "no" THEN "refused" ELSE "resume")
    ELSE IF there # "yes" THEN "new"
    ELSE IF found = "yes" THEN "resume" ELSE "secondary"

\* The decision; a check that raised counts as "no".
ModeFor(t, there, found) ==
    IF t \in EmptyTasks THEN (IF found = "yes" THEN "resume" ELSE "refused")
    ELSE IF there # "yes" THEN "new"
    ELSE IF found = "yes" THEN "resume" ELSE "secondary"

\* Mutant of Decide: no ValueError on an empty requirement.
DecideAnyway(p, t) ==
    /\ run[p] = None
    /\ \E there \in Answers(p, exists[p]), found \in Answers(p, checkpoint[p] # None) :
        run' = [run EXCEPT ![p] = [task |-> t, mode |-> ModeFor(t, there, found)]]
    /\ UNCHANGED <<exists, checkpoint, strays, disturbed>>

\* decide() chooses a mode and the run starts.  On "refused" it raises
\* ValueError and nothing of this state changes.
Decide(p, t) ==
    /\ run[p] = None
    /\ \E there \in Answers(p, exists[p]), found \in Answers(p, checkpoint[p] # None) :
        /\ ModeFor(t, there, found) # "refused"
        /\ run' = [run EXCEPT ![p] = [task |-> t, mode |-> ModeFor(t, there, found)]]
    /\ UNCHANGED <<exists, checkpoint, strays, disturbed>>

\* decide() may raise ValueError.
Refuses(p, t) ==
    \E there \in Answers(p, exists[p]), found \in Answers(p, checkpoint[p] # None) :
        ModeFor(t, there, found) = "refused"

\* The engine writes the project's files, and this is the checkpoint then.
EngineWrites(p, left) ==
    /\ exists' = [exists EXCEPT ![p] = TRUE]
    /\ checkpoint' = [checkpoint EXCEPT ![p] = left]

RunEnds(p) == run[p] # None /\ run' = [run EXCEPT ![p] = None]

RunCompletes(p) == RunEnds(p) /\ EngineWrites(p, None) /\ UNCHANGED <<strays, disturbed>>

\* By an error of the engine or the end of the process: it has saved its
\* work, or not got that far.
RunCutShort(p) ==
    /\ RunEnds(p)
    /\ \/ EngineWrites(p, run[p].task)
       \/ UNCHANGED checkpoint /\ exists' \in {exists, [exists EXCEPT ![p] = TRUE]}
    /\ UNCHANGED <<strays, disturbed>>

\* The await on the thread is cancelled, by the stream timeout or the
\* shutdown; the thread is not.  (Threads of the same task count as one.)
RunAbandoned(p) ==
    /\ RunEnds(p) /\ Cardinality(strays[p]) < MaxStrays
    /\ strays' = [strays EXCEPT ![p] = @ \cup {run[p].task}]
    /\ disturbed' = [disturbed EXCEPT ![p] = TRUE]
    /\ UNCHANGED <<exists, checkpoint>>

\* It goes on saving its work until it completes or breaks off.
StraySaves(p) ==
    /\ \E t \in strays[p] : EngineWrites(p, t)
    /\ UNCHANGED <<run, strays, disturbed>>
StrayEnds(p) ==
    /\ \E t \in strays[p] : strays' = [strays EXCEPT ![p] = @ \ {t}]
    /\ EngineWrites(p, None) \/ UNCHANGED <<exists, checkpoint>>
    /\ UNCHANGED <<run, disturbed>>

\* The process ends, and its threads with it.
ThreadsEnd ==
    /\ \A p \in Place : run[p] = None
    /\ strays' = [p \in Place |-> {}]
    /\ disturbed' = [p \in Place |-> FALSE]
    /\ UNCHANGED <<exists, checkpoint, run>>

EngineActs(p) ==
    RunCompletes(p) \/ RunCutShort(p) \/ RunAbandoned(p) \/ StraySaves(p) \/ StrayEnds(p)

SchedulerNext ==
    \/ \E p \in Place : EngineActs(p) \/ \E t \in TaskId : Decide(p, t)
    \/ ThreadsEnd

SchedulerSpec == SchedulerInit /\ [][SchedulerNext]_schedulerVars

-----------------------------------------------------------------------------
SchedulerTypeOK ==
    /\ exists \in [Place -> BOOLEAN]
    /\ checkpoint \in [Place -> TaskId \cup {None}]
    /\ run \in [Place -> Run \cup {None}]
    /\ strays \in [Place -> SUBSET TaskId]
    /\ disturbed \in [Place -> BOOLEAN]

\* A run that was told to resume has a checkpoint to go on from until it
\* ends, and an empty requirement leads to no other kind of run, even when
\* the files cannot be read.  Only a thread that was left behind can take the
\* checkpoint away. (scheduler.py 102-124, 144-160; worker.py 245-254)
ResumeHasCheckpoint ==
    \A p \in Place : run[p] # None =>
        /\ run[p].mode = "resume" => checkpoint[p] # None \/ disturbed[p]
        /\ run[p].task \in EmptyTasks => run[p].mode = "resume"

\* The work an interrupted run saved is only ever used up by a run that
\* resumes from it; no NEW or SECONDARY run starts over on top of it.
\* Only of projects whose files can be read, and where no thread was left
\* behind. (scheduler.py 128-166; worker.py 245-254)
CheckpointSurvives ==
    [][\A p \in Place \ Unreadable : checkpoint[p] # None /\ checkpoint'[p] # checkpoint[p]
           => disturbed[p] \/ run[p].mode = "resume"]_schedulerVars
=============================================================================
