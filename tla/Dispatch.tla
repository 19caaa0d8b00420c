------------------------------ MODULE Dispatch ------------------------------
(***************************************************************************)
(* How _run_locked of src/worker.py gets from a task to a run of the CIO   *)
(* engine: factory.get() answers with an engine and its scheduler, decide()*)
(* of that scheduler looks at the project's files in the directory of that *)
(* engine, and the engine works there.  The two components are composed;   *)
(* the project lock, which is per project name whatever the directory,     *)
(* keeps a second run away.                                                *)
(***************************************************************************)
EXTENDS EngineFactory, Scheduler

CONSTANTS
    Project,
    ProjectOf,     \* project_name of each task
    RequestOf      \* its work_dir and config_json

ASSUME DispatchAssumption ==
    /\ Place = WorkDir \X Project
    /\ ProjectOf \in [TaskId -> Project]
    /\ RequestOf \in [TaskId -> GetRequest]

dispatchVars == <<factoryVars, schedulerVars>>

DispatchInit == FactoryInit /\ SchedulerInit

\* The worker holds the lock of the task's project, and get() has answered.
Unlocked(p) == \A d \in WorkDir : run[<<d, p>>] = None
GetsEngine(t) ==
    /\ Unlocked(ProjectOf[t])
    /\ CacheHit(RequestOf[t]) \/ BuildEngine(RequestOf[t])

\* The engine and the scheduler of a pair work in the same directory.
PlaceOf(engine, t) == <<engine.work_dir, ProjectOf[t]>>

\* get() answers, decide() chooses a mode, and the stream starts, ...
StartTask(t) == GetsEngine(t) /\ Decide(PlaceOf(answer'.result, t), t)

\* ... or decide() raises ValueError, ...
RefuseTask(t) ==
    /\ GetsEngine(t) /\ Refuses(PlaceOf(answer'.result, t), t)
    /\ UNCHANGED schedulerVars

\* ... or get() itself raises; the task has failed.
FailTask(t) ==
    /\ Unlocked(ProjectOf[t]) /\ BuildFails(RequestOf[t])
    /\ UNCHANGED schedulerVars

\* A run ends or is given up, or a thread that was left behind goes on.
EngineStep(k) == EngineActs(k) /\ UNCHANGED factoryVars

\* A new process has an empty cache.  (The end of the old one has cut short
\* what was running.)
Restart == ThreadsEnd /\ ClearCache

DispatchNext ==
    \/ \E t \in TaskId : StartTask(t) \/ RefuseTask(t) \/ FailTask(t)
    \/ \E k \in Place : EngineStep(k)
    \/ Restart

DispatchSpec == DispatchInit /\ [][DispatchNext]_dispatchVars

-----------------------------------------------------------------------------
\* Every run takes place in the directory its own task asked for, also when
\* its engine was built for another task. (worker.py 145-176;
\* engine_factory.py 78-102, 246-259)
RunsWhereAsked ==
    \A k \in Place : run[k] # None =>
        k = <<ResolveWorkDir(RequestOf[run[k].task]), ProjectOf[run[k].task]>>

\* A task that was cut short and comes back, by retry or by recovery, from
\* the cache or after a restart, goes on from its own checkpoint, unless
\* another task of the project has used it up or the files cannot be read.
\* (worker.py 145-176; scheduler.py 128-166)
Begins(t) == \E j \in Place : run[j] = None /\ run'[j] # None /\ run'[j].task = t
InterruptedTaskResumes ==
    [][\A t \in TaskId, k \in Place \ Unreadable : checkpoint[k] = t /\ Begins(t)
           => run'[k] = [task |-> t, mode |-> "resume"]]_dispatchVars
=============================================================================
