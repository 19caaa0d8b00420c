---------------------------- MODULE DispatchProofs ----------------------------
(***************************************************************************)
(* The engine cache, the scheduler and their composition, for any          *)
(* directories, configurations, settings, tasks and projects.  What is     *)
(* proved of FactorySpec and SchedulerSpec carries over because the        *)
(* composition implements both.                                            *)
(***************************************************************************)
EXTENDS Dispatch, TLAPS

-----------------------------------------------------------------------------
\* Type correctness of the cache. (engine_factory.py 262-295)
THEOREM FactoryTyped == FactorySpec => []FactoryTypeOK
<1> USE FactoryAssumption DEF FactoryTypeOK
<1>1. FactoryInit => FactoryTypeOK
  BY DEF FactoryInit, GetRequest
<1>2. FactoryTypeOK /\ [FactoryNext]_factoryVars => FactoryTypeOK'
  <2> SUFFICES ASSUME FactoryTypeOK, [FactoryNext]_factoryVars PROVE FactoryTypeOK'
    OBVIOUS
  <2>1. ASSUME NEW r \in GetRequest
        PROVE  CacheKeyOf(r) \in CacheKey /\ (~Refused(r) => ConfigFor(r) \in Engine)
    BY DEF GetRequest, ConfigJson, Field, CacheKey, CacheKeyOf, ResolveWorkDir,
       ExtractWorkDir, Engine, ConfigFor, MergeWithDefaults, Overlay
  <2>2. ASSUME NEW r \in GetRequest, CacheHit(r) PROVE FactoryTypeOK'
    BY <2>2 DEF CacheHit, Answer
  <2>3. ASSUME NEW r \in GetRequest, BuildEngine(r) PROVE FactoryTypeOK'
    BY <2>1, <2>3 DEF BuildEngine, Answer
  <2>4. ASSUME NEW r \in GetRequest, BuildFails(r) PROVE FactoryTypeOK'
    BY <2>4 DEF BuildFails, Answer
  <2>5. CASE ClearCache
    BY <2>5 DEF ClearCache
  <2>6. CASE UNCHANGED factoryVars
    BY <2>6 DEF factoryVars
  <2>7. QED
    BY <2>2, <2>3, <2>4, <2>5, <2>6 DEF FactoryNext
<1>3. QED
  BY <1>1, <1>2, PTL DEF FactorySpec

\* Every engine in the cache was built for a request with its key, ...
CacheSound ==
    /\ \A k \in DOMAIN cache : \E r \in GetRequest :
           k = CacheKeyOf(r) /\ cache[k] = ConfigFor(r)
    /\ CacheIsTransparent

\* ... and requests with the same key want the same engine: the directory
\* and the text of config_json decide everything an engine is built from.
LEMMA KeyDeterminesConfig ==
    ASSUME NEW r \in GetRequest, NEW s \in GetRequest, CacheKeyOf(r) = CacheKeyOf(s)
    PROVE  ConfigFor(r) = ConfigFor(s)
BY DEF CacheKeyOf, ConfigFor

LEMMA CacheSoundAlways == FactorySpec => []CacheSound
<1>1. FactoryInit => CacheSound
  BY DEF FactoryInit, CacheSound, CacheIsTransparent
<1>2. CacheSound /\ [FactoryNext]_factoryVars => CacheSound'
  <2> SUFFICES ASSUME CacheSound, [FactoryNext]_factoryVars PROVE CacheSound'
    OBVIOUS
  <2>1. ASSUME NEW r \in GetRequest, CacheHit(r) PROVE CacheSound'
    <3>1. PICK s \in GetRequest : CacheKeyOf(r) = CacheKeyOf(s) /\ cache[CacheKeyOf(r)] = ConfigFor(s)
      BY <2>1 DEF CacheHit, CacheSound
    <3>2. cache[CacheKeyOf(r)] = ConfigFor(r)
      BY <3>1, KeyDeterminesConfig
    <3>3. QED
      BY <2>1, <3>2 DEF CacheHit, CacheSound, CacheIsTransparent, Answer
  <2>2. ASSUME NEW r \in GetRequest, BuildEngine(r) PROVE CacheSound'
    BY <2>2 DEF BuildEngine, CacheSound, CacheIsTransparent, Answer
  <2>3. ASSUME NEW r \in GetRequest, BuildFails(r) PROVE CacheSound'
    BY <2>3 DEF BuildFails, CacheSound, CacheIsTransparent, Answer
  <2>4. CASE ClearCache
    BY <2>4 DEF ClearCache, CacheSound, CacheIsTransparent
  <2>5. CASE UNCHANGED factoryVars
    BY <2>5 DEF factoryVars, CacheSound, CacheIsTransparent
  <2>6. QED
    BY <2>1, <2>2, <2>3, <2>4, <2>5 DEF FactoryNext
<1>3. QED
  BY <1>1, <1>2, PTL DEF FactorySpec

\* No sequence of requests makes the cache answer with an engine of another
\* configuration. (engine_factory.py 275-295)
THEOREM CacheTransparent == FactorySpec => []CacheIsTransparent
<1>1. CacheSound => CacheIsTransparent
  BY DEF CacheSound
<1>2. QED
  BY <1>1, CacheSoundAlways, PTL

-----------------------------------------------------------------------------
\* A thread that was left behind has been noted.
StraysNoted == \A p \in Place : strays[p] # {} => disturbed[p]
SchedulerInvariant == SchedulerTypeOK /\ ResumeHasCheckpoint /\ StraysNoted

LEMMA SchedulerAlways == SchedulerSpec => []SchedulerInvariant
<1> USE SchedulerAssumption
        DEF SchedulerInvariant, SchedulerTypeOK, ResumeHasCheckpoint, StraysNoted, Run, Mode
<1>1. SchedulerInit => SchedulerInvariant
  BY DEF SchedulerInit
<1>2. SchedulerInvariant /\ [SchedulerNext]_schedulerVars => SchedulerInvariant'
  <2> SUFFICES ASSUME SchedulerInvariant, [SchedulerNext]_schedulerVars PROVE SchedulerInvariant'
    OBVIOUS
  <2>1. ASSUME NEW p \in Place, NEW t \in TaskId, Decide(p, t) PROVE SchedulerInvariant'
    BY <2>1 DEF Decide, ModeFor, Answers
  <2>2. ASSUME NEW p \in Place, RunCompletes(p) \/ RunCutShort(p) PROVE SchedulerInvariant'
    BY <2>2 DEF RunCompletes, RunCutShort, RunEnds, EngineWrites
  <2>3. ASSUME NEW p \in Place, RunAbandoned(p) PROVE SchedulerInvariant'
    BY <2>3 DEF RunAbandoned, RunEnds
  <2>4. ASSUME NEW p \in Place, StraySaves(p) \/ StrayEnds(p) PROVE SchedulerInvariant'
    <3>1. PICK t \in strays[p] : strays' \in {strays, [strays EXCEPT ![p] = @ \ {t}]}
      BY <2>4 DEF StraySaves, StrayEnds
    <3>2. UNCHANGED <<run, disturbed>> /\ disturbed[p]
      BY <2>4, <3>1 DEF StraySaves, StrayEnds
    <3>3. /\ exists' \in {exists, [exists EXCEPT ![p] = TRUE]}
          /\ \E left \in TaskId \cup {None} : checkpoint' \in {checkpoint, [checkpoint EXCEPT ![p] = left]}
      BY <2>4 DEF StraySaves, StrayEnds, EngineWrites
    <3>4. SchedulerTypeOK'
      BY <3>1, <3>2, <3>3
    <3>5. ResumeHasCheckpoint' /\ StraysNoted'
      BY <3>1, <3>2, <3>3
    <3>6. QED
      BY <3>4, <3>5
  <2>5. CASE ThreadsEnd
    BY <2>5 DEF ThreadsEnd
  <2>6. CASE UNCHANGED schedulerVars
    BY <2>6 DEF schedulerVars
  <2>7. QED
    BY <2>1, <2>2, <2>3, <2>4, <2>5, <2>6 DEF SchedulerNext, EngineActs
<1>3. QED
  BY <1>1, <1>2, PTL DEF SchedulerSpec

\* RESUME is never chosen without a checkpoint, and an empty requirement
\* never starts over, whatever the file checks answer or fail to answer; a
\* checkpoint that is being resumed goes only where a thread was left behind.
\* (scheduler.py 102-124, 144-160; worker.py 245-254)
THEOREM ResumesHaveCheckpoints == SchedulerSpec => []ResumeHasCheckpoint
<1>1. SchedulerInvariant => ResumeHasCheckpoint
  BY DEF SchedulerInvariant
<1>2. QED
  BY <1>1, SchedulerAlways, PTL

\* What keeps a checkpoint from being overwritten: it lies in a project that
\* exists, and a run that starts over started where there was none.
FreshStart ==
    \A p \in Place \ Unreadable :
        /\ checkpoint[p] # None => exists[p]
        /\ run[p] # None /\ run[p].mode # "resume" => checkpoint[p] = None \/ disturbed[p]

LEMMA FreshStartStep ==
    ASSUME SchedulerInvariant, FreshStart, SchedulerNext
    PROVE  FreshStart'
<1> USE SchedulerAssumption
        DEF SchedulerInvariant, SchedulerTypeOK, StraysNoted, FreshStart, Run, Mode
<1>1. ASSUME NEW p \in Place, NEW t \in TaskId, Decide(p, t) PROVE FreshStart'
  BY <1>1 DEF Decide, ModeFor, Answers
<1>2. ASSUME NEW p \in Place, RunCompletes(p) \/ RunCutShort(p) \/ RunAbandoned(p) PROVE FreshStart'
  BY <1>2 DEF RunCompletes, RunCutShort, RunAbandoned, RunEnds, EngineWrites
<1>3. ASSUME NEW p \in Place, StraySaves(p) \/ StrayEnds(p) PROVE FreshStart'
  BY <1>3 DEF StraySaves, StrayEnds, EngineWrites
<1>4. CASE ThreadsEnd
  BY <1>4 DEF ThreadsEnd
<1>5. QED
  BY <1>1, <1>2, <1>3, <1>4 DEF SchedulerNext, EngineActs

LEMMA FreshStartAlways == SchedulerSpec => []FreshStart
<1>1. SchedulerInit => FreshStart
  BY DEF SchedulerInit, FreshStart
<1>2. SchedulerInvariant /\ FreshStart /\ [SchedulerNext]_schedulerVars => FreshStart'
  BY FreshStartStep DEF FreshStart, schedulerVars
<1>3. QED
  BY <1>1, <1>2, SchedulerAlways, PTL DEF SchedulerSpec

\* Of a project whose files can be read, interrupted work is used up by a run
\* that resumes it and by no other, as long as no thread was left behind.
\* (scheduler.py 128-166; worker.py 245-254)
THEOREM CheckpointsSurvive == SchedulerSpec => CheckpointSurvives
<1> DEFINE Survives == \A p \in Place \ Unreadable : checkpoint[p] # None /\ checkpoint'[p] # checkpoint[p]
                          => disturbed[p] \/ run[p].mode = "resume"
           Good == SchedulerInvariant /\ FreshStart
<1>1. ASSUME Good, SchedulerNext PROVE Survives
  <2> USE <1>1 DEF SchedulerInvariant, SchedulerTypeOK, StraysNoted, FreshStart
  <2>1. ASSUME NEW p \in Place, RunCompletes(p) \/ RunCutShort(p) PROVE Survives
    BY <2>1 DEF RunCompletes, RunCutShort, RunEnds, EngineWrites
  <2>2. ASSUME NEW p \in Place, StraySaves(p) \/ StrayEnds(p) PROVE Survives
    BY <2>2 DEF StraySaves, StrayEnds, EngineWrites
  <2>3. CASE UNCHANGED checkpoint
    BY <2>3
  <2>4. QED
    BY <2>1, <2>2, <2>3 DEF SchedulerNext, EngineActs, Decide, RunAbandoned, ThreadsEnd
<1>2. Good /\ [SchedulerNext]_schedulerVars => [Survives]_schedulerVars
  BY <1>1
<1>3. QED
  BY <1>2, FreshStartAlways, SchedulerAlways, PTL DEF SchedulerSpec, CheckpointSurvives

-----------------------------------------------------------------------------
\* The place a task asks for.
Asked(t) == <<ResolveWorkDir(RequestOf[t]), ProjectOf[t]>>

\* Whatever the cache holds, get() leads a task to the place it asks for.
LEMMA EngineOfTask ==
    ASSUME CacheSound, NEW t \in TaskId, GetsEngine(t)
    PROVE  /\ PlaceOf(answer'.result, t) = Asked(t)
           /\ Asked(t) \in Place
<1> DEFINE r == RequestOf[t]
<1>1. r \in GetRequest /\ ProjectOf[t] \in Project
  BY DispatchAssumption
<1>2. answer'.result = ConfigFor(r)
  <2>1. CASE CacheHit(r)
    <3>1. PICK s \in GetRequest : CacheKeyOf(r) = CacheKeyOf(s) /\ cache[CacheKeyOf(r)] = ConfigFor(s)
      BY <2>1 DEF CacheHit, CacheSound
    <3>2. QED
      BY <1>1, <2>1, <3>1, KeyDeterminesConfig DEF CacheHit, Answer
  <2>2. CASE BuildEngine(r)
    BY <2>2 DEF BuildEngine, Answer
  <2>3. QED
    BY <2>1, <2>2 DEF GetsEngine
<1>3. ConfigFor(r).work_dir = ResolveWorkDir(r)
  BY DEF ConfigFor, MergeWithDefaults
<1>4. ResolveWorkDir(r) \in WorkDir
  BY <1>1, FactoryAssumption DEF ResolveWorkDir, ExtractWorkDir, GetRequest, ConfigJson, Field
<1>5. QED
  BY <1>1, <1>2, <1>3, <1>4, DispatchAssumption DEF PlaceOf, Asked

LEMMA DispatchIsFactory == DispatchSpec => FactorySpec
<1>1. DispatchInit => FactoryInit
  BY DEF DispatchInit
<1>2. [DispatchNext]_dispatchVars => [FactoryNext]_factoryVars
  BY DispatchAssumption DEF DispatchNext, dispatchVars, StartTask, RefuseTask, FailTask,
     GetsEngine, EngineStep, Restart, FactoryNext
<1>3. QED
  BY <1>1, <1>2, PTL DEF DispatchSpec, FactorySpec

LEMMA DispatchIsScheduler == DispatchSpec => SchedulerSpec
<1>1. DispatchInit => SchedulerInit
  BY DEF DispatchInit
<1>2. CacheSound /\ [DispatchNext]_dispatchVars => [SchedulerNext]_schedulerVars
  <2> SUFFICES ASSUME CacheSound, [DispatchNext]_dispatchVars
               PROVE  SchedulerNext \/ UNCHANGED schedulerVars
    OBVIOUS
  <2>1. ASSUME NEW t \in TaskId, StartTask(t) PROVE SchedulerNext
    BY <2>1, EngineOfTask DEF StartTask, SchedulerNext
  <2>2. ASSUME NEW t \in TaskId, RefuseTask(t) \/ FailTask(t) PROVE UNCHANGED schedulerVars
    BY <2>2 DEF RefuseTask, FailTask
  <2>3. ASSUME NEW k \in Place, EngineStep(k) PROVE SchedulerNext
    BY <2>3 DEF EngineStep, SchedulerNext
  <2>4. CASE Restart \/ UNCHANGED dispatchVars
    BY <2>4 DEF Restart, SchedulerNext, dispatchVars
  <2>5. QED
    BY <2>1, <2>2, <2>3, <2>4 DEF DispatchNext
<1>3. QED
  BY <1>1, <1>2, DispatchIsFactory, CacheSoundAlways, PTL DEF DispatchSpec, SchedulerSpec

\* What the factory and the scheduler guarantee each on its own holds where
\* the worker puts them together. (worker.py 143-176)
THEOREM DispatchInherits ==
    DispatchSpec => /\ [](FactoryTypeOK /\ CacheIsTransparent)
                    /\ [](SchedulerTypeOK /\ ResumeHasCheckpoint)
                    /\ CheckpointSurvives
<1>1. DispatchSpec => [](FactoryTypeOK /\ CacheIsTransparent)
  BY DispatchIsFactory, FactoryTyped, CacheTransparent, PTL
<1>2. DispatchSpec => [](SchedulerTypeOK /\ ResumeHasCheckpoint)
  <2>1. SchedulerInvariant => SchedulerTypeOK /\ ResumeHasCheckpoint
    BY DEF SchedulerInvariant
  <2>2. QED
    BY <2>1, DispatchIsScheduler, SchedulerAlways, PTL
<1>3. DispatchSpec => CheckpointSurvives
  BY DispatchIsScheduler, CheckpointsSurvive, PTL
<1>4. QED
  BY <1>1, <1>2, <1>3

\* Runs, threads and checkpoints are where their task asked for them.
AllWhereAsked ==
    /\ RunsWhereAsked
    /\ \A k \in Place : \A t \in strays[k] : k = Asked(t)
    /\ \A k \in Place : checkpoint[k] # None => k = Asked(checkpoint[k])

LEMMA AllWhereAskedAlways == DispatchSpec => []AllWhereAsked
<1>1. DispatchInit => AllWhereAsked
  BY DEF DispatchInit, SchedulerInit, AllWhereAsked, RunsWhereAsked
<1>2. CacheSound /\ SchedulerTypeOK /\ AllWhereAsked /\ [DispatchNext]_dispatchVars
          => AllWhereAsked'
  <2> SUFFICES ASSUME CacheSound, SchedulerTypeOK, AllWhereAsked, [DispatchNext]_dispatchVars
               PROVE  AllWhereAsked'
    OBVIOUS
  <2> USE SchedulerAssumption DEF SchedulerTypeOK, AllWhereAsked, RunsWhereAsked, Run, Mode, Asked
  <2>1. ASSUME NEW t \in TaskId, StartTask(t) PROVE AllWhereAsked'
    <3>1. Decide(Asked(t), t) /\ Asked(t) \in Place
      BY <2>1, EngineOfTask DEF StartTask
    <3>2. QED
      BY <3>1 DEF Decide
  <2>2. ASSUME NEW t \in TaskId, RefuseTask(t) \/ FailTask(t) PROVE AllWhereAsked'
    BY <2>2 DEF RefuseTask, FailTask, schedulerVars
  <2>3. ASSUME NEW k \in Place, RunCompletes(k) \/ RunCutShort(k) \/ RunAbandoned(k)
        PROVE  AllWhereAsked'
    BY <2>3 DEF RunCompletes, RunCutShort, RunAbandoned, RunEnds, EngineWrites
  <2>4. ASSUME NEW k \in Place, StraySaves(k) \/ StrayEnds(k) PROVE AllWhereAsked'
    BY <2>4 DEF StraySaves, StrayEnds, EngineWrites
  <2>5. CASE Restart
    BY <2>5 DEF Restart, ThreadsEnd
  <2>6. CASE UNCHANGED dispatchVars
    BY <2>6 DEF dispatchVars, schedulerVars
  <2>7. QED
    BY <2>1, <2>2, <2>3, <2>4, <2>5, <2>6 DEF DispatchNext, EngineStep, EngineActs
<1>3. DispatchSpec => [](CacheSound /\ SchedulerTypeOK)
  BY DispatchIsFactory, CacheSoundAlways, DispatchInherits, PTL
<1>4. QED
  BY <1>1, <1>2, <1>3, PTL DEF DispatchSpec

\* No engine works in a directory its task did not ask for.
\* (worker.py 145-176; engine_factory.py 78-102)
THEOREM TasksRunWhereAsked == DispatchSpec => []RunsWhereAsked
<1>1. AllWhereAsked => RunsWhereAsked
  BY DEF AllWhereAsked
<1>2. QED
  BY <1>1, AllWhereAskedAlways, PTL

\* A task that comes back goes on from its own checkpoint.
\* (worker.py 145-176; scheduler.py 128-166)
THEOREM InterruptedTasksResume == DispatchSpec => InterruptedTaskResumes
<1> DEFINE Good == CacheSound /\ SchedulerTypeOK /\ FreshStart /\ AllWhereAsked
           Resumes == \A t \in TaskId, k \in Place \ Unreadable : checkpoint[k] = t /\ Begins(t)
                          => run'[k] = [task |-> t, mode |-> "resume"]
<1>1. DispatchSpec => []Good
  BY DispatchIsFactory, CacheSoundAlways, DispatchIsScheduler, DispatchInherits,
     FreshStartAlways, AllWhereAskedAlways, PTL
<1>2. ASSUME Good, DispatchNext PROVE Resumes
  <2> USE SchedulerAssumption, <1>2 DEF SchedulerTypeOK, Begins
  <2>1. ASSUME NEW t \in TaskId, StartTask(t) PROVE Resumes
    <3>1. Decide(Asked(t), t) /\ Asked(t) \in Place
      BY <2>1, EngineOfTask DEF StartTask
    <3>2. ASSUME NEW s \in TaskId, NEW k \in Place \ Unreadable, checkpoint[k] = s, Begins(s)
          PROVE  run'[k] = [task |-> s, mode |-> "resume"]
      <4>1. s = t
        BY <3>1, <3>2 DEF Decide
      <4>2. k = Asked(t)
        BY <3>2, <4>1 DEF AllWhereAsked
      <4>3. exists[k] /\ checkpoint[k] # None
        BY <3>2 DEF FreshStart
      <4>4. QED
        BY <3>1, <4>1, <4>2, <4>3 DEF Decide, ModeFor, Answers
    <3>3. QED
      BY <3>2
  <2>2. ASSUME NEW t \in TaskId, RefuseTask(t) \/ FailTask(t) PROVE Resumes
    BY <2>2 DEF RefuseTask, FailTask, schedulerVars
  <2>3. ASSUME NEW k \in Place, EngineStep(k) PROVE Resumes
    BY <2>3 DEF EngineStep, EngineActs, RunCompletes, RunCutShort, RunAbandoned, RunEnds,
       StraySaves, StrayEnds
  <2>4. CASE Restart
    BY <2>4 DEF Restart, ThreadsEnd
  <2>5. QED
    BY <2>1, <2>2, <2>3, <2>4 DEF DispatchNext
<1>3. Good /\ [DispatchNext]_dispatchVars => [Resumes]_dispatchVars
  BY <1>2
<1>4. QED
  BY <1>1, <1>3, PTL DEF DispatchSpec, InterruptedTaskResumes
=============================================================================
