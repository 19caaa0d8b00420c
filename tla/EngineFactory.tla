--------------------------- MODULE EngineFactory ---------------------------
(***************************************************************************)
(* The engine cache of src/engine_factory.py.  A task names a work_dir and *)
(* a config_json; get() answers with an engine built for them, or with the *)
(* one it built for an equal request before.  An engine is identified with *)
(* the configuration it was built from; the sha256 of config_json is taken *)
(* as injective, so a key holds the text itself.  Strings of white space   *)
(* and JSON null act as the empty string, which is Blank.                  *)
(***************************************************************************)
EXTENDS Naturals, FiniteSets

CONSTANTS
    WorkDir, Model, ApiKey,      \* non-blank values
    Blank,                       \* "", white space, null
    Absent,                      \* the key is missing from config_json
    NoConfig,                    \* the task carries no config_json
    Error,                       \* get() raised
    EnvWorkDir, EnvModel, EnvApiKey,   \* settings
    MaxCached                    \* bound: engines in the cache

ASSUME FactoryAssumption ==
    /\ Blank \notin WorkDir /\ Absent \notin WorkDir
    /\ EnvWorkDir \in WorkDir
    /\ EnvModel \in Model \cup {Blank} /\ EnvApiKey \in ApiKey \cup {Blank}
    /\ MaxCached \in Nat

Field(S) == S \cup {Blank, Absent}
ConfigJson == [work_dir : Field(WorkDir), model : Field(Model), api_key : Field(ApiKey)]

ASSUME SentinelAssumption ==
    /\ NoConfig \notin ConfigJson
    /\ Error \notin [work_dir : WorkDir, model : Field(Model), api_key : Field(ApiKey)]

GetRequest == [work_dir : WorkDir \cup {Blank}, config : ConfigJson \cup {NoConfig}]
Engine == [work_dir : WorkDir, model : Model \cup {Blank}, api_key : ApiKey \cup {Blank}]
CacheKey == WorkDir \X (ConfigJson \cup {NoConfig})

VARIABLES
    cache,     \* function from the keys in use to engines
    answer     \* the last call: its request and its result

factoryVars == <<cache, answer>>

FactoryTypeOK ==
    /\ DOMAIN cache \subseteq CacheKey
    /\ cache \in [DOMAIN cache -> Engine]
    /\ answer \in [request : GetRequest, result : Engine \cup {Error}]

-----------------------------------------------------------------------------
\* Request parameter, then config_json, then CIO_WORK_DIR.
ExtractWorkDir(config) ==
    IF config # NoConfig /\ config.work_dir \in WorkDir THEN config.work_dir ELSE Blank

ResolveWorkDir(request) ==
    LET inside == ExtractWorkDir(request.config)
    IN  IF request.work_dir # Blank THEN request.work_dir
        ELSE IF inside # Blank THEN inside ELSE EnvWorkDir

\* Mutant of CacheKeyOf: the configuration is left out of the key.
KeyOfDirectory(request) == <<ResolveWorkDir(request), NoConfig>>

CacheKeyOf(request) == <<ResolveWorkDir(request), request.config>>

\* Mutant of Overlay: nothing is filled in.
OverlayNothing(field, default) == field

\* {**baseline, **parsed}: a key that is present wins, blank or not.
Overlay(field, default) == IF field = Absent THEN default ELSE field

\* Mutant of MergeWithDefaults: work_dir is overlaid like the other fields.
MergeAllFields(config, dir) ==
    [work_dir |-> IF config.work_dir \in WorkDir THEN config.work_dir ELSE dir,
     model |-> Overlay(config.model, EnvModel),
     api_key |-> Overlay(config.api_key, EnvApiKey)]

MergeWithDefaults(config, dir) ==
    [work_dir |-> dir,
     model |-> Overlay(config.model, EnvModel),
     api_key |-> Overlay(config.api_key, EnvApiKey)]

\* What the engine of a request is built from; without config_json it is
\* the environment (or the YAML file, which plays the same part).
ConfigFor(request) ==
    LET dir == ResolveWorkDir(request)
    IN  IF request.config = NoConfig
        THEN [work_dir |-> dir, model |-> EnvModel, api_key |-> EnvApiKey]
        ELSE MergeWithDefaults(request.config, dir)

\* _merge_with_env_defaults raises on an empty model or api_key; without
\* config_json only the CIO library looks at them.
Refused(request) ==
    /\ request.config # NoConfig
    /\ \/ ConfigFor(request).model = Blank
       \/ ConfigFor(request).api_key = Blank

-----------------------------------------------------------------------------
FactoryInit ==
    /\ cache = [k \in {} |-> Error]
    /\ answer = [request |-> [work_dir |-> Blank, config |-> NoConfig], result |-> Error]

Answer(request, result) == answer' = [request |-> request, result |-> result]

CacheHit(request) ==
    /\ CacheKeyOf(request) \in DOMAIN cache
    /\ Answer(request, cache[CacheKeyOf(request)])
    /\ UNCHANGED cache

BuildEngine(request) ==
    LET key == CacheKeyOf(request)
    IN  /\ key \notin DOMAIN cache /\ Cardinality(DOMAIN cache) < MaxCached
        /\ ~Refused(request)
        /\ cache' = [k \in DOMAIN cache \cup {key} |->
                        IF k = key THEN ConfigFor(request) ELSE cache[k]]
        /\ Answer(request, ConfigFor(request))

\* The merge refuses, or config.validate() or a constructor of the CIO
\* library raises; nothing is cached.
BuildFails(request) ==
    /\ CacheKeyOf(request) \notin DOMAIN cache
    /\ Answer(request, Error)
    /\ UNCHANGED cache

\* clear_cache, used by the tests.
ClearCache == cache' = [k \in {} |-> Error] /\ UNCHANGED answer

FactoryNext ==
    \/ \E r \in GetRequest : CacheHit(r) \/ BuildEngine(r) \/ BuildFails(r)
    \/ ClearCache

FactorySpec == FactoryInit /\ [][FactoryNext]_factoryVars

-----------------------------------------------------------------------------
\* A request is answered with the engine it would get from an empty cache:
\* whatever was built before, for whom, no other task's configuration is
\* handed out. (engine_factory.py 275-295)
CacheIsTransparent ==
    answer.result # Error => answer.result = ConfigFor(answer.request)

\* What config_schema.py says of the merge: a model or api_key that is absent
\* or blank is filled in from the settings, so that a request is refused only
\* when the settings have none either. (engine_factory.py 125-148)
Lacks(field, default) == field \in {Blank, Absent} /\ default = Blank
BlankFallsBack ==
    Refused(answer.request) =>
        \/ Lacks(answer.request.config.model, EnvModel)
        \/ Lacks(answer.request.config.api_key, EnvApiKey)
=============================================================================
