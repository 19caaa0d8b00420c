SPECIFICATION FairSpec
CONSTANTS
  None = None
  Blank = Blank
  TaskId = {t1, t2}
  Project = {p1}
  Requirement = {}
  Workers = {w1, w2}
  Clients = {c1}
  MaxRetries = 1
  BridgeWorks = TRUE
  StreamTimeouts = FALSE
  RedisMayFail = FALSE
  LockMayLapse = FALSE
  MaxStarts = 2
  MayCrash = TRUE
INVARIANTS TypeOK NoTaskStranded RunningMeansExecuting EngineExclusive
PROPERTY EveryTaskSettles
