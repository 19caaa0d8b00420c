SPECIFICATION Spec
CONSTANTS
  None = None
  Blank = Blank
  TaskId = {t1}
  Project = {p1}
  Requirement = {r1}
  Workers = {w1, w2}
  Clients = {c1}
  MaxRetries = 1
  BridgeWorks = TRUE
  StreamTimeouts = TRUE
  RedisMayFail = TRUE
  LockMayLapse = TRUE
  MaxStarts = 2
  MayCrash = TRUE
SYMMETRY Symmetry
INVARIANTS LocksLeakOnlyByDeath OneTaskPerLostSlot
PROPERTIES RecoveryComplete LockFreedByHolder
