SPECIFICATION Spec
CONSTANTS
  None = None
  Blank = Blank
  TaskId = {t1, t2}
  Project = {p1}
  Requirement = {r1}
  Workers = {w1, w2}
  Clients = {c1}
  MaxRetries = 1
  BridgeWorks = FALSE
  StreamTimeouts = TRUE
  RedisMayFail = FALSE
  LockMayLapse = FALSE
  MaxStarts = 2
  MayCrash = TRUE
SYMMETRY Symmetry
INVARIANTS OneTaskPerLostSlot NothingExecutes
PROPERTY DigestsGoStaleWithProcess
