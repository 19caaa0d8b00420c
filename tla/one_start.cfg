SPECIFICATION Spec
CONSTANTS
  None = None
  Blank = Blank
  TaskId = {t1, t2}
  Project = {p1, p2}
  Requirement = {r1}
  Workers = {w1, w2}
  Clients = {c1}
  MaxRetries = 1
  BridgeWorks = TRUE
  StreamTimeouts = TRUE
  RedisMayFail = FALSE
  LockMayLapse = FALSE
  MaxStarts = 1
  MayCrash = TRUE
SYMMETRY Symmetry
INVARIANTS SingleCopy DedupHolds
PROPERTIES ImplementsLifecycle TerminalIsFinal DigestsGoStaleWithProcess
