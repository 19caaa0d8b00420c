SPECIFICATION Spec
CONSTANTS
  None = None
  Blank = Blank
  TaskId = {t1}
  Project = {p1}
  Requirement = {r1}
  Workers = {w1, w2}
  Clients = {c1}
  MaxRetries = 1
  BridgeWorks = FALSE
  StreamTimeouts = FALSE
  RedisMayFail = FALSE
  LockMayLapse = FALSE
  MaxStarts = 2
  MayCrash = TRUE
SYMMETRY Symmetry
PROPERTY TerminalIsFinal
