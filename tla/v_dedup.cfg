SPECIFICATION Spec
CONSTANTS
  None = None
  Blank = Blank
  TaskId = {t1, t2}
  Project = {p1}
  Requirement = {r1}
  Workers = {w1, w2}
  Clients = {c1, c2}
  MaxRetries = 1
  BridgeWorks = FALSE
  StreamTimeouts = FALSE
  RedisMayFail = FALSE
  LockMayLapse = FALSE
  MaxStarts = 1
  MayCrash = FALSE
SYMMETRY Symmetry
INVARIANT DedupHolds
