SPECIFICATION LeaseFairSpec
CONSTANTS
  Workers = {w1, w2, w3}
  Project = {p1, p2}
  Unreliable = {w2, w3}
  TTL = 6
  Interval = 2
  MaxLag = 1
  None = None
INVARIANTS LeaseTypeOK LeaseHeld
PROPERTIES ImplementsProjectLock DeadLocksLapse
