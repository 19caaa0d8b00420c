SPECIFICATION BridgeFairSpec
CONSTANTS
  LoopCallers = {c1, c2, c3}
  ThreadCallers = {e1, e2}
  Nobody = Nobody
INVARIANTS BridgeTypeOK NoCallReturns WriteAfterFailure
PROPERTY LateWriteHappens
