SPECIFICATION Spec
CONSTANTS
  MaxRelease = 3
  PersonLimit = 3
  FaultLimit = 1
  NoBranch = NoBranch
INVARIANT LockPairProposed
