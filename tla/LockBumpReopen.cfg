SPECIFICATION Spec
CONSTANTS
  MaxRelease = 3
  PersonLimit = 3
  FaultLimit = 0
  NoBranch = NoBranch
PROPERTY NotReopened
