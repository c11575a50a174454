SPECIFICATION FairSpec
CONSTANTS
  MaxRelease = 3
  PersonLimit = 3
  FaultLimit = 2
  NoBranch = NoBranch
INVARIANTS BranchIsItsVersion
PROPERTIES NeverOverwritten NeverDowngrades RejectionHolds MissingRequestMadeGood
