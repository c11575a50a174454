SPECIFICATION Spec
CONSTANTS
  j1 = j1
  j2 = j2
  j3 = j3
  wanted = wanted
  other = other
  Jobs <- MCJobs
  Volumes <- MCVolumes
  Wanted <- wanted
  Ram = Ram
  None = None
  ChangeLimit = 2
SYMMETRY SymmetricJobs
CHECK_DEADLOCK FALSE
INVARIANTS OneTransfer VerifiedVolume StatusOfTransfer
PROPERTIES SuccessIsEarned ResultNotLost ImplementsService
