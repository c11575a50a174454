SPECIFICATION Spec
CONSTANTS
  c1 = c1
  c2 = c2
  config = config
  list = list
  Commits <- MCCommits
  ConfigOf <- MCConfigOf
  PackagesOf <- MCPackagesOf
  Place <- MCPlace
  SourceAssets <- MCSourceAssets
  FirmwareAssets <- MCFirmwareAssets
  None = None
  Torn = Torn
  BuildLimit = 3
  MoveLimit = 2
  FaultLimit = 1
SYMMETRY SymmetricCommits
CHECK_DEADLOCK FALSE
INVARIANTS CompletePair SteadyPairMatches ReleasedWithItsSources
PROPERTIES RetainedWhole
