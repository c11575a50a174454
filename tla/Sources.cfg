SPECIFICATION MCSpec
CONSTANTS
  Downloads = {d1, d2}
  Versions = {v1, v2}
  Commits = {c1, c2}
  Configs = {g1, g2}
  Selections <- MCSelections
  None = None
  Torn = Torn
  ChangeLimit = 4
  Archives <- MCArchives
  Parts = {"a", "b", ".."}
  Root <- MCRoot
  Depth = 3
  Unknown = Unknown
  Empty = Empty
  Partial = Partial
  AttemptLimit = 3
SYMMETRY Symmetry
INVARIANTS
  
  RestoredConsistent
  CollectedRestores
  LinksConfined
PROPERTY OneTrueVerdict
CHECK_DEADLOCK FALSE
