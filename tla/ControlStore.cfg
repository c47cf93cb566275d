CONSTANTS
  Runs = {r1, r2}
  Keys = {k}
  None = None
  MaxRuns = 2
  MaxEvents = 0
  MaxFaults = 1
  MaxCrashes = 1
SPECIFICATION ClientsSpec
SYMMETRY Symmetry
INVARIANTS
  AnswersAgree
  OneFinish
  CatalogIsSaved
PROPERTY
  LatchedCatalogIsFrozen
