CONSTANTS
  Runs = {c}
  Keys = {}
  None = None
  MaxRuns = 1
  MaxEvents = 2
  MaxFaults = 0
  MaxCrashes = 1
  GvisorRuns = {}
SPECIFICATION PlaneSpec
INVARIANT InterruptedRunsReload
