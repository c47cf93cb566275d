CONSTANTS
  Runs = {c, g}
  Keys = {}
  None = None
  MaxRuns = 1
  MaxEvents = 2
  MaxFaults = 1
  MaxCrashes = 1
  GvisorRuns = {g}
SPECIFICATION FairSpec
INVARIANTS
  PlaneTypeOK
  ReservationRecorded
  FinishIsLast
  PublishedBundleMatches
  RefusalsExplained
PROPERTIES
  ImplementsLifecycle
  ImplementsFeed
  StartedRunsSettle
  EndedRunsAreExplained
