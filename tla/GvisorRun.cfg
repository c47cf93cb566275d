CONSTANTS
  MaxSamples = 1
  MaxFaults = 2
SPECIFICATION FairSpec
INVARIANTS
  TypeOK
  HealthIsFinal
  ResourcesAreOwned
  PublishedIsCleanedUp
  CleanupFollowsCollection
PROPERTIES
  ImplementsReservation
  GoroutineEnds
