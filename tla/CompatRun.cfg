CONSTANTS
  MaxWrites = 2
  MaxFaults = 2
  Deadline = "may pass"
SPECIFICATION FairSpec
INVARIANTS
  TypeOK
  EvidenceIsComplete
  DestroyedHasEnded
PROPERTIES
  ImplementsReservation
  GoroutineEnds
