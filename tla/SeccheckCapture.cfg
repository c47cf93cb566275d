CONSTANTS
  MaxProduced = 4
  MaxFaults = 2
SPECIFICATION FairSpec
INVARIANTS
  DrainedAccountsForAll
  CollectedIsAccepted
PROPERTY CollectionEnds
CHECK_DEADLOCK FALSE
