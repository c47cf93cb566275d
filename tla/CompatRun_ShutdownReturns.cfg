CONSTANTS
  MaxWrites = 0
  MaxFaults = 1
  Deadline = "none"
SPECIFICATION FairSpec
PROPERTY ShutdownReturns
CHECK_DEADLOCK FALSE
