CONSTANTS
  Backends = {"compat-local-process", "mock-data", "gvisor-container"}
  Streams = {s, t}
  Datagram = {t}
  Width = 3
  MaxRecords = 4
  MaxFaults = 2
SPECIFICATION Spec
INVARIANTS
  AcceptedIsFaithful
  HonestIsAccepted
  CoverageIsExact
CHECK_DEADLOCK FALSE
