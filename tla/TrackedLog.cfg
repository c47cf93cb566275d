CONSTANTS
  Payloads = {a, b}
  MaxFrames = 3
SPECIFICATION Spec
SYMMETRY Symmetry
INVARIANTS
  TypeOK
  IInv
  AcknowledgedSurvives
  SealSurvives
  CleanLogReopens
PROPERTY
  SealedFileIsFinal
