CONSTANTS
  Payloads = {a, b}
  MaxFrames = 3
SPECIFICATION Spec
SYMMETRY Symmetry
INVARIANT EverySealSurvives
