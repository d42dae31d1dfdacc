SPECIFICATION Spec
CONSTANTS
  None = None
  Runs = {r1}
  Databases = {d1, d2}
  RequireRemoteCompletion = TRUE
  CaptureOutcomes = {"good", "mismatch", "failed"}
  PhysicalOutcomes = {"none"}
  Modes = {"direct"}
  Faults = {"commit", "history"}
  Validating = TRUE
SYMMETRY Symmetry
INVARIANTS CompletedIsWhole RemoteEvidence
PROPERTIES CompletedFinal
CHECK_DEADLOCK FALSE
