SPECIFICATION Spec
CONSTANTS
  None = None
  Runs = {r1, r2}
  Databases = {d1}
  RequireRemoteCompletion = TRUE
  CaptureOutcomes = {"good"}
  PhysicalOutcomes = {"none"}
  Modes = {"direct"}
  Faults = {}
  Validating = TRUE
PROPERTY HistoryKept
CHECK_DEADLOCK FALSE
