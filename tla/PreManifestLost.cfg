SPECIFICATION Spec
CONSTANTS
  None = None
  Runs = {r1}
  Databases = {d1}
  RequireRemoteCompletion = TRUE
  CaptureOutcomes = {"good"}
  PhysicalOutcomes = {"none"}
  Modes = {"direct"}
  Faults = {"premanifest"}
  Validating = FALSE
INVARIANT SuccessMeansCompleted
CHECK_DEADLOCK FALSE
