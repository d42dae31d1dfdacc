SPECIFICATION Spec
CONSTANTS
  None = None
  Runs = {r1}
  Databases = {d1, d2}
  RequireRemoteCompletion = TRUE
  CaptureOutcomes = {"good", "mismatch", "corrupt", "scoped", "failed"}
  PhysicalOutcomes = {"none", "success", "failed"}
  Modes = {"direct", "off", "legacy"}
  Faults = {"start", "manifest", "commit", "state", "final", "history", "cleanup", "reconcile"}
  Validating = FALSE
SYMMETRY Symmetry
INVARIANTS TypeOK CompletedIsWhole SuccessMeansCompleted PinnedIsPublished ScheduleServed
PROPERTIES SuccessServesSlot ImplementsRecoveryPoint
CHECK_DEADLOCK FALSE
