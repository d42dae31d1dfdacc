SPECIFICATION Spec
CONSTANTS
  None = None
  Runs = {1, 2, 3, 4}
  Twin <- MCTwin
  Histories <- OldDamaged
  Captures <- MCCaptures
  MaxLocals = {3}
  Modes = {"capture"}
  Secondary = {FALSE}
  Disks = {5}
  Required = 1
  LowFree = 2
  HighFree = 1
  Faults = {}
  MaxPasses = 1
  MaxCrashes = 0
  MaxAccidents = 0
INVARIANTS CaptureContinues
CHECK_DEADLOCK FALSE
