SPECIFICATION FairSpec
CONSTANTS
  None = None
  Runs = {1, 2, 3, 4}
  Twin <- MCTwin
  Histories <- MCHistories
  Captures <- MCCaptures
  MaxLocals = {0, 3}
  Modes = {"capture", "apply", "plan"}
  Secondary = {TRUE, FALSE}
  Disks = {4, 5}
  Required = 1
  LowFree = 2
  HighFree = 1
  Faults = {"io", "s3", "world"}
  MaxPasses = 2
  MaxCrashes = 1
  MaxAccidents = 1
INVARIANTS TypeOK OneIntent JournalTruthful ProceedHasRoom RefusedForCause
PROPERTIES DeletionJustified EveryPassEnds
CHECK_DEADLOCK FALSE
