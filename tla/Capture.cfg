SPECIFICATION CaptureSpec
CONSTANTS
  Runs = {1, 2}
  LogBuffer = 1
  LogLines = 3
  Patient = TRUE
  None = None
  MaxTasks = 2
  Workers = {w1, w2}
  Attempts = 2
  Chunks = 2
  NoFile = NoFile
  Databases <- MCDatabases
  DumpAttempts = 2
  Versions = {v1, v2}
  Unread = Unread
  Parts = 2
  MaxUploads = 3
  NoUpload = NoUpload
  Stream = 3
  Metadata = {2}
  Checkers = {k1, k2}
INVARIANTS CaptureTypeOK DumpedIsWhole SavedMeansAll GlobalIsFrozen ObjectIsWhole OpenUploadsKnown MarkerMeansVerified
PROPERTIES RunEnds CaptureEnds
\* A capture that has ended has nothing left to do.
CHECK_DEADLOCK FALSE
