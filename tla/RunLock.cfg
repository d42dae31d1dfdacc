SPECIFICATION FairSpec
CONSTANTS
  Pids = {p1, p2}
  Threads = {t1, t2}
  None = None
  MaxDeaths = 2
  MaxFaults = 1
INVARIANTS TypeOK OneHolder HolderNamed
PROPERTIES BusyIsOwned LockRegained
