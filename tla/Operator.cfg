SPECIFICATION OperatorSpec
CONSTANTS
  Moving = {"scope", "apply", "slots", "retention", "cache"}
  Granted <- MCGranted
  TablesOf <- MCTablesOf
  Queries <- MCQueries
  EnvScopes <- MCEnvScopes
  MaxAsked = 1
  PageStep = 10
  Appliers = {a1, a2}
  Plans = {daily, weekly, polling}
  Rendered = {daily, weekly}
  Rests = {r1}
  Absent = Absent
  Day = 4
  Week = 3
  Schedules <- MCSchedules
  ScheduleZone = 1
  LocalZone = 1
  Horizon = 38
  MaxRuns = 4
  DayOf <- MCDays
  WeekOf <- MCWeeks
  MonthOf <- MCMonths
  Policies <- MCPolicies
  MaxEvents = 2
  LocalFiles = {f1}
  RemoteObjects = {o1}
  Verifiers = {v1, v2}
  ProcessOf <- MCOneProcess
  TTL = 1
  MaxClock = 1
  MaxChanges = 1
  Steady = TRUE
  NoEntry = NoEntry
INVARIANTS OperatorTypeOK TablesImplyDatabase CursorShown DueAtSlots
PROPERTIES ApplyAllOrNothing CoverageKept GenerationsKept AcceptedIsWhole ResultsKept
\* The clocks, the runs and the changes are bounded.
CHECK_DEADLOCK FALSE
