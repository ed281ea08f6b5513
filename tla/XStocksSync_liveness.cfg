\* Two tasks and the user who keeps resuming; no symmetry, as liveness is checked.
CONSTANTS
  Workers = {w1, w2}
  Assets = {a1}
  Symbols = {s1}
  NoIdentity = NoIdentity
  RecordIds = {r1}
  Payloads = {x, y}
  PageBudget = 2
  MaxPage = 1
  MaxRuns = 2
  MaxRevision = 4
  MaxFaults = 1
  MaxClock = 0
  ClockMayStepBack = FALSE
SPECIFICATION FairSpec
PROPERTIES RefreshReturns SyncCompletes
CHECK_DEADLOCK FALSE
