\* One task and a wall clock that is set back between two publications.
CONSTANTS
  Workers = {w1}
  Assets = {a1}
  Symbols = {s1}
  NoIdentity = NoIdentity
  RecordIds = {r1}
  Payloads = {x}
  PageBudget = 2
  MaxPage = 1
  MaxRuns = 2
  MaxRevision = 5
  MaxFaults = 0
  MaxClock = 1
  ClockMayStepBack = TRUE
SPECIFICATION Spec
SYMMETRY Symmetry
PROPERTIES CompletedRunIsPublished
CHECK_DEADLOCK FALSE
