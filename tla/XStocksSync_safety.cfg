\* Two tasks, issuer records that are edited between two reads, and a catalog
\* that renames the asset.
CONSTANTS
  Workers = {w1, w2}
  Assets = {a1, a2}
  Symbols = {s1}
  NoIdentity = NoIdentity
  RecordIds = {r1}
  Payloads = {x, y}
  PageBudget = 2
  MaxPage = 2
  MaxRuns = 2
  MaxRevision = 4
  MaxFaults = 1
  MaxClock = 0
  ClockMayStepBack = FALSE
SPECIFICATION Spec
SYMMETRY Symmetry
INVARIANTS TypeOK PagesInSequence
PROPERTIES CompletedRunIsPublished ImplementsHistory OneWriterPerRevision
CHECK_DEADLOCK FALSE
