SPECIFICATION Spec
CONSTANTS
  Adapters = {"alchemy", "ankr"}
  MaxPages = 2
  MaxHead = 4
  Lookback = 2
  MaxStamps = 1
  Approvals <- SomeBlocks
  None = None
  Absent = Absent
INVARIANT ApprovalsAreWhole
