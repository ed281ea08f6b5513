SPECIFICATION LiveSpec
CONSTANTS
  Adapters = {"alchemy", "ankr", "moralis", "activity"}
  MaxPages = 3
  MaxHead = 6
  Lookback = 2
  MaxStamps = 1
  Approvals <- SomeBlocks
  None = None
  Absent = Absent
INVARIANTS PagesOnce WindowsAdjoin EndIsWhole
PROPERTIES PagingEnds
