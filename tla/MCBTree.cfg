SPECIFICATION InsertSpec
CONSTANTS
  T = 2
  Blocks <- NineBlocks
  Keys <- NineKeys
  MaxOther = 0
  MaxGaps = 9
  MaxRemovals = 0
INVARIANTS Balanced TreeOwnsItsBlocks NamesStay FoundExactly
PROPERTY ImplementsDirectory
CHECK_DEADLOCK FALSE
