SPECIFICATION Spec
CONSTANTS
  T = 2
  Blocks <- NineBlocks
  Keys <- TenKeys
  MaxOther = 0
  MaxGaps = 0
  MaxRemovals = 5
INVARIANT CreatedIsThere
CHECK_DEADLOCK FALSE
