SPECIFICATION FairInsertSpec
CONSTANTS
  T = 2
  Blocks <- SevenBlocks
  Keys <- ElevenKeys
  MaxOther = 1
  MaxGaps = 1
  MaxRemovals = 0
INVARIANTS TreeOwnsItsBlocks FoundExactly
PROPERTY CallEnds
CHECK_DEADLOCK FALSE
