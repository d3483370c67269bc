SPECIFICATION Spec
CONSTANTS
  Word = 64
  NBlocks = 7
  NInodes = 3
  Meta = 1
  Excess = 1
  E = 2
  M = 2
  Names = {n1, n2, n3, n4, n5}
  MaxFailed = 3
  MaxGone = 3
CONSTRAINT Bounded
SYMMETRY NameSymmetry
INVARIANTS TypeOK NamesFound BlocksAccounted FreeBlocksAreClear ListedOnce LinksCounted CountersDrift
CHECK_DEADLOCK FALSE
