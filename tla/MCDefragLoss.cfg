SPECIFICATION Spec
CONSTANTS
  Word = 64
  NBlocks = 11
  NInodes = 4
  Meta = 1
  L = 2
  C = 7
  Levels = 2
  Dead = 0
  Layouts <- TreeLayouts
CONSTRAINT OnlyExchanged
INVARIANT TreesKept
CHECK_DEADLOCK FALSE
