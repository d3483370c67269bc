SPECIFICATION Spec
CONSTANTS
  Word = 32
  NBlocks = 11
  NInodes = 2
  Meta = 2
  Excess = 1
  ClusterLen = 1
  MaxClusters = 1
  MaxDirs = 1
  MaxEntries = 2
  MaxDeficit = 2
  Names = {a, b, c}
SYMMETRY NameSymmetry
CONSTRAINT Bounded
INVARIANTS
  OwnedMarked
  FilesCounted
CHECK_DEADLOCK FALSE
