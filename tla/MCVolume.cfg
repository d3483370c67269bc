SPECIFICATION Spec
CONSTANTS
  Word = 32
  NBlocks = 9
  NInodes = 3
  Meta = 2
  Excess = 1
  ClusterLen = 2
  MaxClusters = 2
  MaxDirs = 1
  MaxEntries = 2
  MaxDeficit = 2
  Names = {a, b}
SYMMETRY NameSymmetry
CONSTRAINT Bounded
INVARIANTS
  TypeOK
  OwnedMarked
  NoSharing
  InodeCounterExact
  BlockCounterDrift
  OnlyUnlinkedLeak
  FilesCounted
  HighWaterLag
CHECK_DEADLOCK FALSE
