CONSTANTS
  Word = 64
  NBlocks = 15
  NInodes = 3
  Meta = 3
  ClusterLen = 2
  BlockSize = 2
  LongBits = 4
  MapBits = 6
  Garbage = {3}
  MaxClusters = 1
  MaxMounts = 2
  MaxCalls = 4
SPECIFICATION Spec
CONSTRAINT Bounded
INVARIANTS TypeOK OneOwner SyncedIsOnDisk
CHECK_DEADLOCK FALSE
