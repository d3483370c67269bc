SPECIFICATION Spec
CONSTANTS
  Word = 64
  NBlocks = 11
  NInodes = 4
  Meta = 1
  L = 2
  C = 7
  Levels = 2
  Dead = 0
  Layouts <- TheLayouts
CONSTRAINT Readable
INVARIANTS TypeOK NothingLost MarkedExactly FileMapTrue CompactAtEnd WrittenAtEnd
PROPERTY Terminates
CHECK_DEADLOCK FALSE
