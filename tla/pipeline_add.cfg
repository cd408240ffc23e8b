CONSTANTS
  Build = "posix"
  QSize = 3
  Threads = 2
  NBlocks = 4
  Client = "add"
  Faults = TRUE
SPECIFICATION FairSpec
INVARIANT TypeOK
INVARIANT AlwaysRoomToFill
INVARIANT SizesMatchBlocks
INVARIANT NothingLeftBehind
INVARIANT BufferHasOneOwner
PROPERTY RefinesFifo
PROPERTY Terminates
