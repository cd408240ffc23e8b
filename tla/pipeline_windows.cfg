CONSTANTS
  Build = "windows"
  QSize = 3
  Threads = 2
  NBlocks = 4
  Client = "repack"
  Faults = FALSE
SPECIFICATION FairSpec
INVARIANT CompressorsBounded
PROPERTY RefinesLiveFifo
