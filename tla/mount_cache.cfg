CONSTANTS
  Clients = {c1, c2}
  Workers = {w1, w2}
  Readers = {r1, r2}
  NBlocks = 4
  Size <- MCSize
  Budget = 2
  MaxReads = 3
  Faults = TRUE
  c1 = c1
  c2 = c2
  w1 = w1
  w2 = w2
  r1 = r1
  r2 = r2
SPECIFICATION Spec
INVARIANT TypeOK
INVARIANT ReaderHasOneUser
INVARIANT LruIsWhatIsLoaded
INVARIANT BytesCounted
INVARIANT OneMaker
INVARIANT ReaderLeftForReads
INVARIANT PendingIsOnItsWay
PROPERTY Served
