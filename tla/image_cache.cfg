CONSTANTS
  Workers = {w1, w2}
  Need <- MCNeed
  Size <- MCSize
  Limit = 10
  ForceAfter = 3
  Warnings = 2
  Resets = 1
  Faults = {3}
  w1 = w1
  w2 = w2
SPECIFICATION FairSpec
INVARIANT TypeOK
INVARIANT BytesCounted
INVARIANT PendingIsOnItsWay
PROPERTY ServedIfItFits
PROPERTY WorkersEnd
CHECK_DEADLOCK FALSE
