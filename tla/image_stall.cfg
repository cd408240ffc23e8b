CONSTANTS
  Workers = {w1, w2}
  Need <- StallNeed
  Size <- StallSize
  Limit = 7
  ForceAfter = 2
  Warnings = 1
  Resets = 1
  Faults = {3}
  w1 = w1
  w2 = w2
SPECIFICATION FairSpec
PROPERTY Served
CHECK_DEADLOCK FALSE
