CONSTANTS
  a = a
  b = b
  c = c
  d = d
  Shas <- MCShas
  Prefix <- MCPrefix
  OldHt <- MCOldHt
  Estimate = 1
  MaxHt = 6
  MaxRead = 5
SPECIFICATION Spec
INVARIANT TypeOK
INVARIANT FindsFirst
INVARIANT ReadsBack
CHECK_DEADLOCK FALSE
