CONSTANTS
  Threads = {t1, t2}
  NFragments = 4
  Start <- MCStart
  Ptr <- MCPtr
  Zero <- MCZero
  Ram <- MCRam
  Budget = 2
  Faults = {"writing"}
  t1 = t1
  t2 = t2
SPECIFICATION Spec
INVARIANT CountSaysWhich
CHECK_DEADLOCK FALSE
