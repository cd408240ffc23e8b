CONSTANTS
  Threads = {t1, t2}
  NFragments = 4
  Start <- MCStart
  Ptr <- MCPtr
  Zero <- MCZero
  Ram <- MCRam
  Budget = 2
  Faults = {"archive", "damage", "memory", "full", "flush", "open", "writing"}
  t1 = t1
  t2 = t2
SPECIFICATION FairSpec
INVARIANT TypeOK
INVARIANT CompleteIsWhole
INVARIANT BlockHasOneThread
INVARIANT RamWithinBudget
INVARIANT DamageCostsItsFilesOnly
PROPERTY Ends
CHECK_DEADLOCK FALSE
