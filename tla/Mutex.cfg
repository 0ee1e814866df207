SPECIFICATION FairSpec
CONSTANTS
  Fibers = {f1, f2, f3}
  NULL = NULL
  Recursive = TRUE
  Timeouts = {1, 2}
  MaxTime = 1
  MaxDepth = 2
INVARIANTS
  MutualExclusion
  LinksConsistent
  OneOutcome
PROPERTIES
  ImplementsMonitor
  LeavesInTurnOrLate
  EveryLockReturns
