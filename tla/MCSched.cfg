SPECIFICATION Spec
CONSTANTS
  Threads = {t1, t2, t3}
  Fibers = {f1, f2, f3}
  NULL = NULL
  MayBlock = TRUE
  MayFail = FALSE
SYMMETRY SchedSymmetry
INVARIANTS
  RunOnce
  DueOnce
  WorkConserving
  WaitNotMissed
CHECK_DEADLOCK FALSE
