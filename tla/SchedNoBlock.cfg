SPECIFICATION FairSpec
CONSTANTS
  Threads = {t1, t2, t3}
  Fibers = {f1, f2, f3}
  NULL = NULL
  MayBlock = FALSE
  MayFail = TRUE
INVARIANTS
  NoUseAfterFree
  CallbackAfterSwap
  WaitMeansFinished
  NothingLeaks
PROPERTIES
  WaitReturns
  DeinitReturns
CHECK_DEADLOCK FALSE
