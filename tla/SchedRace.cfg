SPECIFICATION Spec
CONSTANTS
  Threads = {t1, t2}
  Fibers = {f1, f2}
  NULL = NULL
  MayBlock = TRUE
  MayFail = FALSE
INVARIANTS
  CallbackAfterSwap
CHECK_DEADLOCK FALSE
