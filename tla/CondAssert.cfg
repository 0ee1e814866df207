SPECIFICATION CondFairSpec
CONSTANTS
  Fibers = {f1, f2}
  NULL = NULL
  Recursive = FALSE
  Timeouts = {1}
  MaxTime = 1
  MaxDepth = 1
  WaitTimeouts = {1}
  SignalNbs = {0}
  HolderSignals = TRUE
INVARIANT
  OwnerNotRelocked
CHECK_DEADLOCK FALSE
