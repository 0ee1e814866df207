SPECIFICATION CondSpec
CONSTANTS
  Fibers = {f1, f2, f3}
  NULL = NULL
  Recursive = FALSE
  Timeouts = {}
  MaxTime = 2
  MaxDepth = 1
  WaitTimeouts = {}
  SignalNbs = {1}
  HolderSignals = TRUE
INVARIANTS
  NoOrphan
CHECK_DEADLOCK FALSE
