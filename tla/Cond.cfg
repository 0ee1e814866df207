SPECIFICATION CondFairSpec
CONSTANTS
  Fibers = {f1, f2, f3}
  NULL = NULL
  Recursive = FALSE
  Timeouts = {1}
  MaxTime = 1
  MaxDepth = 1
  WaitTimeouts = {1}
  SignalNbs = {0}
  HolderSignals = FALSE
INVARIANTS
  CondMutualExclusion
  OneListPerFiber
  TimersLinked
  FaultWindow
PROPERTIES
  CondImplementsMonitor
  BroadcastWakesAll
CHECK_DEADLOCK FALSE
