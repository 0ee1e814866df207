SPECIFICATION ObjectSpec
CONSTANTS
  Objects = {"barrier"}
  Fibers = {f1, f2, f3}
  NULL = NULL
  Conds = {"cond", "rcond", "wcond"}
  Parties = {f1, f2, f3}
  MaxRounds = 2
  CountMod = 16
  AnyTime = TRUE
  MaxNest = 2
  Target = f1
  Joiner = f2
  Threads = {t1, t2}
  Stacks = {s1, s2, s3, s4, s5}
  NoStack = NoStack
  Limit = 1
  Sleepers = {f1, f2}
  MaxTime = 3
  Secs = {1}
  Usecs = {0, 1}
  UsecPerSec = 2
  UIntMod = 8
INVARIANT
  RoundsInStep
CHECK_DEADLOCK FALSE
