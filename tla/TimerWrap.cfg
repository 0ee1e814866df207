SPECIFICATION FairSpec
CONSTANTS
  Sleepers = {f1}
  MaxTime = 3
  Secs = {4}
  Usecs = {0, 1}
  UsecPerSec = 2
  UIntMod = 8
PROPERTY
  SleepsLongEnough
CHECK_DEADLOCK FALSE
