SPECIFICATION FairSpec
CONSTANTS
  Fibers = {f1, f2}
  Fds = {d1}
  Timeouts = {0, 1}
  MaxTime = 1
INVARIANTS
  InterestArmed
  IoLinks
  ResultIsCause
PROPERTIES
  ServedInOrder
  EventServed
CHECK_DEADLOCK FALSE
