SPECIFICATION FairSpec
CONSTANTS
  Client = {c1, c2}
  Nobody = nobody
  MaxLaunches = 2
  MaxMessages = 1
INVARIANTS OneWriter RestartFindsLock
PROPERTIES ImplementsLease ResetEnds
CHECK_DEADLOCK FALSE
