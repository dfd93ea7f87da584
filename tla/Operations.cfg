SPECIFICATION FairSpec
CONSTANTS
  Env = {1, 2, 3}
  Main = 1
  Cloning = {3}
  Concurrency = 2
  MaxQueue = 3
  Retention = 1
  MaxOps = 3
INVARIANTS WorkExclusive BusyCoversHands
PROPERTIES CancelWins OperationsEnd
