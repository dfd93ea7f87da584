SPECIFICATION FairSpec
CONSTANTS
  Hub = {1, 2, 3}
  Client = {"a", "b"}
  Task = {1}
  MaxCrashes = 1
INVARIANTS SocketServes NothingLeft
PROPERTIES FailedLaunchEnds
CHECK_DEADLOCK FALSE
