SPECIFICATION Spec
CONSTANTS
  Env = {1, 2}
  Main = 1
  Background = {2}
  Used = {1}
  Timeout = 2
  MaxFails = 1
  MaxDeletes = 1
INVARIANTS StopsAlone ReleasedQuiet
PROPERTIES StopsOnlyIdle
CHECK_DEADLOCK FALSE
