SPECIFICATION Spec
CONSTANTS
  File = {"code", "manifest"}
  Dev = {"code"}
  Checks = 2
  Retain = 1
  MaxEdits = 2
  MaxOps = 3
  MaxCrashes = 1
INVARIANTS StampTrue
PROPERTIES PassedTrue ReportTrue
CHECK_DEADLOCK FALSE
