SPECIFICATION Spec
CONSTANTS
  Client = {c1, c2}
  Nobody = nobody
  Name = {"", "s"}
  Capacity = 2
  MaxQueue = 1
INVARIANTS LoadedIsOwners Deadlines NothingForgotten
PROPERTIES ImplementsLease
CHECK_DEADLOCK FALSE
SYMMETRY Symmetry
