SPECIFICATION Spec
CONSTANTS
  Component = {a, b, c}
  MaxPids = 3
  MaxCrashes = 1
  MaxCorrupt = 1
SYMMETRY Symmetry
INVARIANTS OneProcess StoppedIsDead SnapshotKept
CHECK_DEADLOCK FALSE
