SPECIFICATION Spec
CONSTANTS
  Files = {f1, f2}
  Keys = {k1, k2, k3}
  Editors = {e1, e2}
  None = none
  Limit = 1
  MaxUndo = 1
  MaxFaults = 1
  MaxEvents = 5
SYMMETRY Alike
CHECK_DEADLOCK FALSE
INVARIANTS TypeOK ReferencedKept CleanupQueued
PROPERTIES NoStaleSave HistoryKept
