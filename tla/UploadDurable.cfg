SPECIFICATION Spec
CONSTANTS
  Clients = {c1, c2}
  Maintenance = job
  Parts = {p1, p2}
  Blob = blob
  Contents = {x, y}
  None = none
  Modes = {"multipart"}
  MaxPuts = 3
  MaxFaults = 1
  Detach = FALSE
  PowerFails = FALSE
SYMMETRY Symmetry
CHECK_DEADLOCK FALSE
INVARIANT AcceptedIsDurable
