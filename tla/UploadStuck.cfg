SPECIFICATION LiveSpec
CONSTANTS
  Clients = {c1, c2}
  Maintenance = job
  Parts = {p1}
  Blob = blob
  Contents = {x}
  None = none
  Modes = {"multipart"}
  MaxPuts = 1
  MaxFaults = 1
  Detach = TRUE
  PowerFails = FALSE
CHECK_DEADLOCK FALSE
PROPERTIES CommitsConclude
