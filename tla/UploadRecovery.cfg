SPECIFICATION LiveSpec
CONSTANTS
  Clients = {c1, c2}
  Maintenance = job
  Parts = {p1}
  Blob = blob
  Contents = {x, y}
  None = none
  Modes = {"single", "multipart"}
  MaxPuts = 2
  MaxFaults = 2
  Detach = FALSE
  PowerFails = FALSE
CHECK_DEADLOCK FALSE
PROPERTIES ExpirySparesCommits ImplementsPublication CommitsConclude
