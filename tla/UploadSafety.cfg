SPECIFICATION Spec
CONSTANTS
  Clients = {c1, c2}
  Maintenance = job
  Parts = {p1, p2}
  Blob = blob
  Contents = {x, y}
  None = none
  Modes = {"single", "multipart"}
  MaxPuts = 3
  MaxFaults = 1
  Detach = TRUE
  PowerFails = TRUE
SYMMETRY Symmetry
CHECK_DEADLOCK FALSE
INVARIANTS TypeOK PublishedIntact PublishedDurable AcceptedIsPublished StagingRetained AnswersHonoured
PROPERTIES PartsFrozen AnswersFinal
