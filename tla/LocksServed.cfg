SPECIFICATION LiveSpec
CONSTANTS
  Requests = {r1, r2, r3}
  Parts = {p1, p2}
  First = p1
  Slots = 1
  Kinds = {"data", "part", "one_block", "finish", "abort"}
  Versions = {v1, v2}
  MaxCancels = 1
  None = none
CHECK_DEADLOCK FALSE
INVARIANTS TypeOK Exclusive NoStandstill
PROPERTIES Served
