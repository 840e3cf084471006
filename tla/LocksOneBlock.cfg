SPECIFICATION LiveSpec
CONSTANTS
  Requests = {r1, r2}
  Parts = {p1}
  First = p1
  Slots = 1
  Kinds = {"one_block", "finish"}
  Versions = {v1, v2}
  MaxCancels = 0
  None = none
CHECK_DEADLOCK FALSE
PROPERTIES OneBlockAnswered
