SPECIFICATION LiveSpec
CONSTANTS
  Requests = {r1, r2}
  Sessions = {s1, s2, s3}
  IdemKeys = {k}
  Prints = {f, g}
  None = none
  MaxFaults = 1
  MaxMoves = 1
CHECK_DEADLOCK FALSE
INVARIANTS TypeOK ParentLive StagingMatches
PROPERTIES OwnSessionKept Answered
