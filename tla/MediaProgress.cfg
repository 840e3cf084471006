SPECIFICATION Spec
CONSTANTS
  Tabs = {1, 2}
  Browser <- OneBrowser
  MaxWriters <- WritersOf
  MaxPackets <- PacketsOf
  MaxFaults = 1
  MaxTurns = 1
  Conflict = conflict
  Missing = missing
  None = none
CHECK_DEADLOCK FALSE
INVARIANTS TypeOK QuietMeansSaved JournalSurvives
PROPERTIES NeverRewinds LateStaysOut
