SPECIFICATION FairSpec
CONSTANTS
  NVars = 2
  MaxDue = 2
  Modes = {"loop", "R", "r", "s"}
INVARIANTS
  OnlyRestoredIsSaved
  NothingLostByCrashes
  RestoresTheLatest
PROPERTIES
  TurnsGoOn
