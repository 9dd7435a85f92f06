SPECIFICATION FairSpec
CONSTANTS
  Proc = {p1, p2}
  Files = {f1, f2}
  Capacity = 1
  Slots = 1
  WasteLimit = 1
  ForceRestart = TRUE
  None = None
  MaxEdits = 0
  MaxCalls = 1
  MaxDeaths = 1
INVARIANTS
  RunsItsOwnScripts
PROPERTIES
  RestartHappens
