SPECIFICATION Spec
CONSTANTS
  Proc = {p1, p2}
  Files = {f1}
  Capacity = 2
  Slots = 2
  WasteLimit = 2
  ForceRestart = TRUE
  None = None
  MaxEdits = 1
  MaxCalls = 1
  MaxDeaths = 1
SYMMETRY SymmetricWorkers
INVARIANTS
  TypeOK
  SwitchFollowsRestart
  ExhaustedIsScheduled
  WasteIsCounted
  OneScriptPerFile
  TimestampProtects
PROPERTIES
  HitIsCurrent
