SPECIFICATION FairSpec
CONSTANTS
  Pid = {w1, w2}
  Styles <- AllStyles
  MaxChildren = 2
  StartServers = 1
  MinSpare = 1
  MaxSpare = 1
  MaxSpawnRate = 2
  Threshold = 1
  MaxFailures = 1
CHECK_DEADLOCK FALSE
INVARIANTS
  PoolBounded
  LeavingIsTimed
  DeadAreNoticed
  StaticIsFull
PROPERTIES
  OnlyEscalates
  ImplementsPool
  LeavingEnds
  PoolRefills
