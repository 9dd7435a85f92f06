SPECIFICATION FairSpec
CONSTANTS
  Workers = {w1, w2, w3}
  Max = 2
  Window = 2
  Stores = {"redis", "file"}
  Cap = 5
INVARIANTS
  CounterBounded
  NeverBlockedEarly
PROPERTIES
  MortalKeyExpires
