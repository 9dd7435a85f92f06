SPECIFICATION FairSpec
CONSTANTS
  Workers = {w1, w2}
  Max = 2
  Window = 2
  Stores = {"redis"}
  Cap = 4
PROPERTIES
  BlockedClientRecovers
