SPECIFICATION Spec
CONSTANTS
  p1 = p1
  p2 = p2
  None = None
  Requests = {r1, r2}
  Products = {p1, p2}
  Carts <- DistinctCarts
  Numbers = {n1, n2}
  Opening <- TwoLeft
  Restocks = {0, 3}
  MaxEdits = 1
  Bindable = {TRUE, FALSE}
SYMMETRY Symmetry
CHECK_DEADLOCK FALSE
INVARIANTS
  UniqueNumbers
  AnswersMatchOrders
  DeadlockNeedsDisagreement
PROPERTIES
  SoldWithinWhatWasSeen
  ImplementsInventory
