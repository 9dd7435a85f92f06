SPECIFICATION FairSpec
CONSTANTS
  p1 = p1
  p2 = p2
  None = None
  Requests = {r1, r2}
  Products = {p1, p2}
  Carts <- AllCarts
  Numbers = {n1, n2}
  Opening <- TwoLeft
  Restocks = {}
  MaxEdits = 0
  Bindable = {TRUE}
CHECK_DEADLOCK FALSE
INVARIANTS
  WholeOrders
  LedgerBalanced
PROPERTIES
  EveryRequestEnds
