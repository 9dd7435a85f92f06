SPECIFICATION Spec
CONSTANTS
  p1 = p1
  p2 = p2
  None = None
  Requests = {r1, r2}
  Products = {p1, p2}
  Carts <- SingleCart
  Numbers = {n1, n2}
  Opening <- OneLeft
  Restocks = {}
  MaxEdits = 0
  Bindable = {TRUE}
SYMMETRY Symmetry
CHECK_DEADLOCK FALSE
INVARIANTS
  StockNeverNegative
