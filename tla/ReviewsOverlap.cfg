SPECIFICATION Spec
CONSTANTS
  Requests = {q1, q2, q3}
  Users = {ann, bob, admin}
  Admin = admin
  Products = {p1, p2}
  Ratings = {1, 5}
SYMMETRY SymmetricRequests
CHECK_DEADLOCK FALSE
INVARIANTS
  OnePerPair
  LosersHaveRivals
PROPERTIES
  DeletedStayDeleted
