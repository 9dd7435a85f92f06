SPECIFICATION Spec
CONSTANTS
  Requests = {q1, q2, q3}
  Users = {owner, admin, stranger}
  Owner = owner
  Admin = admin
  AbilitiesDefined = TRUE
SYMMETRY SymmetricRequests
CHECK_DEADLOCK FALSE
PROPERTIES
  CancelAnswersTrue
  OnlyAdminReopens
