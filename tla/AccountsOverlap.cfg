SPECIFICATION Spec
CONSTANTS
  Requests = {q1, q2, q3, q4}
  Emails = {ann, admin}
  Admin = admin
  Passwords = {w1, w2}
  Profiles = {unset, moved}
  Unset = unset
  None = None
  TokenSupport = {TRUE, FALSE}
  AbilitiesDefined = TRUE
SYMMETRY Alike
CHECK_DEADLOCK FALSE
INVARIANTS
  CredentialsStand
  OwnLogoutOnly
PROPERTIES
  DeactivationStops
  OnlyAdminsSwitch
