SPECIFICATION Spec
CONSTANTS
  User = {u1, u2}
  Password = {p1, p2}
  Calls = {c1, c2}
  MaxInFlight = 2
  None = None
INVARIANTS SingleInit NoLockout SessionsFollowAccount LogoutEndsSession
SYMMETRY Symmetry
CHECK_DEADLOCK FALSE
