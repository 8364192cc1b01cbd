SPECIFICATION Spec
CONSTANTS
  Call = {c1, c2, c3, c4}
  Name = {n1, n2}
  RegToken = {t1, t2}
  MaxInFlight = 3
INVARIANTS SingleUse NoNameTakeover TokensFollowRecords
SYMMETRY Symmetry
CHECK_DEADLOCK FALSE
