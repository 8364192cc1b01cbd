SPECIFICATION Spec
CONSTANTS
  e1 = e1
  e2 = e2
  p1 = p1
  p2 = p2
  p3 = p3
  Entrypoint = {e1, e2}
  Port = {p1, p2, p3}
  PortsOf <- OwnPorts
  Server = {s1, s2, s3}
  Loader = {l1, l2}
  Reconciler = {r1, r2}
  MaxReloads = 2
  None = None
SYMMETRY Symmetry
INVARIANTS NoOrphanListener ListenersFollowCache OwnAddressBinds
CHECK_DEADLOCK FALSE
