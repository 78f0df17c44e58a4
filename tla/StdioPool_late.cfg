SPECIFICATION Spec
CONSTANTS
  Procs = {p1, p2}
  Keys = {k1, k2, k3}
  Refused = {}
  Cap = 2
  None = None
INVARIANT PooledIsRegistered
