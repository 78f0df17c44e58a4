SPECIFICATION Spec
CONSTANTS
  Procs = {p1, p2}
  ConnIds = {c1, c2}
  Targets = {d1}
  Tokens = {t1}
  TTLs = {1, 2}
  DefaultTTL = 1
  MaxTime = 1
  MaxSets = 2
  MaxRestarts = 1
  None = None
INVARIANT TTLInForce
