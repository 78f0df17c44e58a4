CONSTANTS
  Procs = {p1, p2}
  ConnIds = {c1}
  Entries = {e1, e2}
  Configs = {k1, k2}
  ReadOnly = {k2}
  Workload = {"write", "connect"}
  None = None
SPECIFICATION Spec
INVARIANT RunsUnderItsGate
