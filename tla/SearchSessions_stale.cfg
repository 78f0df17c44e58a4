SPECIFICATION Spec
CONSTANTS
  Procs = {p1, p2}
  Reaper = reaper
  ConnIds = {c1}
  Entries = {e1, e2}
  Sessions = {s1}
  Pages = 2
  Limit = 0
  MaxSessions = 1
  None = None
INVARIANT CursorsAreCurrent
