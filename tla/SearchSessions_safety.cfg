SPECIFICATION Spec
CONSTANTS
  Procs = {p1, p2}
  Reaper = reaper
  ConnIds = {c1, c2}
  Entries = {e1, e2}
  Sessions = {s1, s2}
  Pages = 3
  Limit = 2
  MaxSessions = 1
  None = None
SYMMETRY Interchangeable
INVARIANTS OpenHasOwner PagesAreServed WithinCapacity
PROPERTY OnlyOwnSessions
