SPECIFICATION Progress
CONSTANTS
  Procs = {p1, p2}
  ConnIds = {i1}
  Entries = {e1}
  Configs = {k1}
  ReadOnly = {}
  Workload = {"aggregate","disconnect","connect"}
  None = None
  Reaper = reaper
  SessionEntries = {e1}
  Sessions = {s1}
  Pages = 2
  Limit = 0
  MaxSessions = 1
  MaxSeq = 2
  MaxCalls = 2
  Dns = {x}
  Core = {c}
  Regular = {}
  Deferred = {d}
  Values = {v}
  MaxOpens = 2
  MaxSaves = 1
  Editing = {d}
  Absent = Absent
CHECK_DEADLOCK FALSE
PROPERTIES EveryRequestReturns DetachedIsClosed ExpiredIsReclaimed SpinnersStop
