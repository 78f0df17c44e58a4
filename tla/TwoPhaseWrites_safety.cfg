SPECIFICATION Tools
CONSTANTS
  Procs = {p1, p2}
  ConnIds = {c1, c2}
  Targets = {d1}
  Tokens = {t1, t2}
  TTLs = {1, 2}
  DefaultTTL = 1
  MaxTime = 2
  MaxSets = 2
  MaxRestarts = 1
  None = None
  MaxDigests = 3
  RowSets <- MCRowSets
  Base <- MCBase
  GroupLimit = 1
  BatchMax = 2
  Shapes <- MCShapes
  CursorTime = 1
  Intents = {p1, p2}
  Windows = {c1, c2}
  IntentTTL = 2
  ReportWait = 1
  IntentCap = 1
  IntentTime = 3
  Savers = {p1, p2}
  PresetIds = {c1, c2}
  Bounds <- MCBounds
  Values = {0, 1, 3}
  MaxSaves = 3
  MaxKills = 1
  Nothing = Nothing
SYMMETRY Interchangeable
INVARIANTS WriteIsPreviewed FileFollowsMemory DigestIsServed ResultIsReported SavedIsKept
PROPERTY TokenIsTriedOnce
