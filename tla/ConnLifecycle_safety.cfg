CONSTANTS
  Procs = {p1, p2}
  ConnIds = {c1}
  Entries = {e1, e2}
  Configs = {k1, k2}
  ReadOnly = {k2}
  Workload = {"read", "write", "aggregate", "connect", "disconnect"}
  None = None
  Callers = {q1, q2}
  Rdns = {"a", "b"}
  Profiles <- MCProfiles
  MaxOps = 2
  MaxOther = 1
  MaxSubtree = 3
  NoOp = NoOp
  SearchLimit = 2
  CountLimit = 1
  MaxPage = 2
  MaxEmpty = 3
  Cookies = {0, 1, 2}
  Loaders = {l1, l2}
  Versions = {1, 2}
  BlockedIn <- MCBlockedIn
  CacheTTL = 1
  MaxClock = 3
  Endpoints <- MCEndpoints
  Auths <- MCAuths
  Levels = {"connect", "test", "network", "bind"}
  MaxReplies = 3
SPECIFICATION Package
SYMMETRY Interchangeable
INVARIANTS StatusTruthful NoSocketLeft DetachedHasCloser RetiredNeverServes
  AuditIsComplete ReadsAreSound
  StaleOnlyByOverlap NamedValuesSurvive DialIsSafe
PROPERTIES AtMostOnce WritesStayInside
