SPECIFICATION Serving
CONSTANTS
  Procs = {p1, p2, p3}
  Keys = {k1, k2, k3, k4}
  Refused = {k4}
  Cap = 2
  None = None
  MaxLines = 2
  Mix <- MCMix
  LogMax = 2
  NoMethod = NoMethod
  MaxInput = 3
  Inputs <- MCInputs
  MaxConcurrent = 2
  EnsureWait = 1
  ForwardTimeout = 2
  ReadMargin = 1
  DrainMargin = 1
INVARIANTS RegisteredIsOwned PoolIsMostRecent AnsweredOnce PanelShowsTheLog EveryLineHasItsReply
