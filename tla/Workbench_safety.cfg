SPECIFICATION Workbench
CONSTANTS
  Pages = 3
  MaxSeq = 2
  MaxCalls = 2
  None = None
  Dns = {x, y}
  Core = {c}
  Regular = {r}
  Deferred = {d}
  Values = {v, w}
  MaxOpens = 2
  MaxSaves = 1
  Editing = {d}
  Absent = Absent
  Listing <- ListingOfBase
  Chains <- ChainToZ
  BaseDn = "base"
  RevealPages = 3
  MaxCursors = 2
  MaxTouches = 3
  Targets = {A, B}
  SchemaViews = {panel, search}
  Panel = panel
  MaxLoads = 3
  MaxRefreshes = 2
  Given <- GivenFilters
  Typed <- TypedClauses
  MaxFormTouches = 3
  Links = {A, B}
  BootRetryMax = 3
  AutoRetryMax = 3
  MaxEvents = 4
  Referenced = {p, q, s}
  ReferenceTabLimit = 2
  MaxReferences = 4
  Connections = {A, B}
  ConfiguredBase = {A}
  Entries = {"parent", "child"}
  Above <- ParentOf
  OpenTabsMax = 2
  MaxShellSteps = 3
  CopyHosts = {A, B}
  MaxCopySteps = 5
  WizardHosts = {A, B}
  MaxWizardSteps = 6
  ImportHosts = {A, B}
  MaxImportSteps = 8
CHECK_DEADLOCK FALSE
INVARIANTS RowsAreTheResult CursorHasKeeper EditorIsSound CompleteUnlessShared SchemaStaysFresh FilterMeansTheSame RetriesSurvive TabsShowTheirEntry StaysOnItsConnection CreatedAsMeant
