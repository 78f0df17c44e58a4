SPECIFICATION Spec
CONSTANTS
  Pages = 3
  MaxSeq = 2
  MaxCalls = 3
  None = None
CHECK_DEADLOCK FALSE
INVARIANTS NothingSkipped
