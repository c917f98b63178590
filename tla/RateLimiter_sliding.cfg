SPECIFICATION Spec
CONSTANTS
  Clients <- MCOneClient
  Limit = 2
  Window = 2
  MaxTime = 8
INVARIANTS
  SlidingQuota
CHECK_DEADLOCK FALSE
