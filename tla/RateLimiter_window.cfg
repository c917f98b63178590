SPECIFICATION FairSpec
CONSTANTS
  Clients <- MCOneClient
  Limit = 2
  Window = 2
  MaxTime = 8
INVARIANTS
  RateInv
  QuotaPerWindow
  SlidingBound
PROPERTIES
  WindowsDisjoint
  StaleEntriesGo
CHECK_DEADLOCK FALSE
