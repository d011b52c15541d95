SPECIFICATION FairSpec
CONSTANTS
  l1 = l1
  l2 = l2
  None = None
  Locs = {l1}
  Vicinity <- AllNear
  Views <- NearAndAway
  MaxFetches = 2
  MaxPending = 0
  MaxReports = 0
INVARIANTS
  QueryStringIsState
  UntroubledMapTracksView
PROPERTIES
  ViewIsAsked
CHECK_DEADLOCK FALSE
