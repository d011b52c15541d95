SPECIFICATION Spec
CONSTANTS
  l1 = l1
  l2 = l2
  None = None
  Locs = {l1}
  Vicinity <- AllNear
  Views <- NearOnly
  MaxFetches = 2
  MaxPending = 1
  MaxReports = 1
INVARIANTS
  TypeOK
  QueryStringIsState
  OwnReportShows
CHECK_DEADLOCK FALSE
