SPECIFICATION AuditSpec
CONSTANTS
  m1 = m1
  eve = eve
  dan = dan
  None = None
  Moderators = {m1}
  Page = m1
  Targets = {eve, dan}
  Direct = FALSE
  MaxFlags = 1
  MaxGets = 1
  MaxTime = 1
  Horizon = 1
  OldSightings <- OldReports
  NewSightings <- NewReports
  Limit = 2
  MaxLoads = 2
  MaxReports = 1
INVARIANTS
  UntroubledListIsCurrent
  OnlySelectionHighlighted
CHECK_DEADLOCK FALSE
