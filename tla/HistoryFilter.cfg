SPECIFICATION Spec
CONSTANTS
  m1 = m1  m2 = m2
  eve = eve  dan = dan
  None = None
  Moderators = {m1}
  Targets = {eve}
  Direct = FALSE
  MaxFlags = 2
  MaxGets = 1
  MaxTime = 0
INVARIANTS
  HistoryHidesInsincere
CHECK_DEADLOCK FALSE
