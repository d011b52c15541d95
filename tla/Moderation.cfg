SPECIFICATION Spec
CONSTANTS
  m1 = m1  m2 = m2
  eve = eve  dan = dan
  None = None
  Moderators = {m1}
  Targets = {eve, dan}
  Direct = TRUE
  MaxFlags = 3
  MaxGets = 1
  MaxTime = 1
SYMMETRY PageSymmetry
INVARIANTS
  TypeOK
  SeenTogglesAgree
  SeenTogglesAlternate
CHECK_DEADLOCK FALSE
