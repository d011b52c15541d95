SPECIFICATION AccessSpec
CONSTANTS
  p1 = p1  p2 = p2
  ann = ann  bob = bob
  Processes = {p1, p2}
  Subjects = {ann, bob}
  Legacy <- OldDatabase
  Roles = {"reporter", "muted"}
  Default <- OneGrant
  MaxOpens = 3
  Needed = "sight"
  MaxRequests = 2
SYMMETRY ProcessSymmetry
INVARIANTS
  AccessTypeOK
  LetThroughByTheTable
  OpenMeansMigrated
  SubjectKeepsRow
  RoleIsLastAssigned
PROPERTIES
  SeedNeverRotates
  ImplementsDirectory
CHECK_DEADLOCK FALSE
