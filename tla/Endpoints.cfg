SPECIFICATION FairSpec
CONSTANTS
  Absent = Absent
  Malformed = Malformed
  Nobody = Nobody
  ada = ada
  rob = rob
  Users = {ada, rob}
  RoleOf <- TwoRoles
  Positions <- SomePositions
  Windows <- SomeWindows
  MapQueries <- SomeQueries
  HistoryQueries <- SomePasts
  Notes = {"note"}
  OldLocations <- OldSpots
  OldSightings <- OldReports
  OldFlags <- OldFlag
  NewSightings <- NewReports
  MaxLat = 200
  MaxLon = 400
  TiesDown = {}
  MinDays = 1
  MaxDays = 3
  Now = 4
  Limit = 3
  MaxReads = 1
  MaxWrites = 1
  MaxReports = 1
INVARIANTS
  TypeOK
  EffectsMatchAnswer
  ListsAreCurrent
  HistoryCoversHeader
  FlagsOfOneMoment
PROPERTIES
  DrainEnds
CHECK_DEADLOCK FALSE
