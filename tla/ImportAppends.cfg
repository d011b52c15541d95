SPECIFICATION FairSpec
CONSTANTS
  BadDate = BadDate
  NotADate = BadDate
  Garbled = Garbled
  Documents <- FiveDocuments
  ServerSpots <- TwoSpots
  MaxLat = 200
  MaxLon = 400
  TiesDown = {}
  MapDate = 10
  Near = 5
  MaxRuns = 3
  MaxReports = 3
INVARIANTS
  UndisturbedRunImports
CHECK_DEADLOCK FALSE
