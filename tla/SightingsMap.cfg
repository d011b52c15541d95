SPECIFICATION FairSpec
CONSTANTS
  h1 = h1  h2 = h2
  ann = ann  bob = bob
  Handlers = {h1, h2}
  Users = {ann}
  Points <- TwoPoints
  Events <- TwoEvents
  ClientTimes <- FutureTimes
  MaxLat = 200  MaxLon = 400  TiesDown <- DoublesBelow
  Scan = "any"
  Faulty = FALSE
  MaxReports = 2
  MaxCanonical = 1
  MaxTime = 2
INVARIANTS
  AnsweredReportReachesMap
PROPERTIES
  ReportsLand
CHECK_DEADLOCK FALSE
