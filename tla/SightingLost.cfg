SPECIFICATION Spec
CONSTANTS
  h1 = h1  h2 = h2
  ann = ann  bob = bob
  Handlers = {h1}
  Users = {ann}
  Points <- LostPoint
  Events <- OneEvent
  ClientTimes <- NoTimes
  MaxLat = 200  MaxLon = 400  TiesDown <- DoublesBelow
  Scan = "index"
  Faulty = FALSE
  MaxReports = 1
  MaxCanonical = 0
  MaxTime = 0
INVARIANTS
  EveryAcknowledgedReportStored
CHECK_DEADLOCK FALSE
