SPECIFICATION Spec
CONSTANTS
  h1 = h1  h2 = h2
  ann = ann  bob = bob
  Handlers = {h1, h2}
  Users = {ann}
  Points <- ThreePoints
  Events <- OneEvent
  ClientTimes <- NoTimes
  MaxLat = 200  MaxLon = 400  TiesDown <- DoublesBelow
  Scan = "any"
  Faulty = TRUE
  MaxReports = 3
  MaxCanonical = 1
  MaxTime = 0
SYMMETRY HandlerSymmetry
INVARIANTS
  TypeOK
  AcknowledgedReportStored
  FirstOfItsCell
  RecordedOnce
  IInv
PROPERTIES
  ImplementsReportBoard
  AppendOnly
CHECK_DEADLOCK FALSE
