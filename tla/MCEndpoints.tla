---------------------------- MODULE MCEndpoints ----------------------------
(* A TLC instance of Endpoints: an administrator and a reporter, a location *)
(* with a sighting and one without, a day of four hours.                    *)
EXTENDS Endpoints
CONSTANTS ada, rob

TwoRoles == [u \in Users |-> IF u = ada THEN "administrator" ELSE "reporter"]
SomePositions == {[lat |-> 100, lon |-> -400], [lat |-> 201, lon |-> 0]}
SomeWindows ==
  [since : {Absent}, days : {Absent, Malformed, 2, -1}] \cup
  [since : {Malformed, 2}, days : {Absent}]
Query(box, since, days, insincere, missing) ==
  [box |-> [minLat |-> box[1], maxLat |-> box[2], minLon |-> box[3], maxLon |-> box[4]],
   window |-> [since |-> since, days |-> days],
   includeInsincere |-> insincere, includeMissing |-> missing]
SomeQueries ==
  {Query(<<-500, 500, -100, 900>>, 0, Absent, TRUE, TRUE),
   Query(<<-500, 500, -100, 900>>, 0, Absent, FALSE, TRUE),
   Query(<<-200, 200, -400, 400>>, Malformed, 2, FALSE, FALSE),
   Query(<<150, 900, -900, 0>>, Absent, 9, TRUE, TRUE),
   Query(<<5, 4, 0, 1>>, 0, Absent, TRUE, TRUE),
   Query(<<Absent, 4, 0, 1>>, 0, Absent, TRUE, TRUE)}
Past(id, since, days, hide) ==
  [id |-> id, window |-> [since |-> since, days |-> days], includeInsincere |-> hide]
SomePasts == {Past(1, 2, Absent, FALSE), Past(1, Absent, 1, TRUE), Past(2, Malformed, Absent, FALSE),
              Past(3, Absent, Absent, FALSE), Past(Malformed, Absent, Absent, FALSE)}
OldSpots == <<[lat |-> 10, lon |-> 0, at |-> 1, creator |-> rob, via |-> 0],
              [lat |-> 190, lon |-> -400, at |-> 2, creator |-> ada, via |-> 0]>>
Report(u, l, at, transpired, toExist) ==
  [reporter |-> u, location |-> l, at |-> at, transpired |-> transpired, toExist |-> toExist]
OldReports == <<Report(rob, 1, 2, "sighted", 1)>>
OldFlag == <<[target |-> rob, value |-> 1, via |-> 0]>>
NewReports == {Report(rob, 2, 1, "sighted", 1), Report(ada, 1, 4, "missed", 0),
               Report(rob, 3, 3, "sighted", 1)}
=============================================================================
