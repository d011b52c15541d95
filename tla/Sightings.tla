----------------------------- MODULE Sightings -----------------------------
(***************************************************************************)
(* The life of a report: POST /api/sightings and the two statements of     *)
(* Store.InsertSighting, POST /api/locations, and what Store.MapData then  *)
(* shows.  The two statements are separate autocommit statements on one    *)
(* SQLite database: each is atomic, and the statements of concurrent       *)
(* requests, of CreateLocation and of failures interleave between them.    *)
(***************************************************************************)
EXTENDS Coordinates, MapQuery

CONSTANTS Handlers,      \* requests the server can serve at once
          Users,         \* users who hold the permissions they need
          Points,        \* positions users tap on the map
          Events,        \* the events reported
          ClientTimes,   \* observed_at values a client may send itself
          Scan,          \* the order a statement meets table rows in
          Faulty,        \* whether requests may fail
          MaxReports, MaxCanonical, MaxTime   \* bounds

ASSUME ConstantsAssumption ==
  /\ Points \subseteq [lat : Int, lon : Int]
  /\ \A p \in Points : ValidLatLon(p)
  /\ Events \subseteq {"sighted", "missed", "removed"}
  /\ ClientTimes \subseteq Nat
  /\ MaxReports \in Nat /\ MaxCanonical \in Nat /\ MaxTime \in Nat
  /\ Scan \in {"any", "index"} /\ Faulty \in BOOLEAN

VARIABLES
  now,         \* the server's clock, in seconds: RFC3339 keeps no fraction
  reports,     \* history: the requests received; the index is the serial
  locations,   \* table locations; the index is the rowid
  sightings,   \* table sightings; the index is the rowid
  pc,          \* where each handler is
  job,         \* the serial of the request it serves
  rowid,       \* what LastInsertId gave it
  acks         \* history: the 201 answers, as pairs of serial and id

vars == <<now, reports, locations, sightings, pc, job, rowid, acks>>
tables == <<locations, sightings>>

Position == {p \in [lat : Int, lon : Int] : ValidLatLon(p)}

\* chosen is the location the reporter picked on the map, 0 for a new place.
\* The server decodes the body's location_id and never uses it.
Report == [user : Users, lat : Int, lon : Int, chosen : Nat, at : Nat,
           transpired : Events]

Location == [lat : Int, lon : Int, creator : Users, at : Nat, via : Nat]

Sighting == [reporter : Users, location : Nat \ {0}, at : Nat,
             transpired : Events, toExist : {0, 1}, serial : Nat]

Init == /\ now = 0
        /\ reports = <<>> /\ locations = <<>> /\ sightings = <<>>
        /\ pc = [h \in Handlers |-> "idle"]
        /\ job = [h \in Handlers |-> 0]
        /\ rowid = [h \in Handlers |-> 0]
        /\ acks = {}

Tick == /\ now < MaxTime
        /\ now' = now + 1
        /\ UNCHANGED <<reports, tables, pc, job, rowid, acks>>

-----------------------------------------------------------------------------
(* handleCreateSighting up to its call of InsertSighting.                  *)

\* A request for position p: the body is decoded and checked, and observed is
\* the server's clock unless the client sent a time.
HandleCreateSighting(h, p, chosen) ==
  /\ pc[h] = "idle"
  /\ Len(reports) < MaxReports
  /\ ValidLatLon(p)
  /\ \E u \in Users, e \in Events, t \in {now} \cup ClientTimes :
        reports' = Append(reports,
           [user |-> u, lat |-> p.lat, lon |-> p.lon, chosen |-> chosen,
            at |-> t, transpired |-> e])
  /\ pc' = [pc EXCEPT ![h] = "locate"]
  /\ job' = [job EXCEPT ![h] = Len(reports) + 1]
  /\ UNCHANGED <<now, tables, rowid, acks>>

\* The new-sign form reports the tapped point.
ReportPoint(h) == \E p \in Points : HandleCreateSighting(h, p, 0)

\* Mutant of ReportOnLocation: the form swaps the two coordinates.
ReportOnLocationSwapped(h) ==
  \E s \in DOMAIN sightings :
     LET l == sightings[s].location
     IN  HandleCreateSighting(h, [lat |-> locations[l].lon,
                                  lon |-> locations[l].lat], l)

\* reportOnExistingLocation reuses the coordinates of a location the map
\* listed, and the map lists only locations that have a sighting.
ReportOnLocation(h) ==
  \E s \in DOMAIN sightings :
     LET l == sightings[s].location
     IN  HandleCreateSighting(h, [lat |-> locations[l].lat,
                                  lon |-> locations[l].lon], l)

-----------------------------------------------------------------------------
(* Store.InsertSighting and the answer.                                    *)

Request(h) == reports[job[h]]

\* Mutant of Matching: the statements compare without rounding.
MatchingExactly(p) ==
  {l \in DOMAIN locations : locations[l].lat = p.lat /\ locations[l].lon = p.lon}

Matching(p) == {l \in DOMAIN locations : SameCell(locations[l], p)}

\* Mutants of InsertLocation: one that inserts unconditionally, and one that
\* updates the matching location.
InsertLocationUnchecked(h) ==
  LET r == Request(h)
  IN  /\ pc[h] = "locate"
      /\ locations' = Append(locations,
                       [lat |-> Stored(r).lat, lon |-> Stored(r).lon,
                        creator |-> r.user, at |-> r.at, via |-> job[h]])
      /\ pc' = [pc EXCEPT ![h] = "record"]
      /\ UNCHANGED <<now, reports, sightings, job, rowid, acks>>

UpsertLocation(h) ==
  LET r == Request(h)
      row == [lat |-> Stored(r).lat, lon |-> Stored(r).lon,
              creator |-> r.user, at |-> r.at, via |-> job[h]]
  IN  /\ pc[h] = "locate"
      /\ locations' = IF Matching(r) = {} THEN Append(locations, row)
                      ELSE [l \in DOMAIN locations |->
                              IF l \in Matching(r) THEN row ELSE locations[l]]
      /\ pc' = [pc EXCEPT ![h] = "record"]
      /\ UNCHANGED <<now, reports, sightings, job, rowid, acks>>

\* INSERT INTO locations ... WHERE NOT EXISTS: check and insert in one step.
InsertLocation(h) ==
  LET r == Request(h)
  IN  /\ pc[h] = "locate"
      /\ locations' =
           IF Matching(r) # {} THEN locations
           ELSE Append(locations,
                       [lat |-> Stored(r).lat, lon |-> Stored(r).lon,
                        creator |-> r.user, at |-> r.at, via |-> job[h]])
      /\ pc' = [pc EXCEPT ![h] = "record"]
      /\ UNCHANGED <<now, reports, sightings, job, rowid, acks>>

\* Mutant of Row: the location is bound to an id that was never read.
RowUnbound(h, l) ==
  LET r == Request(h)
  IN  [reporter |-> r.user, location |-> rowid[h], at |-> r.at,
       transpired |-> r.transpired,
       toExist |-> IF r.transpired = "sighted" THEN 1 ELSE 0,
       serial |-> job[h]]

Row(h, l) == LET r == Request(h)
             IN  [reporter |-> r.user, location |-> l, at |-> r.at,
                  transpired |-> r.transpired,
                  toExist |-> IF r.transpired = "sighted" THEN 1 ELSE 0,
                  serial |-> job[h]]

\* SELECT ... LIMIT 1 without an ORDER BY may take any matching location; the
\* plan in use scans idx_location_bbox and takes the first in its order.
Precedes(l, k) ==
  LET a == locations[l]
      b == locations[k]
  IN  \/ a.lat < b.lat
      \/ a.lat = b.lat /\ a.lon < b.lon
      \/ a.lat = b.lat /\ a.lon = b.lon /\ l <= k

\* Mutant of Found: the WHERE clause is lost.
FoundAnywhere(p) == {l \in DOMAIN locations : p = p}

Found(p) == {l \in Matching(p) :
               Scan = "index" => \A k \in Matching(p) : Precedes(l, k)}

\* Mutant of InsertSightingRow: the id is the first statement's.
InsertSightingRowWrongId(h) ==
  /\ pc[h] = "record"
  /\ \E l \in Found(Request(h)) : sightings' = Append(sightings, Row(h, l))
  /\ rowid' = [rowid EXCEPT ![h] = Len(locations)]
  /\ pc' = [pc EXCEPT ![h] = "respond"]
  /\ UNCHANGED <<now, reports, locations, job, acks>>

\* INSERT INTO sightings ... SELECT: check and insert in one step again.
InsertSightingRow(h) ==
  /\ pc[h] = "record"
  /\ \E l \in Found(Request(h)) : sightings' = Append(sightings, Row(h, l))
  /\ rowid' = [rowid EXCEPT ![h] = Len(sightings) + 1]
  /\ pc' = [pc EXCEPT ![h] = "respond"]
  /\ UNCHANGED <<now, reports, locations, job, acks>>

\* The same statement when no location matches: it inserts no row and reports
\* no error, and LastInsertId is what the connection's last insertion left,
\* 0 on a fresh connection.
StaleRowIds == {0} \cup DOMAIN locations \cup DOMAIN sightings

InsertNoRow(h) ==
  /\ pc[h] = "record"
  /\ Matching(Request(h)) = {}
  /\ \E id \in StaleRowIds : rowid' = [rowid EXCEPT ![h] = id]
  /\ pc' = [pc EXCEPT ![h] = "respond"]
  /\ UNCHANGED <<now, reports, tables, job, acks>>

\* The handler returns and its local variables go.
Leave(h) == /\ pc' = [pc EXCEPT ![h] = "idle"]
            /\ job' = [job EXCEPT ![h] = 0]
            /\ rowid' = [rowid EXCEPT ![h] = 0]

\* writeJSON(w, 201, {"id": id}).
Respond(h) ==
  /\ pc[h] = "respond"
  /\ acks' = acks \cup {[serial |-> job[h], id |-> rowid[h]]}
  /\ Leave(h)
  /\ UNCHANGED <<now, reports, tables>>

\* Mutant of Fail: a handler that sees an error runs its statements again.
FailRetrying(h) ==
  /\ Faulty
  /\ pc[h] # "idle"
  /\ pc' = [pc EXCEPT ![h] = "locate"]
  /\ UNCHANGED <<now, reports, tables, job, rowid, acks>>

\* A statement fails (the client went away and cancelled r.Context(), or the
\* database was busy) or the answer is lost: what was committed stays.
Fail(h) ==
  /\ Faulty
  /\ pc[h] # "idle"
  /\ Leave(h)
  /\ UNCHANGED <<now, reports, tables, acks>>

\* The server dies, or Shutdown's five seconds end with requests in flight.
Restart ==
  /\ Faulty
  /\ \E h \in Handlers : pc[h] # "idle"
  /\ pc' = [h \in Handlers |-> "idle"]
  /\ job' = [h \in Handlers |-> 0]
  /\ rowid' = [h \in Handlers |-> 0]
  /\ UNCHANGED <<now, reports, tables, acks>>

\* POST /api/locations: InsertCanonical neither rounds nor looks for a
\* location that is already there.
CreateLocation ==
  /\ Cardinality({l \in DOMAIN locations : locations[l].via = 0}) < MaxCanonical
  /\ \E u \in Users, p \in Points :
       /\ ValidLatLon(p)
       /\ locations' = Append(locations, [lat |-> p.lat, lon |-> p.lon,
                                          creator |-> u, at |-> now, via |-> 0])
  /\ UNCHANGED <<now, reports, sightings, pc, job, rowid, acks>>

-----------------------------------------------------------------------------
Step(h) == InsertLocation(h) \/ InsertSightingRow(h) \/ InsertNoRow(h)
           \/ Respond(h)

Next == \/ Tick
        \/ CreateLocation
        \/ Restart
        \/ \E h \in Handlers : \/ ReportPoint(h) \/ ReportOnLocation(h)
                               \/ InsertLocation(h)
                               \/ InsertSightingRow(h) \/ InsertNoRow(h)
                               \/ Respond(h) \/ Fail(h)

Spec == Init /\ [][Next]_vars

\* net/http runs every accepted request to its end.
FairSpec == Spec /\ \A h \in Handlers : WF_vars(Step(h))

-----------------------------------------------------------------------------
(* Properties.                                                             *)

\* Every variable keeps its type; rows refer to rows that exist.
TypeOK == /\ now \in Nat
          /\ reports \in Seq(Report)
          /\ locations \in Seq(Location)
          /\ sightings \in Seq(Sighting)
          /\ pc \in [Handlers -> {"idle", "locate", "record", "respond"}]
          /\ job \in [Handlers -> Nat]
          /\ rowid \in [Handlers -> Nat]
          /\ acks \subseteq [serial : Nat, id : Nat]

\* The reports the second statement is bound to find a location for.
Kept(r) == r.chosen # 0 \/ RoundTrips(r)

\* Sighting id holds report n: its user, time and event, in its cell.
Holds(id, n) ==
  /\ id \in DOMAIN sightings
  /\ n \in DOMAIN reports
  /\ LET s == sightings[id]
         r == reports[n]
     IN  /\ s.serial = n
         /\ s.reporter = r.user
         /\ s.at = r.at
         /\ s.transpired = r.transpired
         /\ s.location \in DOMAIN locations
         /\ SameCell(locations[s.location], r)

\* The id in a 201 answer names the row that holds the report, for every
\* report that round-trips or reuses a location's coordinates: whatever other
\* requests, failures and new locations came between the two statements.
AcknowledgedReportStored ==
  \A a \in acks : Kept(reports[a.serial]) => Holds(a.id, a.serial)

\* What store.go:54 says of InsertSighting, for every report.
EveryAcknowledgedReportStored == \A a \in acks : Holds(a.id, a.serial)

\* Concurrent first reports of a place create one location: a location that a
\* round-tripping report created is the first of its cell.
FirstOfItsCell ==
  \A i, j \in DOMAIN locations :
     /\ i < j
     /\ locations[j].via # 0
     /\ RoundTrips(reports[locations[j].via])
     => ~SameCell(locations[i], locations[j])

\* A request appends at most one sighting, whatever fails.
RecordedOnce ==
  \A i, j \in DOMAIN sightings :
     sightings[i].serial = sightings[j].serial => i = j

WholeMap == [minLat |-> -MaxLat, maxLat |-> MaxLat,
             minLon |-> -MaxLon, maxLon |-> MaxLon]

\* MapData over the present tables, no user being flagged.
MapMarkers(since, includeMissing) ==
  Markers(locations, sightings, <<>>,
          [since |-> since, includeInsincere |-> FALSE,
           includeMissing |-> includeMissing, box |-> WholeMap])

\* Once a report is answered, every map that reaches back to its time shows a
\* marker in its cell, and what the marker of the report's location shows is
\* not older than the report.
AnsweredReportReachesMap ==
  \A a \in {b \in acks : Kept(reports[b.serial])}, since \in 0 .. now :
     LET r == reports[a.serial]
         l == sightings[a.id].location
         shown == {m \in MapMarkers(since, TRUE) : m[1] = l}
     IN  since <= r.at => /\ shown # {}
                          /\ SameCell(locations[l], r)
                          /\ \A m \in shown : sightings[m[2]].at >= r.at

\* When no request fails, every report that is kept becomes a sighting and its
\* user is told which.
ReportsLand ==
  \A n \in 1 .. MaxReports :
     (n <= Len(reports) /\ Kept(reports[n]))
       ~> (\E a \in acks : a.serial = n /\ Holds(a.id, n))

\* Rows are only ever appended: no step changes or drops a row of either table.
AppendOnly ==
  [][/\ \A l \in DOMAIN locations : locations'[l] = locations[l]
     /\ \A i \in DOMAIN sightings : sightings'[i] = sightings[i]]_tables

-----------------------------------------------------------------------------
(* The inductive invariant behind the safety properties above.             *)

\* Every reference from a row, a request or an answer to another row or
\* request names one that exists.
References ==
  /\ \A h \in Handlers : pc[h] # "idle" => job[h] \in DOMAIN reports
  /\ \A n \in DOMAIN reports : reports[n].chosen \in {0} \cup DOMAIN locations
  /\ \A l \in DOMAIN locations : locations[l].via \in {0} \cup DOMAIN reports
  /\ \A i \in DOMAIN sightings : /\ sightings[i].serial \in DOMAIN reports
                                 /\ sightings[i].location \in DOMAIN locations
  /\ \A a \in acks : a.serial \in DOMAIN reports

\* A request is served by one handler.
OneHandlerPerReport ==
  \A g, h \in Handlers :
     pc[g] # "idle" /\ pc[h] # "idle" /\ job[g] = job[h] => g = h

\* What each point of InsertSighting knows, for its request.
Progress(h) ==
  /\ pc[h] \in {"locate", "record"}
        => \A i \in DOMAIN sightings : sightings[i].serial # job[h]
  /\ pc[h] = "record" /\ Kept(Request(h)) => Matching(Request(h)) # {}
  /\ pc[h] = "respond" /\ Kept(Request(h)) => Holds(rowid[h], job[h])

InProgress == \A h \in Handlers : Progress(h)

\* Every sighting holds its report, and every location is where its report's
\* rounding puts it.
Faithful ==
  /\ \A i \in DOMAIN sightings : Holds(i, sightings[i].serial)
  /\ \A l \in DOMAIN locations :
        locations[l].via # 0 =>
          SameCell(locations[l], Stored(reports[locations[l].via]))
  /\ \A n \in DOMAIN reports :
        reports[n].chosen # 0 =>
          SameCell(locations[reports[n].chosen], reports[n])

\* Every stored position is one the map can show, and so is every report's.
Positioned == /\ \A l \in DOMAIN locations : ValidLatLon(locations[l])
              /\ \A n \in DOMAIN reports : ValidLatLon(reports[n])

IInv == /\ TypeOK /\ References /\ OneHandlerPerReport /\ InProgress
        /\ Faithful /\ Positioned
        /\ AcknowledgedReportStored /\ FirstOfItsCell /\ RecordedOnce

-----------------------------------------------------------------------------
(* Refinement.                                                             *)

\* The entry of the abstract board that a row of table sightings stands for.
EntryOf(s) == [serial     |-> s.serial,
               user       |-> s.reporter,
               at         |-> s.at,
               transpired |-> s.transpired,
               cell       |-> Cell(locations[s.location])]

Board == INSTANCE ReportBoard WITH
           asked    <- reports,
           board    <- [i \in DOMAIN sightings |-> EntryOf(sightings[i])],
           answered <- {a.serial : a \in {b \in acks : Kept(reports[b.serial])}}

\* POST /api/sightings keeps the promise of ReportBoard.
ImplementsReportBoard == Board!Spec
=============================================================================
