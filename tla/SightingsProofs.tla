-------------------------- MODULE SightingsProofs --------------------------
(***************************************************************************)
(* Theorems about Sightings: type correctness, the inductive invariant of  *)
(* a request in progress, and what follows from it.                        *)
(***************************************************************************)
EXTENDS Sightings, OperatorProofs

-----------------------------------------------------------------------------
(* What each action does, with types.                                      *)

Typed == TypeOK /\ References

LEMMA PointType ==
  \A p \in Points : p \in [lat : Int, lon : Int]
BY ConstantsAssumption

LEMMA NowType ==
  ASSUME TypeOK, NEW t \in {now} \cup ClientTimes
  PROVE  t \in Nat
BY ConstantsAssumption DEF TypeOK

LEMMA RequestType ==
  ASSUME Typed, NEW h \in Handlers, pc[h] # "idle"
  PROVE  Request(h) \in Report /\ job[h] \in DOMAIN reports /\ job[h] \in Nat \ {0}
BY SeqElement DEF Typed, TypeOK, References, Request

\* A new report is typed, and a chosen location exists and is in its cell.
LEMMA ReportFacts ==
  ASSUME Typed, NEW h \in Handlers, ReportPoint(h) \/ ReportOnLocation(h)
  PROVE  /\ pc[h] = "idle"
         /\ \E r \in Report :
              /\ reports' = Append(reports, r) /\ ValidLatLon(r)
              /\ r.chosen # 0 => /\ r.chosen \in DOMAIN locations
                                 /\ SameCell(locations[r.chosen], r)
         /\ pc' = [pc EXCEPT ![h] = "locate"]
         /\ job' = [job EXCEPT ![h] = Len(reports) + 1]
         /\ UNCHANGED <<now, locations, sightings, rowid, acks>>
<1>1. PICK p \in [lat : Int, lon : Int], c \in Nat :
        /\ HandleCreateSighting(h, p, c)
        /\ c # 0 => /\ c \in DOMAIN locations
                    /\ SameCell(locations[c], p)
  <2>1. CASE ReportPoint(h)
    BY <2>1, PointType DEF ReportPoint
  <2>2. CASE ReportOnLocation(h)
    <3> DEFINE P(l) == [lat |-> locations[l].lat, lon |-> locations[l].lon]
    <3>1. PICK s \in DOMAIN sightings :
            HandleCreateSighting(h, P(sightings[s].location),
                                 sightings[s].location)
      BY <2>2 DEF ReportOnLocation
    <3>2. PICK l \in DOMAIN locations : l = sightings[s].location
      BY DEF Typed, References
    <3>3. l \in Nat /\ locations[l] \in Location
      BY SeqElement DEF Typed, TypeOK
    <3>4. P(l) \in [lat : Int, lon : Int] /\ SameCell(locations[l], P(l))
      BY <3>3 DEF Location, SameCell, Cell
    <3> QED
      BY <3>1, <3>2, <3>3, <3>4
  <2> QED
    BY <2>1, <2>2
<1>2. PICK u \in Users, e \in Events, t \in {now} \cup ClientTimes :
        reports' = Append(reports, [user |-> u, lat |-> p.lat, lon |-> p.lon,
                                    chosen |-> c, at |-> t, transpired |-> e])
  BY <1>1 DEF HandleCreateSighting
<1> DEFINE r == [user |-> u, lat |-> p.lat, lon |-> p.lon,
                 chosen |-> c, at |-> t, transpired |-> e]
<1>3. r \in Report
  BY NowType DEF Typed, Report
<1>4. /\ SameCell(locations[c], p) => SameCell(locations[c], r)
      /\ ValidLatLon(r)
  BY <1>1 DEF HandleCreateSighting, ValidLatLon, SameCell, Cell
<1>5. r.chosen = c
  OBVIOUS
<1> HIDE DEF r
<1>6. \E q \in Report :
        /\ reports' = Append(reports, q) /\ ValidLatLon(q)
        /\ q.chosen # 0 => /\ q.chosen \in DOMAIN locations
                           /\ SameCell(locations[q.chosen], q)
  BY <1>1, <1>2, <1>3, <1>4, <1>5 DEF r
<1> QED
  BY <1>1, <1>6 DEF HandleCreateSighting, tables

LEMMA CreateLocationFacts ==
  ASSUME Typed, CreateLocation
  PROVE  /\ \E l \in Location : /\ locations' = Append(locations, l)
                               /\ l.via = 0 /\ ValidLatLon(l)
         /\ UNCHANGED <<now, reports, sightings, pc, job, rowid, acks>>
<1>1. PICK u \in Users, p \in Points :
        /\ locations' = Append(locations, [lat |-> p.lat, lon |-> p.lon,
                                           creator |-> u, at |-> now, via |-> 0])
        /\ ValidLatLon(p)
  BY DEF CreateLocation
<1>2. [lat |-> p.lat, lon |-> p.lon, creator |-> u, at |-> now, via |-> 0]
        \in Location
  BY PointType DEF Typed, TypeOK, Location
<1>3. ValidLatLon([lat |-> p.lat, lon |-> p.lon, creator |-> u, at |-> now, via |-> 0])
  BY <1>1 DEF ValidLatLon
<1> QED
  BY <1>1, <1>2, <1>3 DEF CreateLocation

LEMMA InsertLocationFacts ==
  ASSUME Typed, NEW h \in Handlers, InsertLocation(h)
  PROVE  /\ pc[h] = "locate"
         /\ Request(h) \in Report
         /\ \/ Matching(Request(h)) # {} /\ locations' = locations
            \/ /\ Matching(Request(h)) = {}
               /\ \E l \in Location : /\ locations' = Append(locations, l)
                                      /\ l.via = job[h]
                                      /\ SameCell(l, Stored(Request(h)))
                                      /\ ValidLatLon(Request(h)) => ValidLatLon(l)
         /\ pc' = [pc EXCEPT ![h] = "record"]
         /\ UNCHANGED <<now, reports, sightings, job, rowid, acks>>
<1> DEFINE r == Request(h)
           n == [lat |-> Stored(r).lat, lon |-> Stored(r).lon,
                 creator |-> r.user, at |-> r.at, via |-> job[h]]
<1>1. pc[h] = "locate" /\ r \in Report /\ job[h] \in Nat
  BY RequestType DEF InsertLocation
<1>2. n \in Location /\ n.via = job[h] /\ SameCell(n, Stored(r))
  BY <1>1, RoundInt DEF Report, Location, Stored, SameCell, Cell
<1>4. ValidLatLon(r) => ValidLatLon(n)
  <2> DEFINE p == [lat |-> r.lat, lon |-> r.lon]
  <2>1. p \in [lat : Int, lon : Int] /\ (ValidLatLon(r) => ValidLatLon(p))
    BY <1>1 DEF Report, ValidLatLon
  <2>2. Stored(p) = Stored(r)
    BY DEF Stored
  <2>3. ValidLatLon(p) => ValidLatLon(Stored(p))
    BY <2>1, StoredIsValid
  <2> QED
    BY <2>1, <2>2, <2>3 DEF ValidLatLon
<1>3. locations' = IF Matching(r) # {} THEN locations ELSE Append(locations, n)
  BY DEF InsertLocation
<1> QED
  BY <1>1, <1>2, <1>3, <1>4 DEF InsertLocation

LEMMA InsertRowFacts ==
  ASSUME Typed, NEW h \in Handlers, InsertSightingRow(h)
  PROVE  /\ pc[h] = "record"
         /\ \E l \in Matching(Request(h)) :
              /\ sightings' = Append(sightings, Row(h, l))
              /\ Row(h, l) \in Sighting
         /\ rowid' = [rowid EXCEPT ![h] = Len(sightings) + 1]
         /\ pc' = [pc EXCEPT ![h] = "respond"]
         /\ UNCHANGED <<now, reports, locations, job, acks>>
<1>1. PICK l \in Matching(Request(h)) : sightings' = Append(sightings, Row(h, l))
  BY DEF InsertSightingRow, Found
<1>2. l \in Nat \ {0}
  BY DEF Matching, Typed, TypeOK
<1>3. Request(h) \in Report /\ job[h] \in Nat
  BY RequestType DEF InsertSightingRow
<1>4. Row(h, l) \in Sighting
  BY <1>2, <1>3, ConstantsAssumption DEF Row, Report, Sighting
<1> QED
  BY <1>1, <1>4 DEF InsertSightingRow

LEMMA InsertNoRowFacts ==
  ASSUME Typed, NEW h \in Handlers, InsertNoRow(h)
  PROVE  /\ pc[h] = "record"
         /\ Matching(Request(h)) = {}
         /\ rowid' \in [Handlers -> Nat]
         /\ \A g \in Handlers \ {h} : rowid'[g] = rowid[g]
         /\ pc' = [pc EXCEPT ![h] = "respond"]
         /\ UNCHANGED <<now, reports, locations, sightings, job, acks>>
<1>1. PICK id \in StaleRowIds : rowid' = [rowid EXCEPT ![h] = id]
  BY DEF InsertNoRow
<1>2. id \in Nat
  BY DEF StaleRowIds, Typed, TypeOK
<1> QED
  BY <1>1, <1>2 DEF InsertNoRow, tables, Typed, TypeOK

LEMMA LeavingFacts ==
  ASSUME NEW h \in Handlers, Respond(h) \/ Fail(h)
  PROVE  /\ pc[h] # "idle"
         /\ pc' = [pc EXCEPT ![h] = "idle"]
         /\ job' = [job EXCEPT ![h] = 0]
         /\ rowid' = [rowid EXCEPT ![h] = 0]
         /\ UNCHANGED <<now, reports, locations, sightings>>
         /\ \/ acks' = acks
            \/ /\ pc[h] = "respond"
               /\ acks' = acks \cup {[serial |-> job[h], id |-> rowid[h]]}
BY DEF Respond, Fail, Leave, tables

-----------------------------------------------------------------------------
(* Type correctness.  That the tables' references exist is needed for it,  *)
(* so the two are proved together.                                         *)

LEMMA InitTyped == Init => Typed
BY DEF Init, Typed, TypeOK, References

LEMMA NextTyped == Typed /\ [Next]_vars => Typed'
<1> SUFFICES ASSUME Typed, [Next]_vars PROVE Typed'
  OBVIOUS
<1> USE DEF Typed, TypeOK, References
<1>1. CASE Tick
  BY <1>1 DEF Tick, tables
<1>2. CASE CreateLocation
  <2>1. PICK l \in Location : locations' = Append(locations, l) /\ l.via = 0
    BY <1>2, CreateLocationFacts
  <2> QED
    BY <1>2, <2>1, CreateLocationFacts, Appended
<1>3. CASE Restart
  BY <1>3 DEF Restart, tables
<1>4. ASSUME NEW h \in Handlers, ReportPoint(h) \/ ReportOnLocation(h)
      PROVE  Typed'
  <2>1. PICK r \in Report : /\ reports' = Append(reports, r)
                            /\ r.chosen # 0 => r.chosen \in DOMAIN locations
    BY <1>4, ReportFacts
  <2>2. /\ reports' \in Seq(Report)
        /\ DOMAIN reports \subseteq DOMAIN reports'
        /\ \A n \in DOMAIN reports' : reports'[n].chosen \in {0} \cup DOMAIN locations
        /\ Len(reports) + 1 \in DOMAIN reports'
        /\ Len(reports) + 1 \in Nat
    BY <2>1, Appended
  <2>3. UNCHANGED <<now, locations, sightings, rowid, acks>>
    BY <1>4, ReportFacts
  <2>4. /\ pc' \in [Handlers -> {"idle", "locate", "record", "respond"}]
        /\ job' \in [Handlers -> Nat]
        /\ \A g \in Handlers : pc'[g] # "idle" => job'[g] \in DOMAIN reports'
    <3>1. /\ pc' = [pc EXCEPT ![h] = "locate"]
          /\ job' = [job EXCEPT ![h] = Len(reports) + 1]
      BY <1>4, ReportFacts
    <3> QED
      BY <2>2, <3>1
  <2> QED
    BY <2>2, <2>3, <2>4
<1>5. ASSUME NEW h \in Handlers, InsertLocation(h)
      PROVE  Typed'
  <2>1. CASE locations' = locations
    BY <1>5, <2>1, InsertLocationFacts
  <2>2. ASSUME NEW l \in Location, locations' = Append(locations, l),
               l.via = job[h]
        PROVE  Typed'
    <3>1. /\ locations' \in Seq(Location)
          /\ DOMAIN locations \subseteq DOMAIN locations'
          /\ \A k \in DOMAIN locations' : locations'[k].via \in {0} \cup DOMAIN reports
      BY <1>5, <2>2, Appended, InsertLocationFacts
    <3> QED
      BY <1>5, <3>1, InsertLocationFacts
  <2> QED
    BY <1>5, <2>1, <2>2, InsertLocationFacts
<1>6. ASSUME NEW h \in Handlers, InsertSightingRow(h)
      PROVE  Typed'
  <2>1. PICK l \in Matching(Request(h)) : /\ sightings' = Append(sightings, Row(h, l))
                                         /\ Row(h, l) \in Sighting
    BY <1>6, InsertRowFacts
  <2>2. /\ Row(h, l).serial \in DOMAIN reports
        /\ Row(h, l).location \in DOMAIN locations
    BY <1>6, InsertRowFacts DEF Row, Matching
  <2>3. /\ sightings' \in Seq(Sighting)
        /\ \A i \in DOMAIN sightings' : /\ sightings'[i].serial \in DOMAIN reports
                                        /\ sightings'[i].location \in DOMAIN locations
    BY <2>1, <2>2, Appended
  <2>4. UNCHANGED <<now, reports, locations, job, acks>>
    BY <1>6, InsertRowFacts
  <2>5. /\ pc' \in [Handlers -> {"idle", "locate", "record", "respond"}]
        /\ rowid' \in [Handlers -> Nat]
        /\ \A g \in Handlers : pc'[g] # "idle" => pc[g] # "idle"
    <3>1. /\ rowid' = [rowid EXCEPT ![h] = Len(sightings) + 1]
          /\ pc' = [pc EXCEPT ![h] = "respond"]
          /\ pc[h] = "record"
      BY <1>6, InsertRowFacts
    <3>2. Len(sightings) + 1 \in Nat
      OBVIOUS
    <3> QED
      BY <3>1, <3>2
  <2> QED
    BY <2>3, <2>4, <2>5
<1>7. ASSUME NEW h \in Handlers, InsertNoRow(h)
      PROVE  Typed'
  BY <1>7, InsertNoRowFacts
<1>8. ASSUME NEW h \in Handlers, Respond(h) \/ Fail(h)
      PROVE  Typed'
  <2>1. UNCHANGED <<now, reports, locations, sightings>>
    BY <1>8, LeavingFacts
  <2>2. /\ pc' = [pc EXCEPT ![h] = "idle"]
        /\ job' = [job EXCEPT ![h] = 0]
        /\ rowid' = [rowid EXCEPT ![h] = 0]
    BY <1>8, LeavingFacts
  <2>3. /\ pc' \in [Handlers -> {"idle", "locate", "record", "respond"}]
        /\ job' \in [Handlers -> Nat]
        /\ rowid' \in [Handlers -> Nat]
        /\ \A g \in Handlers : pc'[g] # "idle" => pc[g] # "idle" /\ job'[g] = job[g]
    BY <2>2
  <2>4. /\ pc[h] # "idle"
        /\ \/ acks' = acks
           \/ acks' = acks \cup {[serial |-> job[h], id |-> rowid[h]]}
    BY <1>8, LeavingFacts
  <2>5. /\ acks' \subseteq [serial : Nat, id : Nat]
        /\ \A a \in acks' : a.serial \in DOMAIN reports
    BY <2>4
  <2> QED
    BY <2>1, <2>3, <2>5
<1>9. CASE UNCHANGED vars
  BY <1>9 DEF vars, tables
<1> QED
  BY <1>1, <1>2, <1>3, <1>4, <1>5, <1>6, <1>7, <1>8, <1>9 DEF Next

\* Sightings.tla's TypeOK: every variable keeps its type in every behaviour,
\* for any handlers, users, points, times and bounds.
THEOREM TypeCorrect == Spec => []TypeOK
<1>1. Typed => TypeOK
  BY DEF Typed
<1> QED
  BY <1>1, InitTyped, NextTyped, PTL DEF Spec

-----------------------------------------------------------------------------
(* The tables and the history only grow.                                   *)

LEMMA Grow ==
  ASSUME Typed, [Next]_vars
  PROVE  /\ Extends(reports, reports')
         /\ Extends(locations, locations')
         /\ Extends(sightings, sightings')
<1> USE SameExtends
<1>a. /\ reports \in Seq(Report)
      /\ locations \in Seq(Location)
      /\ sightings \in Seq(Sighting)
  BY DEF Typed, TypeOK
<1>1. CASE Tick \/ Restart
  BY <1>1 DEF Tick, Restart, tables
<1>2. CASE CreateLocation
  BY <1>a, <1>2, CreateLocationFacts, AppendExtends
<1>3. ASSUME NEW h \in Handlers, ReportPoint(h) \/ ReportOnLocation(h)
      PROVE  Extends(reports, reports') /\ UNCHANGED <<locations, sightings>>
  <2>1. PICK r \in Report : reports' = Append(reports, r)
    BY <1>3, ReportFacts
  <2> QED
    BY <1>a, <1>3, <2>1, ReportFacts, AppendExtends
<1>4. ASSUME NEW h \in Handlers, InsertLocation(h)
      PROVE  Extends(locations, locations') /\ UNCHANGED <<reports, sightings>>
  <2>1. locations' = locations \/ \E l \in Location : locations' = Append(locations, l)
    BY <1>4, InsertLocationFacts
  <2>2. Extends(locations, locations')
    BY <1>a, <2>1, AppendExtends
  <2> QED
    BY <1>4, <2>2, InsertLocationFacts
<1>5. ASSUME NEW h \in Handlers, InsertSightingRow(h)
      PROVE  Extends(sightings, sightings') /\ UNCHANGED <<reports, locations>>
  <2>1. PICK s \in Sighting : sightings' = Append(sightings, s)
    BY <1>5, InsertRowFacts
  <2> QED
    BY <1>a, <1>5, <2>1, InsertRowFacts, AppendExtends
<1>6. ASSUME NEW h \in Handlers, InsertNoRow(h) \/ Respond(h) \/ Fail(h)
      PROVE  UNCHANGED <<reports, locations, sightings>>
  BY <1>6, InsertNoRowFacts, LeavingFacts
<1>7. CASE UNCHANGED vars
  BY <1>7 DEF vars, tables
<1> QED
  BY <1>1, <1>2, <1>3, <1>4, <1>5, <1>6, <1>7 DEF Next

\* Sightings.tla's AppendOnly (schema.sql:4-11, store.go:1-2): no step of any
\* handler, failure or restart changes or drops a stored row.
THEOREM TablesAppendOnly == Spec => AppendOnly
<1> DEFINE Kept2 == /\ \A l \in DOMAIN locations : locations'[l] = locations[l]
                    /\ \A i \in DOMAIN sightings : sightings'[i] = sightings[i]
<1>1. Typed /\ [Next]_vars => [Kept2]_tables
  BY Grow DEF Extends
<1> QED
  BY <1>1, InitTyped, NextTyped, PTL DEF Spec, AppendOnly

-----------------------------------------------------------------------------
(* The inductive invariant.                                                *)

\* What a step leaves true of a sighting and a request it does not touch.
LEMMA HoldsStays ==
  ASSUME Typed, [Next]_vars, NEW id, NEW n, Holds(id, n)
  PROVE  Holds(id, n)'
BY Grow DEF Extends, Holds

LEMMA ReportStays ==
  ASSUME Typed, [Next]_vars, NEW n \in DOMAIN reports
  PROVE  n \in DOMAIN reports' /\ reports'[n] = reports[n]
BY Grow DEF Extends

LEMMA MatchingStays ==
  ASSUME Typed, [Next]_vars, NEW p, Matching(p) # {}
  PROVE  Matching(p)' # {}
BY Grow DEF Extends, Matching

\* Only a request that arrives takes a handler, and with a new serial.
LEMMA NextOneHandler ==
  ASSUME Typed, OneHandlerPerReport, [Next]_vars
  PROVE  OneHandlerPerReport'
<1> USE DEF OneHandlerPerReport
<1>a. /\ pc \in [Handlers -> {"idle", "locate", "record", "respond"}]
      /\ job \in [Handlers -> Nat]
      /\ \A h \in Handlers : pc[h] # "idle" => job[h] \in DOMAIN reports
      /\ Len(reports) + 1 \notin DOMAIN reports
  BY DEF Typed, TypeOK, References
<1>1. CASE Tick \/ Restart
  BY <1>a, <1>1 DEF Tick, Restart
<1>2. CASE CreateLocation
  BY <1>a, <1>2, CreateLocationFacts
<1>3. ASSUME NEW h \in Handlers, ReportPoint(h) \/ ReportOnLocation(h)
      PROVE  OneHandlerPerReport'
  <2>1. /\ pc' = [pc EXCEPT ![h] = "locate"]
        /\ job' = [job EXCEPT ![h] = Len(reports) + 1]
    BY <1>3, ReportFacts
  <2> QED
    BY <1>a, <2>1
<1>4. ASSUME NEW h \in Handlers, InsertLocation(h)
      PROVE  OneHandlerPerReport'
  <2>1. /\ pc' = [pc EXCEPT ![h] = "record"] /\ job' = job /\ pc[h] = "locate"
    BY <1>4, InsertLocationFacts
  <2> QED
    BY <1>a, <2>1
<1>5. ASSUME NEW h \in Handlers, InsertSightingRow(h) \/ InsertNoRow(h)
      PROVE  OneHandlerPerReport'
  <2>1. /\ pc' = [pc EXCEPT ![h] = "respond"] /\ job' = job /\ pc[h] = "record"
    BY <1>5, InsertRowFacts, InsertNoRowFacts
  <2> QED
    BY <1>a, <2>1
<1>6. ASSUME NEW h \in Handlers, Respond(h) \/ Fail(h)
      PROVE  OneHandlerPerReport'
  <2>1. pc' = [pc EXCEPT ![h] = "idle"] /\ job' = [job EXCEPT ![h] = 0]
    BY <1>6, LeavingFacts
  <2> QED
    BY <1>a, <2>1
<1>7. CASE UNCHANGED vars
  BY <1>7 DEF vars
<1> QED
  BY <1>1, <1>2, <1>3, <1>4, <1>5, <1>6, <1>7 DEF Next

\* Which actions write the tables and the history.
LEMMA Writers ==
  ASSUME Typed, [Next]_vars
  PROVE  /\ sightings' # sightings => \E h \in Handlers : InsertSightingRow(h)
         /\ locations' # locations =>
              CreateLocation \/ \E h \in Handlers : InsertLocation(h)
         /\ reports' # reports =>
              \E h \in Handlers : ReportPoint(h) \/ ReportOnLocation(h)
<1>1. CASE Tick \/ Restart
  BY <1>1 DEF Tick, Restart, tables
<1>2. CASE CreateLocation
  BY <1>2, CreateLocationFacts
<1>3. ASSUME NEW h \in Handlers, ReportPoint(h) \/ ReportOnLocation(h)
      PROVE  UNCHANGED <<locations, sightings>>
  BY <1>3, ReportFacts
<1>4. ASSUME NEW h \in Handlers, InsertLocation(h)
      PROVE  UNCHANGED <<reports, sightings>>
  BY <1>4, InsertLocationFacts
<1>5. ASSUME NEW h \in Handlers, InsertSightingRow(h)
      PROVE  UNCHANGED <<reports, locations>>
  BY <1>5, InsertRowFacts
<1>6. ASSUME NEW h \in Handlers, InsertNoRow(h) \/ Respond(h) \/ Fail(h)
      PROVE  UNCHANGED <<reports, locations, sightings>>
  BY <1>6, InsertNoRowFacts, LeavingFacts
<1>7. CASE UNCHANGED vars
  BY <1>7 DEF vars, tables
<1> QED
  BY <1>1, <1>2, <1>3, <1>4, <1>5, <1>6, <1>7 DEF Next

\* The row of request h holds it.
LEMMA RowHolds ==
  ASSUME Typed, NEW h \in Handlers, InsertSightingRow(h)
  PROVE  /\ \E i : i = Len(sightings) + 1 /\ Holds(i, job[h])'
         /\ sightings'[Len(sightings) + 1].serial = job[h]
         /\ DOMAIN sightings' = DOMAIN sightings \cup {Len(sightings) + 1}
         /\ \A i \in DOMAIN sightings : sightings'[i] = sightings[i]
         /\ Len(sightings) + 1 \notin DOMAIN sightings
<1>1. PICK l \in Matching(Request(h)) : /\ sightings' = Append(sightings, Row(h, l))
                                       /\ Row(h, l) \in Sighting
  BY InsertRowFacts
<1>2. UNCHANGED <<reports, locations, job>> /\ pc[h] # "idle"
  BY InsertRowFacts
<1>3. /\ sightings'[Len(sightings) + 1] = Row(h, l)
      /\ DOMAIN sightings' = DOMAIN sightings \cup {Len(sightings) + 1}
      /\ \A i \in DOMAIN sightings : sightings'[i] = sightings[i]
      /\ Len(sightings) + 1 \notin DOMAIN sightings
  BY <1>1, Appended DEF Typed, TypeOK
<1>4. l \in DOMAIN locations /\ SameCell(locations[l], Request(h))
  BY DEF Matching
<1>5. job[h] \in DOMAIN reports
  BY <1>2, RequestType
<1>6. /\ Row(h, l).serial = job[h]
      /\ Row(h, l).reporter = reports[job[h]].user
      /\ Row(h, l).at = reports[job[h]].at
      /\ Row(h, l).transpired = reports[job[h]].transpired
      /\ Row(h, l).location = l
  BY DEF Row, Request
<1> DEFINE s == sightings'[Len(sightings) + 1]
           r == reports[job[h]]
<1>7. /\ Len(sightings) + 1 \in DOMAIN sightings'
      /\ s.serial = job[h] /\ s.reporter = r.user /\ s.at = r.at
      /\ s.transpired = r.transpired /\ s.location \in DOMAIN locations
      /\ SameCell(locations[s.location], r)
  BY <1>3, <1>4, <1>6 DEF Request
<1>8. ASSUME NEW i, i = Len(sightings) + 1
      PROVE  Holds(i, job[h])'
  BY <1>2, <1>5, <1>7, <1>8 DEF Holds
<1> QED
  BY <1>3, <1>7, <1>8

\* A new sighting holds its report, a new location is where rounding puts it,
\* and a new report's chosen location is in its cell.
LEMMA NextFaithful ==
  ASSUME Typed, Faithful, [Next]_vars
  PROVE  Faithful'
<1> DEFINE Place(l) == locations[l].via # 0 =>
                         SameCell(locations[l], Stored(reports[locations[l].via]))
           Choice(n) == reports[n].chosen # 0 =>
                         SameCell(locations[reports[n].chosen], reports[n])
<1>a. /\ \A i \in DOMAIN sightings : Holds(i, sightings[i].serial)
      /\ \A l \in DOMAIN locations : Place(l)
      /\ \A n \in DOMAIN reports : Choice(n)
  BY DEF Faithful
<1>b. /\ reports \in Seq(Report) /\ locations \in Seq(Location)
      /\ sightings \in Seq(Sighting)
  BY DEF Typed, TypeOK
<1>c. /\ \A n \in DOMAIN reports : reports[n].chosen \in {0} \cup DOMAIN locations
      /\ \A l \in DOMAIN locations : locations[l].via \in {0} \cup DOMAIN reports
  BY DEF Typed, References
<1>1. ASSUME NEW i \in DOMAIN sightings'
      PROVE  Holds(i, sightings[i].serial)'
  <2>1. CASE i \in DOMAIN sightings
    <3>1. sightings'[i] = sightings[i]
      BY <2>1, Grow DEF Extends
    <3> QED
      BY <1>a, <2>1, <3>1, HoldsStays DEF Holds
  <2>2. CASE i \notin DOMAIN sightings
    <3>1. PICK h \in Handlers : InsertSightingRow(h)
      BY <1>1, <2>2, Writers
    <3>2. i = Len(sightings) + 1
      BY <1>1, <2>2, <3>1, RowHolds
    <3>3. Holds(i, job[h])'
      BY <3>1, <3>2, RowHolds
    <3> QED
      BY <3>2, <3>3 DEF Holds
  <2> QED
    BY <2>1, <2>2
<1>2. ASSUME NEW l \in DOMAIN locations'
      PROVE  Place(l)'
  <2>1. CASE l \in DOMAIN locations
    BY <1>a, <1>c, <2>1, Grow DEF Extends
  <2>2. CASE CreateLocation
    <3>1. PICK e \in Location : locations' = Append(locations, e) /\ e.via = 0
      BY <2>2, CreateLocationFacts
    <3>2. l \in DOMAIN locations \/ locations'[l] = e
      BY <1>b, <1>2, <3>1, Appended
    <3> QED
      BY <2>1, <3>1, <3>2
  <2>3. ASSUME NEW h \in Handlers, InsertLocation(h), l \notin DOMAIN locations
        PROVE  Place(l)'
    <3>1. PICK e \in Location : /\ locations' = Append(locations, e)
                               /\ e.via = job[h]
                               /\ SameCell(e, Stored(Request(h)))
      BY <1>2, <2>3, InsertLocationFacts
    <3>2. locations'[l] = e
      BY <1>b, <1>2, <2>3, <3>1, Appended
    <3>3. reports' = reports
      BY <2>3, InsertLocationFacts
    <3> QED
      BY <3>1, <3>2, <3>3 DEF Request
  <2> QED
    BY <1>2, <2>1, <2>2, <2>3, Writers
<1>3. ASSUME NEW n \in DOMAIN reports'
      PROVE  Choice(n)'
  <2>1. CASE n \in DOMAIN reports
    BY <1>a, <1>c, <2>1, Grow DEF Extends
  <2>2. CASE n \notin DOMAIN reports
    <3>1. PICK h \in Handlers : ReportPoint(h) \/ ReportOnLocation(h)
      BY <1>3, <2>2, Writers
    <3>2. PICK r \in Report :
            /\ reports' = Append(reports, r)
            /\ r.chosen # 0 => SameCell(locations[r.chosen], r)
      BY <3>1, ReportFacts
    <3>3. reports'[n] = r
      BY <1>b, <1>3, <2>2, <3>2, Appended
    <3>4. locations' = locations
      BY <3>1, ReportFacts
    <3> QED
      BY <3>2, <3>3, <3>4
  <2> QED
    BY <2>1, <2>2
<1> QED
  BY <1>1, <1>2, <1>3 DEF Faithful

\* A handler that takes no step keeps what it knows: the rows other handlers
\* add carry other serials, and nothing it relies on goes away.
LEMMA OthersProgress ==
  ASSUME Typed, OneHandlerPerReport, [Next]_vars,
         NEW g \in Handlers, Progress(g), pc[g] # "idle",
         pc'[g] = pc[g], job'[g] = job[g], rowid'[g] = rowid[g],
         ~InsertSightingRow(g)
  PROVE  Progress(g)'
<1>1. job[g] \in DOMAIN reports /\ reports'[job[g]] = reports[job[g]]
  BY RequestType, ReportStays
<1>2. Request(g)' = Request(g)
  BY <1>1 DEF Request
<1>3. ASSUME pc[g] \in {"locate", "record"}, NEW i \in DOMAIN sightings'
      PROVE  sightings'[i].serial # job[g]
  <2>1. CASE i \in DOMAIN sightings
    BY <1>3, <2>1, Grow DEF Extends, Progress
  <2>2. CASE i \notin DOMAIN sightings
    <3>1. PICK h \in Handlers : InsertSightingRow(h)
      BY <1>3, <2>2, Writers
    <3>2. sightings'[i].serial = job[h]
      BY <1>3, <2>2, <3>1, RowHolds
    <3>3. h # g /\ pc[h] # "idle"
      BY <3>1, InsertRowFacts
    <3> QED
      BY <3>2, <3>3 DEF OneHandlerPerReport
  <2> QED
    BY <2>1, <2>2
<1>4. ASSUME pc[g] = "record", Kept(Request(g))
      PROVE  Matching(Request(g))' # {}
  <2>1. \A p : p = Request(g) => Matching(p)' # {}
    BY <1>4, MatchingStays DEF Progress
  <2> QED
    BY <1>2, <2>1 DEF Matching
<1>5. ASSUME pc[g] = "respond", Kept(Request(g))
      PROVE  Holds(rowid[g], job[g])'
  <2>1. \A id, n : id = rowid[g] /\ n = job[g] => Holds(id, n)'
    BY <1>5, HoldsStays DEF Progress
  <2> QED
    BY <2>1 DEF Holds
<1>6. Kept(Request(g))' <=> Kept(Request(g))
  BY <1>2 DEF Kept
<1> QED
  BY <1>3, <1>4, <1>5, <1>6 DEF Progress

LEMMA NextInProgress ==
  ASSUME Typed, OneHandlerPerReport, InProgress, Faithful, [Next]_vars
  PROVE  InProgress'
<1> SUFFICES ASSUME NEW g \in Handlers PROVE Progress(g)'
  BY DEF InProgress
<1>a. /\ pc \in [Handlers -> {"idle", "locate", "record", "respond"}]
      /\ job \in [Handlers -> Nat] /\ rowid \in [Handlers -> Nat]
      /\ Progress(g)
  BY DEF Typed, TypeOK, InProgress
<1>b. pc'[g] = "idle" => Progress(g)'
  BY DEF Progress
<1>c. ASSUME pc'[g] = pc[g], job'[g] = job[g], rowid'[g] = rowid[g]
      PROVE  Progress(g)'
  <2>1. ~InsertSightingRow(g)
    BY <1>a, <1>c, InsertRowFacts
  <2> QED
    BY <1>a, <1>b, <1>c, <2>1, OthersProgress
<1>1. CASE Tick \/ CreateLocation \/ UNCHANGED vars
  BY <1>1, <1>c, CreateLocationFacts DEF Tick, vars, tables
<1>2. CASE Restart
  BY <1>2, <1>b DEF Restart
<1>3. ASSUME NEW h \in Handlers, ReportPoint(h) \/ ReportOnLocation(h)
      PROVE  Progress(g)'
  <2>1. /\ pc' = [pc EXCEPT ![h] = "locate"]
        /\ job' = [job EXCEPT ![h] = Len(reports) + 1]
        /\ UNCHANGED <<sightings, rowid>>
    BY <1>3, ReportFacts
  <2>2. CASE g = h
    <3>1. \A i \in DOMAIN sightings : sightings[i].serial # Len(reports) + 1
      BY DEF Typed, TypeOK, References
    <3> QED
      BY <1>a, <2>1, <2>2, <3>1 DEF Progress
  <2> QED
    BY <1>a, <1>c, <2>1, <2>2
<1>4. ASSUME NEW h \in Handlers, InsertLocation(h)
      PROVE  Progress(g)'
  <2>1. /\ pc[h] = "locate" /\ pc' = [pc EXCEPT ![h] = "record"]
        /\ UNCHANGED <<reports, sightings, job, rowid>>
    BY <1>4, InsertLocationFacts
  <2>2. CASE g = h
    <3> DEFINE r == Request(g)
    <3>1. r' = r /\ (Kept(r)' <=> Kept(r))
      BY <2>1 DEF Request, Kept
    <3>2. ASSUME Kept(r)
          PROVE  \E l \in DOMAIN locations' : SameCell(locations'[l], r)
      <4>1. CASE Matching(r) # {}
        BY <4>1, Grow DEF Matching, Extends
      <4>2. ASSUME Matching(r) = {}
            PROVE  \E l \in DOMAIN locations' : SameCell(locations'[l], r)
        <5>1. PICK l \in Location : /\ locations' = Append(locations, l)
                                   /\ SameCell(l, Stored(r))
          BY <1>4, <2>2, <4>2, InsertLocationFacts
        <5>2. r.chosen = 0
          <6>1. job[g] \in DOMAIN reports
            BY <2>1, <2>2, RequestType
          <6>2. r.chosen # 0 => /\ r.chosen \in DOMAIN locations
                                /\ SameCell(locations[r.chosen], r)
            BY <6>1 DEF Request, Faithful, Typed, References
          <6> QED
            BY <4>2, <6>2 DEF Matching
        <5>3. SameCell(l, r)
          BY <3>2, <5>1, <5>2 DEF Kept, RoundTrips, SameCell
        <5>4. Len(locations) + 1 \in DOMAIN locations'
              /\ locations'[Len(locations) + 1] = l
          BY <5>1, Appended DEF Typed, TypeOK
        <5> QED
          BY <5>3, <5>4
      <4> QED
        BY <4>1, <4>2
    <3>3. Kept(r) => Matching(r)' # {}
      BY <3>1, <3>2 DEF Matching
    <3>4. pc'[g] = "record" /\ job'[g] = job[g]
      BY <1>a, <2>1, <2>2
    <3>5. \A i \in DOMAIN sightings : sightings[i].serial # job[g]
      BY <1>a, <2>1, <2>2 DEF Progress
    <3> QED
      BY <2>1, <3>1, <3>3, <3>4, <3>5 DEF Progress
  <2> QED
    BY <1>a, <1>c, <2>1, <2>2
<1>5. ASSUME NEW h \in Handlers, InsertSightingRow(h)
      PROVE  Progress(g)'
  <2>1. /\ pc[h] = "record" /\ pc' = [pc EXCEPT ![h] = "respond"]
        /\ rowid' = [rowid EXCEPT ![h] = Len(sightings) + 1]
        /\ job' = job
    BY <1>5, InsertRowFacts
  <2>2. CASE g = h
    <3>1. pc'[g] = "respond" /\ rowid'[g] = Len(sightings) + 1
      BY <1>a, <2>1, <2>2
    <3>2. PICK i : i = Len(sightings) + 1 /\ Holds(i, job[g])'
      BY <1>5, <2>2, RowHolds
    <3>3. Holds(rowid[g], job[g])'
      BY <3>1, <3>2 DEF Holds
    <3> QED
      BY <3>1, <3>3 DEF Progress
  <2> QED
    BY <1>a, <1>c, <2>1, <2>2
<1>6. ASSUME NEW h \in Handlers, InsertNoRow(h)
      PROVE  Progress(g)'
  <2>1. /\ pc[h] = "record" /\ Matching(Request(h)) = {}
        /\ pc' = [pc EXCEPT ![h] = "respond"]
        /\ \A k \in Handlers \ {h} : rowid'[k] = rowid[k]
        /\ UNCHANGED <<reports, job>>
    BY <1>6, InsertNoRowFacts
  <2>2. CASE g = h
    <3>1. pc'[g] = "respond" /\ ~Kept(Request(g))'
      BY <1>a, <2>1, <2>2 DEF Progress, Request, Kept
    <3> QED
      BY <3>1 DEF Progress
  <2> QED
    BY <1>a, <1>c, <2>1, <2>2
<1>7. ASSUME NEW h \in Handlers, Respond(h) \/ Fail(h)
      PROVE  Progress(g)'
  <2>1. /\ pc' = [pc EXCEPT ![h] = "idle"]
        /\ job' = [job EXCEPT ![h] = 0]
        /\ rowid' = [rowid EXCEPT ![h] = 0]
    BY <1>7, LeavingFacts
  <2> QED
    BY <1>a, <1>b, <1>c, <2>1
<1> QED
  BY <1>1, <1>2, <1>3, <1>4, <1>5, <1>6, <1>7 DEF Next

\* A location that a report created is the first of its cell.
LEMMA NextFirstOfItsCell ==
  ASSUME Typed, Faithful, FirstOfItsCell, [Next]_vars
  PROVE  FirstOfItsCell'
<1> SUFFICES ASSUME NEW i \in DOMAIN locations', NEW j \in DOMAIN locations',
                    i < j, locations'[j].via # 0,
                    RoundTrips(reports'[locations'[j].via])
             PROVE  ~SameCell(locations'[i], locations'[j])
  BY DEF FirstOfItsCell
<1>a. locations \in Seq(Location) /\ locations' \in Seq(Location)
  BY NextTyped DEF Typed, TypeOK
<1>b. \A l \in DOMAIN locations : locations[l].via \in {0} \cup DOMAIN reports
  BY DEF Typed, References
<1>1. CASE j \in DOMAIN locations
  <2>1. i \in DOMAIN locations
    BY <1>a, <1>1
  <2>2. /\ locations'[i] = locations[i] /\ locations'[j] = locations[j]
        /\ reports'[locations[j].via] = reports[locations[j].via]
    BY <1>1, <1>b, <2>1, Grow DEF Extends
  <2> QED
    BY <1>1, <2>1, <2>2 DEF FirstOfItsCell
<1>2. CASE CreateLocation /\ j \notin DOMAIN locations
  BY <1>a, <1>2, CreateLocationFacts, Appended
<1>3. ASSUME NEW h \in Handlers, InsertLocation(h), j \notin DOMAIN locations
      PROVE  ~SameCell(locations'[i], locations'[j])
  <2> DEFINE r == Request(h)
  <2>1. Matching(r) = {}
    BY <1>3, InsertLocationFacts
  <2>2. PICK l \in Location : /\ locations' = Append(locations, l)
                             /\ l.via = job[h]
                             /\ SameCell(l, Stored(r))
    BY <1>3, <2>1, InsertLocationFacts
  <2>3. locations'[j] = l /\ i \in DOMAIN locations /\ locations'[i] = locations[i]
    BY <1>a, <1>3, <2>2, Appended
  <2>4. reports'[locations'[j].via] = r
    BY <1>3, <2>2, <2>3, InsertLocationFacts DEF Request
  <2>5. SameCell(l, r)
    BY <2>2, <2>4 DEF RoundTrips, SameCell
  <2>6. ~SameCell(locations[i], r)
    BY <2>1, <2>3 DEF Matching
  <2> QED
    BY <2>3, <2>5, <2>6 DEF SameCell
<1> QED
  BY <1>1, <1>2, <1>3, Writers

\* A request appends at most one sighting.
LEMMA NextRecordedOnce ==
  ASSUME Typed, InProgress, RecordedOnce, [Next]_vars
  PROVE  RecordedOnce'
<1>1. CASE sightings' = sightings
  BY <1>1 DEF RecordedOnce
<1>2. ASSUME NEW h \in Handlers, InsertSightingRow(h)
      PROVE  RecordedOnce'
  <2>1. \A i \in DOMAIN sightings : sightings[i].serial # job[h]
    BY <1>2, InsertRowFacts DEF InProgress, Progress
  <2> QED
    BY <1>2, <2>1, RowHolds DEF RecordedOnce
<1> QED
  BY <1>1, <1>2, Writers

\* An answer is given with the row that InProgress promises.
LEMMA NextAcknowledged ==
  ASSUME Typed, InProgress, AcknowledgedReportStored, [Next]_vars
  PROVE  AcknowledgedReportStored'
<1> SUFFICES ASSUME NEW a \in acks', Kept(reports'[a.serial])
             PROVE  Holds(a.id, a.serial)'
  BY DEF AcknowledgedReportStored, Kept
<1>1. CASE a \in acks
  <2>1. a.serial \in DOMAIN reports
    BY <1>1 DEF Typed, References
  <2>2. Kept(reports[a.serial])
    BY <2>1, ReportStays
  <2> QED
    BY <1>1, <2>2, HoldsStays DEF AcknowledgedReportStored
<1>2. ASSUME a \notin acks
      PROVE  Holds(a.id, a.serial)'
  <2>1. PICK h \in Handlers : Respond(h)
    BY <1>2, CreateLocationFacts, ReportFacts, InsertLocationFacts,
       InsertRowFacts, InsertNoRowFacts
       DEF Next, Tick, Restart, Fail, vars
  <2>2. pc[h] = "respond" /\ a = [serial |-> job[h], id |-> rowid[h]]
    BY <1>2, <2>1, LeavingFacts
  <2>3. reports' = reports
    BY <2>1, LeavingFacts
  <2>4. Holds(a.id, a.serial)
    BY <2>2, <2>3 DEF InProgress, Progress, Request
  <2> QED
    BY <2>4, HoldsStays
<1> QED
  BY <1>1, <1>2

\* A position enters a table or the history only through a range check, and
\* rounding does not leave the range.
LEMMA NextPositioned ==
  ASSUME Typed, Positioned, [Next]_vars
  PROVE  Positioned'
<1>a. /\ locations \in Seq(Location) /\ reports \in Seq(Report)
      /\ \A l \in DOMAIN locations : ValidLatLon(locations[l])
      /\ \A n \in DOMAIN reports : ValidLatLon(reports[n])
  BY DEF Typed, TypeOK, Positioned
<1>b. locations \in Seq(Location)
  BY <1>a
<1>1. ASSUME NEW l \in DOMAIN locations'
      PROVE  ValidLatLon(locations'[l])
  <2>1. CASE l \in DOMAIN locations
    BY <1>a, <2>1, Grow DEF Extends
  <2>2. ASSUME CreateLocation, l \notin DOMAIN locations
        PROVE  ValidLatLon(locations'[l])
    BY <1>a, <1>1, <2>2, CreateLocationFacts, Appended
  <2>3. ASSUME NEW h \in Handlers, InsertLocation(h), l \notin DOMAIN locations
        PROVE  ValidLatLon(locations'[l])
    <3>1. PICK e \in Location : /\ locations' = Append(locations, e)
                                /\ ValidLatLon(Request(h)) => ValidLatLon(e)
      BY <1>1, <2>3, InsertLocationFacts
    <3>2. ValidLatLon(Request(h))
      BY <1>a, <2>3, InsertLocationFacts, RequestType DEF Request
    <3>3. locations'[l] = e
      BY <1>b, <1>1, <2>3, <3>1, Appended
    <3> QED
      BY <3>1, <3>2, <3>3 DEF ValidLatLon
  <2> QED
    BY <1>1, <2>1, <2>2, <2>3, Writers
<1>2. ASSUME NEW n \in DOMAIN reports'
      PROVE  ValidLatLon(reports'[n])
  <2>1. CASE n \in DOMAIN reports
    BY <1>a, <2>1, Grow DEF Extends
  <2>2. CASE n \notin DOMAIN reports
    <3>1. PICK h \in Handlers : ReportPoint(h) \/ ReportOnLocation(h)
      BY <1>2, <2>2, Writers
    <3>2. PICK r \in Report : reports' = Append(reports, r) /\ ValidLatLon(r)
      BY <3>1, ReportFacts
    <3> QED
      BY <1>a, <1>2, <2>2, <3>2, Appended
  <2> QED
    BY <2>1, <2>2
<1> QED
  BY <1>1, <1>2 DEF Positioned

LEMMA InitIInv == Init => IInv
BY InitTyped DEF Init, Positioned, Typed, IInv, OneHandlerPerReport, InProgress, Progress,
   Faithful, AcknowledgedReportStored, FirstOfItsCell, RecordedOnce, Holds

LEMMA NextIInv == IInv /\ [Next]_vars => IInv'
BY NextTyped, NextOneHandler, NextInProgress, NextFaithful, NextPositioned, NextAcknowledged,
   NextFirstOfItsCell, NextRecordedOnce DEF IInv, Typed

\* The invariant of requests in progress (store.go:55-87): in every behaviour,
\* between the two statements of InsertSighting and until its answer, a kept
\* report has a location to be found and then a row that holds it.
THEOREM IInvHolds == Spec => []IInv
BY InitIInv, NextIInv, PTL DEF Spec

\* The id in a 201 answer names the row that holds the report, for every
\* report that round-trips or reuses a location's coordinates, however other
\* requests, new locations and failures interleave (store.go:55-87).
THEOREM AcknowledgedReportIsStored == Spec => []AcknowledgedReportStored
<1>1. IInv => AcknowledgedReportStored
  BY DEF IInv
<1> QED
  BY <1>1, IInvHolds, PTL

\* Once a kept report is answered, every map that reaches back to its time
\* shows its location, in the report's cell and with a sighting not older than
\* the report (store.go:55-127): whatever was reported, inserted or lost since.
THEOREM AnsweredReportIsOnTheMap == Spec => []AnsweredReportReachesMap
<1>1. IInv => AnsweredReportReachesMap
  <2> SUFFICES ASSUME IInv, NEW a \in acks, Kept(reports[a.serial]),
                      NEW since \in 0 .. now, since <= reports[a.serial].at
               PROVE  LET l == sightings[a.id].location
                          shown == {m \in MapMarkers(since, TRUE) : m[1] = l}
                      IN  /\ shown # {}
                          /\ SameCell(locations[l], reports[a.serial])
                          /\ \A m \in shown : sightings[m[2]].at >= reports[a.serial].at
    BY DEF AnsweredReportReachesMap
  <2> DEFINE l == sightings[a.id].location
             rows == MarkerRows(l, sightings, <<>>, since, FALSE)
             shown == {m \in MapMarkers(since, TRUE) : m[1] = l}
  <2>a. /\ sightings \in Seq(Sighting) /\ locations \in Seq(Location)
        /\ Holds(a.id, a.serial)
        /\ \A k \in DOMAIN locations : ValidLatLon(locations[k])
    BY DEF IInv, TypeOK, AcknowledgedReportStored, Positioned
  <2>b. \A k \in DOMAIN sightings : sightings[k].at \in Int
    <3>1. \A k \in DOMAIN sightings : sightings[k] \in Sighting
      BY <2>a, SeqElement
    <3> QED
      BY <3>1 DEF Sighting
  <2>1. /\ a.id \in DOMAIN sightings /\ l \in DOMAIN locations
        /\ sightings[a.id].at = reports[a.serial].at
        /\ SameCell(locations[l], reports[a.serial])
    BY <2>a DEF Holds
  <2>2. Visible(sightings[a.id], <<>>, since, FALSE)
    BY <2>1, NoFlags DEF Visible
  <2>3. rows # {} /\ \A k \in rows : sightings[k].at >= sightings[a.id].at
    BY <2>a, <2>b, <2>1, <2>2, MarkerOfVisible
  <2>4. rows \subseteq DOMAIN sightings
    BY DEF MarkerRows, Group
  <2>5. InBox(locations[l], WholeMap)
    BY <2>a, <2>1 DEF InBox, WholeMap, ValidLatLon
  <2>6. \A k \in rows : <<l, k>> \in MapMarkers(since, TRUE)
    BY <2>1, <2>4, <2>5 DEF MapMarkers, Markers
  <2>7. \A m \in shown : m[2] \in rows
    BY DEF MapMarkers, Markers
  <2>8. shown # {}
    <3>1. PICK k : k \in rows
      BY <2>3
    <3>2. <<l, k>> \in MapMarkers(since, TRUE) /\ <<l, k>>[1] = l
      BY <2>6, <3>1
    <3> QED
      BY <3>2
  <2>9. \A m \in shown : sightings[m[2]].at >= reports[a.serial].at
    BY <2>1, <2>3, <2>7
  <2> HIDE DEF l, shown
  <2>10. /\ shown # {}
         /\ SameCell(locations[l], reports[a.serial])
         /\ \A m \in shown : sightings[m[2]].at >= reports[a.serial].at
    BY <2>1, <2>8, <2>9
  <2> QED
    BY <2>10, Zenon DEF l, shown
<1> QED
  BY <1>1, IInvHolds, PTL

\* Concurrent first reports of a place create one location (store.go:56-60).
THEOREM LocationIsFirstOfItsCell == Spec => []FirstOfItsCell
<1>1. IInv => FirstOfItsCell
  BY DEF IInv
<1> QED
  BY <1>1, IInvHolds, PTL

\* No request appends two sightings (store.go:75-82).
THEOREM ReportIsRecordedOnce == Spec => []RecordedOnce
<1>1. IInv => RecordedOnce
  BY DEF IInv
<1> QED
  BY <1>1, IInvHolds, PTL

-----------------------------------------------------------------------------
(* Refinement of ReportBoard.                                              *)

LEMMA FunctionIsSeq ==
  ASSUME NEW n \in Nat, NEW T, NEW f \in [1 .. n -> T]
  PROVE  f \in Seq(T) /\ Len(f) = n
OBVIOUS

LEMMA AppendIs ==
  ASSUME NEW T, NEW s \in Seq(T), NEW t \in Seq(T), NEW e \in T,
         Len(t) = Len(s) + 1,
         \A i \in DOMAIN s : t[i] = s[i],
         t[Len(s) + 1] = e
  PROVE  t = Append(s, e)
OBVIOUS

Entries == [i \in DOMAIN sightings |-> EntryOf(sightings[i])]
Answered == {a.serial : a \in {b \in acks : Kept(reports[b.serial])}}

\* The abstract entries are a sequence as long as table sightings.
LEMMA EntriesSeq ==
  ASSUME Typed
  PROVE  \A T : (\A i \in DOMAIN sightings : EntryOf(sightings[i]) \in T)
                => Entries \in Seq(T) /\ Len(Entries) = Len(sightings)
<1>1. DOMAIN sightings = 1 .. Len(sightings) /\ Len(sightings) \in Nat
  BY DEF Typed, TypeOK
<1> QED
  BY <1>1, FunctionIsSeq DEF Entries

LEMMA InitBoard == Init => Board!Init
BY DEF Init, Board!Init

LEMMA BoardCell == ASSUME NEW p PROVE Board!Cell(p) = Cell(p)
BY DEF Board!Cell, Board!Round6, Board!Taken, Board!Magnitude, Cell, Round6, Taken, Magnitude

\* A sighting's entry is the entry of the report it holds.
LEMMA EntryOfHeld ==
  ASSUME Typed, NEW i \in DOMAIN sightings, Holds(i, sightings[i].serial)
  PROVE  EntryOf(sightings[i]) = Board!Entry(sightings[i].serial)
BY BoardCell DEF Holds, EntryOf, Board!Entry, SameCell

\* Rows keep their entries.
LEMMA EntryStays ==
  ASSUME Typed, [Next]_vars, NEW i \in DOMAIN sightings
  PROVE  EntryOf(sightings[i])' = EntryOf(sightings[i])
<1>1. sightings[i].location \in DOMAIN locations
  BY DEF Typed, References
<1>2. sightings'[i] = sightings[i]
      /\ locations'[sightings[i].location] = locations[sightings[i].location]
  BY <1>1, Grow DEF Extends
<1> QED
  BY <1>2 DEF EntryOf

LEMMA NextBoard == IInv /\ [Next]_vars => [Board!Next]_(Board!vars)
<1> SUFFICES ASSUME IInv, [Next]_vars PROVE [Board!Next]_(Board!vars)
  OBVIOUS
<1>a. Typed /\ IInv' /\ Typed'
  BY NextIInv, NextTyped DEF IInv, Typed
<1>b. sightings' = sightings => Entries' = Entries
  BY <1>a, EntryStays DEF Entries
<1>c. acks' = acks => Answered' = Answered
  BY <1>a, ReportStays DEF Answered, Typed, References
<1>1. CASE UNCHANGED <<reports, sightings, acks>>
  BY <1>1, <1>b, <1>c DEF Board!vars, Entries, Answered
<1>2. ASSUME NEW h \in Handlers, ReportPoint(h) \/ ReportOnLocation(h)
      PROVE  Board!Ask
  <2>1. PICK r \in Report : reports' = Append(reports, r)
    BY <1>a, <1>2, ReportFacts
  <2>2. /\ DOMAIN reports' = 1 .. Len(reports) + 1
        /\ \A n \in DOMAIN reports : reports'[n] = reports[n]
    BY <1>a, <2>1, Appended DEF Typed, TypeOK
  <2>3. UNCHANGED <<sightings, acks>>
    BY <1>2, <1>a, ReportFacts
  <2> QED
    BY <2>2, <2>3, <1>b, <1>c DEF Board!Ask, Entries, Answered
<1>3. ASSUME NEW h \in Handlers, InsertSightingRow(h)
      PROVE  \E n \in DOMAIN reports : Board!Publish(n)
  <2> DEFINE n == job[h]
  <2>1. n \in DOMAIN reports /\ UNCHANGED <<reports, locations, acks>>
    BY <1>3, <1>a, InsertRowFacts, RequestType
  <2>2. ~Board!Published(n)
    <3>1. \A i \in DOMAIN sightings : sightings[i].serial # n
      BY <1>3, <1>a, InsertRowFacts DEF IInv, InProgress, Progress
    <3> QED
      BY <3>1 DEF Board!Published, EntryOf
  <2>3. /\ DOMAIN sightings = 1 .. Len(sightings)
        /\ DOMAIN sightings' = 1 .. Len(sightings) + 1
        /\ Len(sightings') = Len(sightings) + 1
    <3>1. PICK s \in Sighting : sightings' = Append(sightings, s)
      BY <1>3, <1>a, InsertRowFacts
    <3> QED
      BY <3>1, <1>a DEF Typed, TypeOK
  <2>4. ASSUME NEW i, i = Len(sightings) + 1
        PROVE  EntryOf(sightings[i])' = Board!Entry(n)
    <3>1. Holds(i, job[h])'
      BY <1>3, <1>a, <2>4, RowHolds
    <3>2. LET s == sightings'[i]
              r == reports[n]
          IN  /\ s.serial = n /\ s.reporter = r.user /\ s.at = r.at
              /\ s.transpired = r.transpired
              /\ Cell(locations[s.location]) = Cell(r)
      BY <1>3, <1>a, <2>1, <3>1, InsertRowFacts DEF Holds, SameCell
    <3> QED
      BY <2>1, <3>2, BoardCell DEF EntryOf, Board!Entry
  <2>5. Entries' = Append(Entries, Board!Entry(n))
    <3> DEFINE T == {EntryOf(sightings[i]) : i \in DOMAIN sightings}
                      \cup {Board!Entry(n)}
               new == Len(sightings) + 1
    <3>1. /\ Len(sightings) \in Nat
          /\ DOMAIN Entries = 1 .. Len(sightings)
          /\ DOMAIN Entries' = 1 .. new
      BY <1>a, <2>3 DEF Entries, Typed, TypeOK
    <3>2. \A i \in DOMAIN Entries : Entries[i] \in T
      BY DEF Entries
    <3>3. \A i \in DOMAIN Entries : Entries'[i] = Entries[i]
      BY <1>a, <2>3, <3>1, EntryStays DEF Entries
    <3>4. \A i : i = new => Entries'[i] = Board!Entry(n)
      BY <2>3, <2>4, <3>1 DEF Entries
    <3> HIDE DEF T
    <3>5. Board!Entry(n) \in T
      BY DEF T
    <3>6. Entries \in Seq(T) /\ Len(Entries) = Len(sightings)
      <4>1. Entries \in [1 .. Len(sightings) -> T]
        BY <3>1, <3>2 DEF Entries
      <4> QED
        BY <3>1, <4>1, FunctionIsSeq
    <3>7. Entries' \in Seq(T) /\ Len(Entries') = new
      <4>1. \A i \in 1 .. new : i \in 1 .. Len(sightings) \/ i = new
        BY <3>1
      <4>2. \A i \in 1 .. new : Entries'[i] \in T
        BY <4>1, <3>1, <3>2, <3>3, <3>4, <3>5
      <4>3. Entries' = [i \in DOMAIN Entries' |-> Entries'[i]]
        BY DEF Entries
      <4>4. Entries' \in [1 .. new -> T]
        BY <3>1, <4>2, <4>3
      <4> QED
        BY <3>1, <4>4, FunctionIsSeq
    <3> QED
      BY <3>1, <3>3, <3>4, <3>5, <3>6, <3>7, AppendIs
  <2> QED
    BY <2>1, <2>2, <2>5, <1>c DEF Board!Publish, Entries, Answered
<1>4. ASSUME NEW h \in Handlers, Respond(h)
      PROVE  UNCHANGED Board!vars \/ \E n \in DOMAIN reports : Board!Answer(n)
  <2> DEFINE n == job[h]
  <2>1. /\ acks' = acks \cup {[serial |-> n, id |-> rowid[h]]}
        /\ pc[h] = "respond"
        /\ UNCHANGED <<reports, sightings, locations>>
    BY <1>4 DEF Respond, tables
  <2>2. n \in DOMAIN reports /\ Request(h) = reports[n]
    BY <2>1, <1>a, RequestType DEF Request
  <2>3. CASE ~Kept(reports[n])
    <3>1. Answered' = Answered
      BY <2>1, <2>3 DEF Answered, Kept
    <3> QED
      BY <2>1, <3>1, <1>b DEF Board!vars, Entries, Answered
  <2>4. CASE Kept(reports[n])
    <3> DEFINE K == {b \in acks : Kept(reports[b.serial])}
               a == [serial |-> n, id |-> rowid[h]]
    <3>0. K' = K \cup {a} /\ a.serial = n
      BY <2>1, <2>4 DEF Kept
    <3>1. Answered' = Answered \cup {n}
      <4>1. Answered = {b.serial : b \in K} /\ Answered' = {b.serial : b \in K'}
        BY DEF Answered
      <4> HIDE DEF K, a
      <4> QED
        BY <3>0, <4>1
    <3>2. Holds(rowid[h], n)
      BY <2>1, <2>2, <2>4 DEF IInv, InProgress, Progress
    <3>3. Board!Published(n)
      BY <3>2 DEF Board!Published, Holds, EntryOf
    <3> QED
      BY <2>1, <2>2, <3>1, <3>3, <1>b DEF Board!Answer, Entries, Answered
  <2> QED
    BY <2>2, <2>3, <2>4
<1>5. ASSUME NEW h \in Handlers, InsertLocation(h) \/ InsertNoRow(h) \/ Fail(h)
      PROVE  UNCHANGED <<reports, sightings, acks>>
  BY <1>5, <1>a, InsertLocationFacts, InsertNoRowFacts DEF Fail, tables
<1>6. CASE Tick \/ CreateLocation \/ Restart \/ UNCHANGED vars
  BY <1>1, <1>6, <1>a, CreateLocationFacts DEF Tick, Restart, vars, tables
<1> QED
  BY <1>1, <1>2, <1>3, <1>4, <1>5, <1>6 DEF Next, Board!Next

\* POST /api/sightings keeps ReportBoard's promise: a report is published at
\* most once, in one step, in its cell and with its user, time and event, and
\* a kept report is answered only once it is published.
THEOREM RefinesReportBoard == Spec => ImplementsReportBoard
<1>1. IInv /\ [Next]_vars => [Board!Next]_(Board!vars)
  BY NextBoard
<1> QED
  BY <1>1, InitBoard, IInvHolds, PTL DEF Spec, Board!Spec, ImplementsReportBoard
=============================================================================
