------------------------------ MODULE Importer ------------------------------
(***************************************************************************)
(* cmd/import-pirate-map beside a running server on one database file:     *)
(* what becomes of a document's placemarks, and the transaction that       *)
(* imports them.                                                           *)
(*                                                                         *)
(* A text is the set of the phrases in it that the program looks for, a    *)
(* line the sequence of the dates in it, a document                        *)
(* [folders |-> sequence of [words, placemarks], loose |-> placemarks].    *)
(*                                                                         *)
(* The statement that appends a sighting names columns its table lacks and *)
(* is refused, so that no record is ever stored: the rest of the loop, the *)
(* commit and -dry-run come after it and have no step here.                *)
(***************************************************************************)
EXTENDS Coordinates, SequencesExt

CONSTANTS Documents,       \* the exports a run may find
          NotADate,        \* a match of the pattern that is no day of a year
          Garbled,         \* coordinates that are not two numbers
          MapDate,         \* the date of the import, 2026-06-20
          Near,            \* 0.000045 degrees, in units
          ServerSpots,     \* where the server's users report
          MaxRuns, MaxReports

Placemark == [name : STRING, coordinates : (Int \X Int) \cup {Garbled},
              text : SUBSET STRING, lines : Seq(Seq(Int \cup {NotADate}))]
Folder == [words : SUBSET STRING, placemarks : Seq(Placemark)]

ASSUME ImporterAssumption ==
  /\ Documents \subseteq [folders : Seq(Folder), loose : Seq(Placemark)]
  /\ ServerSpots \subseteq [lat : Int, lon : Int]
  /\ NotADate \notin Int /\ MapDate \in Int /\ Near \in Nat
  /\ MaxRuns \in Nat /\ MaxReports \in Nat

-----------------------------------------------------------------------------
(* From a document to records.                                             *)

\* Mutant of Classify: what was reported counts before what became of it.
ClassifyReportedFirst(words) ==
  IF words \cap {"billboard", "questionable legality"} # {} THEN "discard"
  ELSE IF "reported" \in words THEN "exists"
  ELSE IF words \cap {"plunder", "removed"} # {} THEN "gone"
  ELSE "unknown"

Classify(words) ==
  IF words \cap {"billboard", "questionable legality"} # {} THEN "discard"
  ELSE IF words \cap {"plunder", "removed"} # {} THEN "gone"
  ELSE IF "reported" \in words THEN "exists"
  ELSE "unknown"

MessageForFolder(words, text) ==
  IF "jicr" \in words THEN "jicr"
  ELSE IF "js" \in words THEN "js"
  ELSE IF "jesus is coming" \in text THEN "jicr"
  ELSE IF "jesus saves" \in text THEN "js"
  ELSE IF "believe in jesus" \in text THEN "bij"
  ELSE "unknown"

MediumForDescription(text) ==
  IF text \cap {"sticker", "barnacle"} # {} THEN "sticker" ELSE "placard"

\* Among the last five lines, the last one that ends its matches with a date.
ObservationDate(lines) ==
  LET dated == {i \in DOMAIN lines : /\ Len(lines) - i < 5
                                     /\ lines[i] # <<>>
                                     /\ Last(lines[i]) # NotADate}
      date  == Last(lines[Max(dated)])
  IN  IF dated # {} /\ date > MapDate THEN date ELSE MapDate

\* <coordinates> is "lon,lat".
ParseLonLat(c) == [lat |-> c[2], lon |-> c[1]]
\* Mutant of Usable: two numbers are taken for a position.
UsableUnchecked(p) == p.coordinates # Garbled

Usable(p) == p.coordinates # Garbled /\ ValidLatLon(ParseLonLat(p.coordinates))

\* "%.6f" prints the exact double rounded to six decimals: TiesDown is here what
\* that printing takes down, which on a double that is a tie is half to even.
NaturalID(name, p) == <<name, Round6(p.lat), Round6(p.lon)>>

ImportRecord(words, p) ==
  LET at == ParseLonLat(p.coordinates)
  IN  [externalID |-> NaturalID(p.name, at), lat |-> at.lat, lon |-> at.lon,
       when |-> ObservationDate(p.lines),
       exists |-> Classify(words) = "exists",
       message |-> MessageForFolder(words, p.text),
       medium |-> MediumForDescription(p.text)]

Retained(f) == Classify(f.words) \in {"exists", "gone"}

RecordsOf(f) ==
  IF Retained(f)
  THEN FlattenSeq([k \in DOMAIN f.placemarks |->
                     IF Usable(f.placemarks[k]) THEN <<ImportRecord(f.words, f.placemarks[k])>>
                     ELSE <<>>])
  ELSE <<>>

BuildRecords(doc) ==
  FlattenSeq([i \in DOMAIN doc.folders |-> RecordsOf(doc.folders[i])])

\* A counter of the summary, to which each pass of a loop adds.
Total(counts) ==
  LET upto[i \in 0 .. Len(counts)] == IF i = 0 THEN 0 ELSE upto[i - 1] + counts[i]
  IN  upto[Len(counts)]

\* Mutant of Discarded: the placemarks without a folder are overlooked.
DiscardedInFolders(doc) ==
  Total([i \in DOMAIN doc.folders |->
           IF Retained(doc.folders[i]) THEN 0 ELSE Len(doc.folders[i].placemarks)])

\* Placemarks of folders that are not imported, and those without a folder.
Discarded(doc) ==
  Len(doc.loose)
  + Total([i \in DOMAIN doc.folders |->
             IF Retained(doc.folders[i]) THEN 0 ELSE Len(doc.folders[i].placemarks)])

BadCoordsIn(f) ==
  IF Retained(f)
  THEN Total([k \in DOMAIN f.placemarks |-> IF Usable(f.placemarks[k]) THEN 0 ELSE 1])
  ELSE 0

BadCoords(doc) == Total([i \in DOMAIN doc.folders |-> BadCoordsIn(doc.folders[i])])

-----------------------------------------------------------------------------
VARIABLES
  pc,          \* where the run is; "fatal" is log.Fatalf or a crash
  runs,        \* how many runs there were
  doc, recs,   \* the run's document and its records
  troubled,    \* history: whether something outside the run failed it
  registered,  \* whether the importer has its row of users
  locations,   \* table locations, as committed
  tx,          \* the rows the run's open transaction inserted into it
  writer       \* who holds SQLite's write lock

vars == <<pc, runs, doc, recs, troubled, registered, locations, tx, writer>>

Nobody == "nobody"
Location == [lat : Int, lon : Int, by : {"server", "importer"}]

Init == /\ pc = "idle" /\ runs = 0
        /\ doc = [folders |-> <<>>, loose |-> <<>>] /\ recs = <<>>
        /\ troubled = FALSE /\ registered = FALSE
        /\ locations = <<>> /\ tx = <<>> /\ writer = Nobody

\* The columns of the two tables the second statement names through an alias,
\* and those table locations has.
NamedColumns == {"id", "transpired", "external_id"}
LocationColumns == {"id", "lat", "lon", "created_by", "created_at", "validated_by"}

Within(l, r) == /\ r.lat - Near <= l.lat /\ l.lat <= r.lat + Near
                /\ r.lon - Near <= l.lon /\ l.lon <= r.lon + Near

Start(d) ==
  /\ pc \in {"idle", "fatal"} /\ runs < MaxRuns
  /\ pc' = "loading" /\ runs' = runs + 1 /\ doc' = d
  /\ recs' = <<>> /\ troubled' = FALSE
  /\ UNCHANGED <<registered, locations, tx, writer>>

\* The export is fetched or read, unwrapped and parsed, and its records built:
\* without any, the run ends before it opens the database.
Load ==
  /\ pc = "loading"
  /\ recs' = BuildRecords(doc)
  /\ pc' = IF recs' = <<>> THEN "fatal" ELSE "loaded"
  /\ UNCHANGED <<runs, doc, troubled, registered, locations, tx, writer>>

\* The importer's identity is registered outside the transaction.
ResolveImporter ==
  /\ pc = "loaded" /\ writer = Nobody
  /\ pc' = "resolved" /\ registered' = TRUE
  /\ UNCHANGED <<runs, doc, recs, troubled, locations, tx, writer>>

\* Mutant of InsertLocation: the statement runs outside the transaction.
InsertLocationDirectly ==
  /\ pc = "resolved" /\ writer = Nobody
  /\ pc' = "located" /\ writer' = "importer"
  /\ LET r == recs[1]
     IN  locations' = IF \E i \in DOMAIN locations : Within(locations[i], r) THEN locations
                      ELSE Append(locations, [lat |-> r.lat, lon |-> r.lon, by |-> "importer"])
  /\ UNCHANGED <<runs, doc, recs, troubled, registered, tx>>

\* BEGIN takes no lock; the first statement takes the write lock and keeps it.
InsertLocation ==
  /\ pc = "resolved" /\ writer = Nobody
  /\ pc' = "located" /\ writer' = "importer"
  /\ LET r == recs[1]
     IN  tx' = IF \E i \in DOMAIN locations : Within(locations[i], r) THEN <<>>
               ELSE <<[lat |-> r.lat, lon |-> r.lon, by |-> "importer"]>>
  /\ UNCHANGED <<runs, doc, recs, troubled, registered, locations>>

\* INSERT INTO sightings is not prepared: the deferred Rollback drops the
\* transaction, and the run ends.
RefuseSighting ==
  /\ pc = "located" /\ ~(NamedColumns \subseteq LocationColumns)
  /\ pc' = "fatal" /\ tx' = <<>> /\ writer' = Nobody
  /\ UNCHANGED <<runs, doc, recs, troubled, registered, locations>>

\* Mutant of Fail: the program starts over instead of ending.
FailRetrying ==
  /\ pc \in {"loading", "loaded", "resolved", "located"}
  /\ pc' = "loading" /\ troubled' = TRUE /\ tx' = <<>>
  /\ writer' = IF writer = "importer" THEN Nobody ELSE writer
  /\ UNCHANGED <<runs, doc, recs, registered, locations>>

\* The network, the file, the archive, the XML or the database fails the run,
\* the busy timeout included, or the process is killed: SQLite rolls back.
Fail ==
  /\ pc \in {"loading", "loaded", "resolved", "located"}
  /\ pc' = "fatal" /\ troubled' = TRUE /\ tx' = <<>>
  /\ writer' = IF writer = "importer" THEN Nobody ELSE writer
  /\ UNCHANGED <<runs, doc, recs, registered, locations>>

\* A report of the server's users: a writer waits for the lock.
ServerBegins ==
  /\ writer = Nobody /\ Len(locations) < MaxReports
  /\ writer' = "server"
  /\ UNCHANGED <<pc, runs, doc, recs, troubled, registered, locations, tx>>

ServerCommits(p) ==
  /\ writer = "server"
  /\ locations' = Append(locations, [lat |-> p.lat, lon |-> p.lon, by |-> "server"])
  /\ writer' = Nobody
  /\ UNCHANGED <<pc, runs, doc, recs, troubled, registered, tx>>

Run == Load \/ ResolveImporter \/ InsertLocation \/ RefuseSighting \/ Fail
Server == ServerBegins \/ \E p \in ServerSpots : ServerCommits(p)
Next == (\E d \in Documents : Start(d)) \/ Run \/ Server

\* The program goes on, within its timeouts, and the server's statements end;
\* nothing is assumed of who starts a run or reports.
FairSpec == Init /\ [][Next]_vars /\ WF_vars(Run)
            /\ WF_vars(\E p \in ServerSpots : ServerCommits(p))

-----------------------------------------------------------------------------
(* Properties.                                                             *)

\* The variables have their types, and the lock and the transaction agree.
TypeOK == /\ pc \in {"idle", "loading", "loaded", "resolved", "located", "fatal"}
          /\ runs \in 0 .. MaxRuns /\ doc \in Documents \cup {[folders |-> <<>>, loose |-> <<>>]}
          /\ troubled \in BOOLEAN /\ registered \in BOOLEAN
          /\ \A i \in DOMAIN recs : recs[i].when >= MapDate /\ ValidLatLon(recs[i])
          /\ locations \in Seq(Location) /\ tx \in Seq(Location)
          /\ writer \in {Nobody, "server", "importer"}
          /\ (writer = "importer") <=> (pc = "located")

AllPlacemarks(d) ==
  FlattenSeq([i \in DOMAIN d.folders |-> d.folders[i].placemarks]) \o d.loose

\* main.go:386-390 and 405-409: the summary accounts for every placemark of the
\* document, once: as a record, as discarded, or as skipped for its coordinates.
EveryPlacemarkAccounted ==
  pc \in {"loaded", "resolved", "located"} =>
    Len(recs) + Discarded(doc) + BadCoords(doc) = Len(AllPlacemarks(doc))

\* main.go:7-11: no sign is imported as existing that only stands in folders
\* that say it was plundered or removed, and none from a folder of billboards
\* or of questionable legality, whatever else the folder's name says.
GoneStaysGone ==
  \A r \in ToSet(recs) : \E i \in DOMAIN doc.folders :
    /\ doc.folders[i].words \cap {"billboard", "questionable legality"} = {}
    /\ r.exists => doc.folders[i].words \cap {"plunder", "removed"} = {}
    /\ \E p \in ToSet(doc.folders[i].placemarks) :
          p.coordinates = <<r.lon, r.lat>> /\ p.name = r.externalID[1]

\* import.go:81-83 and the rollback of a failed run: a run that ends without
\* sightings leaves no location behind either, wherever it stops.
NoStrayLocations == \A i \in DOMAIN locations : locations[i].by = "server"

\* Every run ends, and the server gets the write lock back.
RunEnds == pc # "idle" ~> pc = "fatal" /\ writer # "importer"

\* README.md:112-113: a run that finds placemarks and meets no trouble appends
\* sightings; it does not end in an error.
UndisturbedRunImports == pc = "fatal" => troubled \/ recs = <<>>
=============================================================================
