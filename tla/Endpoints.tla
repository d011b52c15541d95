----------------------------- MODULE Endpoints ------------------------------
(***************************************************************************)
(* The server as its clients see it: every endpoint but POST               *)
(* /api/sightings (module Sightings), with requests of several users under *)
(* way on the tables, and the life of the process around them.             *)
(*                                                                         *)
(* A statement is one step, a handler one or two: what another handler     *)
(* commits between the two statements of a history shows in one of them.   *)
(* Users and their roles stand still here; they change in module Access.   *)
(***************************************************************************)
EXTENDS RequestParams, EventLog

CONSTANTS Users, Nobody,    \* the opaque ids of users, and one of no user
          RoleOf,           \* the role of each user
          Positions, Windows, HistoryQueries, MapQueries, Notes,  \* of requests
          OldLocations, OldSightings, OldFlags,       \* rows of the past
          NewSightings,     \* reports that come
          Now,              \* the clock, in the unit of MinDays
          Limit,            \* 500 events
          MaxReads, MaxWrites, MaxReports   \* requests that only read do not
                                            \* see each other

\* Rows of the tables; via is history, the request that wrote the row or 0.
Location == [lat : Int, lon : Int, at : Nat, creator : Users, via : Nat]
Sighting == [reporter : Users, location : Nat \ {0}, at : Nat,
             transpired : {"sighted", "missed", "removed"}, toExist : {0, 1}]
Flag == [target : Users, value : {-1, 1}, via : Nat]

ASSUME EndpointsAssumption ==
  /\ Nobody \notin Users /\ RoleOf \in [Users -> STRING]
  /\ {Now, Limit, MaxReads, MaxWrites, MaxReports} \subseteq Nat
  /\ OldLocations \in Seq(Location) /\ OldSightings \in Seq(Sighting) /\ OldFlags \in Seq(Flag)
  /\ \A l \in DOMAIN OldLocations : ValidLatLon(OldLocations[l]) /\ OldLocations[l].via = 0
  /\ \A s \in DOMAIN OldSightings : OldSightings[s].location \in DOMAIN OldLocations
  /\ \A k \in DOMAIN OldFlags : OldFlags[k].via = 0
  /\ NewSightings \subseteq Sighting
  /\ Positions \subseteq [lat : Int, lon : Int]
  /\ Windows \subseteq Window
  /\ HistoryQueries \subseteq [id : Parameter, window : Window, includeInsincere : BOOLEAN]
  /\ MapQueries \subseteq [box : Viewport, window : Window,
                           includeInsincere : BOOLEAN, includeMissing : BOOLEAN]

VARIABLES server,                               \* "up", "draining" or "down"
          locations, sightings, flags, notes,   \* tables; the index is the rowid
          called,                               \* column users.called
          requests                              \* all requests, in their order

tables == <<locations, sightings, flags, notes, called>>
vars == <<server, locations, sightings, flags, notes, called, requests>>

\* The permission each handler requires; Any is for whoever has an identity.
Any == "any"
Permission ==
  [handleMe |-> Any, handleUpdateMe |-> Any, handlePing |-> Any,
   handleListSightings |-> "audit", handleListEvents |-> "audit",
   handleAuditSightings |-> "audit", handleListFlags |-> "audit",
   handleListNotes |-> "audit", handleSetFlags |-> "set-user-flags",
   handleFlagInsincere |-> "flag_insincere", handleAddNote |-> "gossip",
   handleCreateLocation |-> "canonicalize", handleReconcile |-> "reconcile",
   handleLocationHistory |-> "view", handleMap |-> "view"]

\* role_permissions as a first start leaves it.
DefaultGrants ==
  [reporter |-> {"sight", "view"}, muted |-> {"view"},
   editor |-> {"sight", "view", "reconcile", "canonicalize", "gossip"},
   administrator |-> {"sight", "view", "reconcile", "canonicalize", "gossip",
                      "audit", "flag_insincere", "set-user-flags"}]

\* What each handler reads of a request: a body is Absent, Malformed or JSON.
\* A JSON body without the optional value is like no body.
Target == Users \cup {Nobody}
NoBody == {Absent, Malformed}
Inputs ==
  [handleMe |-> {Absent}, handlePing |-> {Absent},
   handleUpdateMe |-> [called : Notes \cup {""}, body : NoBody \cup Notes],
   handleListSightings |-> Windows, handleListEvents |-> Windows,
   handleAuditSightings |-> [target : Target], handleListFlags |-> [target : Target],
   handleListNotes |-> [target : Target],
   handleSetFlags |-> [target : Target,
     body : NoBody \cup [type : {"insincere", "other"}, value : {Absent, 0, 2}]],
   handleFlagInsincere |-> [target : Target,
     body : NoBody \cup [insincere : {FALSE}]],
   handleAddNote |-> [target : Target, body : NoBody \cup Notes \cup {""}],
   handleCreateLocation |-> [body : NoBody \cup Positions],
   handleReconcile |-> [body : NoBody \cup [location : 0 .. Len(locations) + 1,
                                            sighting : 0 .. Len(sightings) + 1]],
   handleLocationHistory |-> HistoryQueries,
   handleMap |-> MapQueries]

Writing == {"handleUpdateMe", "handleCreateLocation", "handleSetFlags",
            "handleFlagInsincere", "handleAddNote"}

Unanswered == 0
Lost == -1

\* seen and flagged are history: how many sightings and how many flags were
\* committed when the request came.
Request == [by : Users, handler : DOMAIN Permission, seen : Nat, flagged : Nat,
            phase : {"store", "located", "done"}, header : Nat,
            status : {Unanswered, Lost, 200, 201, 400, 403, 404, 500}]

Init == /\ server = "up"
        /\ locations = OldLocations /\ sightings = OldSightings
        /\ flags = OldFlags /\ notes = <<>>
        /\ called = [u \in Users |-> [note |-> "", via |-> 0]]
        /\ requests = <<>>

Forbidden(u, h) ==
  Permission[h] # Any /\ Permission[h] \notin DefaultGrants[RoleOf[u]]

\* Mutant of BadRequest: the position of a canonical location goes unchecked.
BadRequestUnchecked(h, q) ==
  CASE h = "handleUpdateMe" -> q.body = Malformed
    [] h = "handleCreateLocation" -> ~Parsed(q.body)
    [] h = "handleReconcile" -> ~Parsed(q.body) \/ 0 \in {q.body.location, q.body.sighting}
    [] h = "handleSetFlags" -> \/ ~Parsed(q.body) \/ q.body.type # "insincere"
                               \/ q.body.value \notin {Absent, 0, 1}
    [] h = "handleAddNote" -> ~Parsed(q.body) \/ q.body = ""
    [] h = "handleLocationHistory" -> q.id = Malformed
    [] h \in {"handleListEvents", "handleListSightings"} -> WindowRefused(q)
    [] OTHER -> FALSE

\* What is answered 400. handleFlagInsincere ignores what it cannot decode.
BadRequest(h, q) ==
  CASE h = "handleUpdateMe" -> q.body = Malformed
    [] h = "handleCreateLocation" -> ~Parsed(q.body) \/ ~ValidLatLon(q.body)
    [] h = "handleReconcile" -> ~Parsed(q.body) \/ 0 \in {q.body.location, q.body.sighting}
    [] h = "handleSetFlags" -> \/ ~Parsed(q.body) \/ q.body.type # "insincere"
                               \/ q.body.value \notin {Absent, 0, 1}
    [] h = "handleAddNote" -> ~Parsed(q.body) \/ q.body = ""
    [] h = "handleLocationHistory" -> q.id = Malformed
    [] h \in {"handleListEvents", "handleListSightings"} -> WindowRefused(q)
    [] OTHER -> FALSE

\* The status of a request that does not get to the store; Unanswered if it does.
Verdict(u, h, q) ==
  IF Forbidden(u, h) THEN 403
  ELSE IF BadRequest(h, q) THEN 400
  ELSE IF h = "handleMap" /\ BoxRefused(q.box) THEN 500
  ELSE IF h \in {"handleMe", "handlePing"} THEN 200
  ELSE Unanswered

-----------------------------------------------------------------------------
(* The life of a request.                                                  *)

MayAccept(h) ==
  Cardinality({i \in DOMAIN requests : requests[i].handler \in Writing <=> h \in Writing})
    < IF h \in Writing THEN MaxWrites ELSE MaxReads

\* A request comes, is resolved, checked and decoded. Of one that does not get
\* to the store nothing but the answer is kept.
Accept(u, h) ==
  /\ server = "up" /\ MayAccept(h)
  /\ \E q \in Inputs[h] :
       LET verdict == Verdict(u, h, q)
           store   == verdict = Unanswered
       IN  requests' = Append(requests,
             [by |-> u, handler |-> h, input |-> IF store THEN q ELSE Absent,
              seen |-> Len(sightings), flagged |-> Len(flags),
              phase |-> IF store THEN "store" ELSE "done",
              status |-> verdict, header |-> 0, answer |-> {}])
  /\ UNCHANGED <<server, tables>>

\* Request i is at the store, in a handler of hs.
AtStore(i, hs) == /\ server # "down"
                  /\ requests[i].phase = "store" /\ requests[i].handler \in hs

\* Request r once it is answered: of a failure nothing but its status is kept.
Answered(r, status, answer) ==
  [r EXCEPT !.phase = "done", !.status = status, !.answer = answer,
            !.input = IF status \in {200, 201, Lost} THEN @ ELSE Absent]

\* The handler returns. The answer to a write may be lost on the way; of a read
\* that leaves nothing behind.
Finish(i, status, answer) ==
  \E s \in IF requests[i].handler \in Writing THEN {status, Lost} ELSE {status} :
    requests' = [requests EXCEPT ![i] = Answered(@, s, answer)]

\* A statement fails (busy, disk, the client has gone) or the handler panics
\* and PanicRecoveryMiddleware answers: no row was written.
Fail(i) ==
  /\ server # "down" /\ requests[i].phase # "done"
  /\ Finish(i, 500, {})
  /\ UNCHANGED <<server, tables>>

-----------------------------------------------------------------------------
(* Handlers that write: one INSERT or UPDATE each.                         *)

SetUserCalled(i) ==
  /\ AtStore(i, {"handleUpdateMe"})
  /\ LET q == requests[i].input
         note == IF Parsed(q.body) THEN q.body ELSE q.called
     IN  called' = [called EXCEPT ![requests[i].by] = [note |-> note, via |-> i]]
  /\ Finish(i, 200, {})
  /\ UNCHANGED <<server, locations, sightings, flags, notes>>

InsertCanonical(i) ==
  /\ AtStore(i, {"handleCreateLocation"})
  /\ LET at == requests[i].input.body
     IN  locations' = Append(locations, [lat |-> at.lat, lon |-> at.lon, at |-> Now,
                                         creator |-> requests[i].by, via |-> i])
  /\ Finish(i, 201, {})
  /\ UNCHANGED <<server, sightings, flags, notes, called>>

\* userByOpaque finds nobody.
UnknownUser(i) ==
  /\ AtStore(i, {"handleSetFlags", "handleFlagInsincere", "handleAddNote",
                 "handleListFlags", "handleListNotes", "handleAuditSightings"})
  /\ requests[i].input.target \notin Users
  /\ Finish(i, 404, {})
  /\ UNCHANGED <<server, tables>>

\* Whether the request flags its target: what is left out means yes.
Insincere(r) ==
  LET body == r.input.body
  IN  IF r.handler = "handleSetFlags" THEN body.value \in {Absent, 1}
      ELSE ~Parsed(body) \/ body.insincere

SetInsincere(i) ==
  /\ AtStore(i, {"handleSetFlags", "handleFlagInsincere"})
  /\ requests[i].input.target \in Users
  /\ flags' = Append(flags, [target |-> requests[i].input.target, via |-> i,
                             value |-> IF Insincere(requests[i]) THEN 1 ELSE -1])
  /\ Finish(i, 200, {})
  /\ UNCHANGED <<server, locations, sightings, notes, called>>

\* Mutant of AddNote: the columns target and author are swapped.
AddNoteSwapped(i) ==
  /\ AtStore(i, {"handleAddNote"})
  /\ requests[i].input.target \in Users
  /\ notes' = Append(notes, [target |-> requests[i].by, author |-> requests[i].input.target,
                             note |-> requests[i].input.body, via |-> i])
  /\ Finish(i, 201, {})
  /\ UNCHANGED <<server, locations, sightings, flags, called>>

AddNote(i) ==
  /\ AtStore(i, {"handleAddNote"})
  /\ requests[i].input.target \in Users
  /\ notes' = Append(notes, [target |-> requests[i].input.target, author |-> requests[i].by,
                             note |-> requests[i].input.body, via |-> i])
  /\ Finish(i, 201, {})
  /\ UNCHANGED <<server, locations, sightings, flags, called>>

-----------------------------------------------------------------------------
(* Handlers that read.                                                     *)

\* The rows of a list of one statement.
ListOf(r) ==
  LET q == r.input
  IN  CASE r.handler = "handleListSightings" ->
             SightingsSince(sightings, EventsSince(q, 14, Now))
        [] r.handler = "handleListEvents" ->
             AuditEventsSince(locations, sightings, flags, EventsSince(q, 14, Now), Limit)
        [] r.handler = "handleAuditSightings" -> SightingsByOpaqueUser(sightings, q.target)
        [] r.handler = "handleListFlags" -> {k \in DOMAIN flags : flags[k].target = q.target}
        [] r.handler = "handleListNotes" -> {k \in DOMAIN notes : notes[k].target = q.target}
        [] r.handler = "handleMap" ->
             Markers(locations, sightings, flags,
                     [box |-> ParseBBox(q.box), since |-> ParseSince(q.window, 90, Now),
                      includeInsincere |-> q.includeInsincere,
                      includeMissing |-> q.includeMissing])

ReadList(i) ==
  /\ AtStore(i, {"handleListSightings", "handleListEvents", "handleAuditSightings",
                 "handleListFlags", "handleListNotes", "handleMap"})
  /\ requests[i].handler \in {"handleAuditSightings", "handleListFlags", "handleListNotes"}
       => requests[i].input.target \in Users
  /\ Finish(i, 200, ListOf(requests[i]))
  /\ UNCHANGED <<server, tables>>

LocationAsked(r) ==
  IF r.handler = "handleReconcile" THEN r.input.body.location ELSE r.input.id

\* getLocation for a history or a reconciliation.
GetLocation(i) ==
  /\ AtStore(i, {"handleLocationHistory", "handleReconcile"})
  /\ \E s \in LatestRows(sightings, LocationAsked(requests[i])) :
       requests' = [requests EXCEPT ![i] = [@ EXCEPT !.phase = "located", !.header = s]]
  /\ UNCHANGED <<server, tables>>

\* An unknown location, or one without sightings: NULL does not scan.
GetNoLocation(i) ==
  /\ AtStore(i, {"handleLocationHistory", "handleReconcile"})
  /\ LatestRows(sightings, LocationAsked(requests[i])) = {}
  /\ Finish(i, 500, {})
  /\ UNCHANGED <<server, tables>>

\* The second statement of LocationHistory.
ListHistory(i) ==
  /\ server # "down"
  /\ requests[i].phase = "located" /\ requests[i].handler = "handleLocationHistory"
  /\ LET q == requests[i].input
     IN  Finish(i, 200, HistoryRows(sightings, flags, q.id, ParseSince(q.window, 365, Now),
                                    q.includeInsincere))
  /\ UNCHANGED <<server, tables>>

\* InsertReconciliation goes on to a table that does not exist.
FailReconciliation(i) ==
  /\ server # "down"
  /\ requests[i].phase = "located" /\ requests[i].handler = "handleReconcile"
  /\ Finish(i, IF requests[i].input.body.sighting \in DOMAIN sightings THEN 500 ELSE 404, {})
  /\ UNCHANGED <<server, tables>>

\* Another handler's POST /api/sightings commits, at a location it has found.
ReportArrives(s) ==
  /\ server # "down" /\ Len(sightings) < Len(OldSightings) + MaxReports
  /\ s.location \in DOMAIN locations
  /\ sightings' = Append(sightings, s)
  /\ UNCHANGED <<server, locations, flags, notes, called, requests>>

-----------------------------------------------------------------------------
(* The life of the process.                                                *)

AllDone == \A i \in DOMAIN requests : requests[i].phase = "done"

\* SIGINT or SIGTERM: the listener closes, the handlers go on.
Signal == /\ server = "up" /\ server' = "draining"
          /\ UNCHANGED <<tables, requests>>

\* Mutant of Drained: it waits for every answer to arrive.
DrainedOfAnswers ==
  /\ server = "draining" /\ \A i \in DOMAIN requests : requests[i].status \notin {Unanswered, Lost}
  /\ server' = "down"
  /\ UNCHANGED <<tables, requests>>

\* Shutdown returns when the last handler has.
Drained == /\ server = "draining" /\ AllDone
           /\ server' = "down"
           /\ UNCHANGED <<tables, requests>>

\* Five seconds are over, or the process dies: requests under way are cut off.
Cut == /\ server # "down" /\ ~AllDone
       /\ server' = "down"
       /\ requests' = [i \in DOMAIN requests |->
            IF requests[i].phase = "done" THEN requests[i]
            ELSE [requests[i] EXCEPT !.phase = "done", !.status = Lost]]
       /\ UNCHANGED <<tables>>

Handle(i) == \/ SetUserCalled(i) \/ InsertCanonical(i) \/ UnknownUser(i)
             \/ SetInsincere(i) \/ AddNote(i) \/ ReadList(i)
             \/ GetLocation(i) \/ GetNoLocation(i) \/ ListHistory(i)
             \/ FailReconciliation(i) \/ Fail(i)

Next == \/ \E u \in Users, h \in DOMAIN Permission : Accept(u, h)
        \/ \E s \in NewSightings : ReportArrives(s)
        \/ \E i \in DOMAIN requests : Handle(i)
        \/ Signal \/ Drained \/ Cut

\* Handlers run to their end, statements end within the busy timeout, and
\* Shutdown returns when it can; nothing is assumed of signals and clients.
FairSpec == /\ Init /\ [][Next]_vars /\ WF_vars(Drained)
            /\ WF_vars(\E i \in DOMAIN requests : Handle(i))

-----------------------------------------------------------------------------
(* Properties.                                                             *)

\* The columns hold what the CHECK constraints and foreign keys admit.
TypeOK ==
  /\ server \in {"up", "draining", "down"}
  /\ \A i \in DOMAIN locations : ValidLatLon(locations[i]) /\ locations[i].creator \in Users
  /\ \A s \in DOMAIN sightings : sightings[s].location \in DOMAIN locations
  /\ \A k \in DOMAIN flags : flags[k].target \in Users /\ flags[k].value \in {-1, 1}
  /\ \A k \in DOMAIN notes : {notes[k].target, notes[k].author} \subseteq Users
  /\ \A i \in DOMAIN requests :
       [f \in DOMAIN requests[i] \ {"input", "answer"} |-> requests[i][f]] \in Request

\* The rows of a table that request i wrote.
Wrote(i, table) == {k \in DOMAIN table : table[k].via = i}

WroteNothing(i) == \A table \in {locations, flags, notes} : Wrote(i, table) = {}

\* What request i wrote is one row, and what it asked for.
WroteWhatWasAsked(i) ==
  LET r == requests[i]
  IN  /\ \A table \in {locations, flags, notes} :
            \A k, n \in Wrote(i, table) : k = n
      /\ \A k \in Wrote(i, locations) :
            /\ locations[k].creator = r.by
            /\ locations[k].lat = r.input.body.lat
            /\ locations[k].lon = r.input.body.lon
      /\ \A k \in Wrote(i, flags) : flags[k].target = r.input.target
      /\ \A k \in Wrote(i, notes) : /\ notes[k].author = r.by
                                    /\ notes[k].target = r.input.target

\* What a client is told is what was done: a refusal or an error left no row, a
\* success of a writing endpoint left the one that was asked for, and a lost
\* answer at most that one; whatever else ran, failed or was cut off meanwhile.
EffectsMatchAnswer ==
  \A i \in DOMAIN requests :
    /\ IF WroteNothing(i)
       THEN \/ requests[i].status \notin {200, 201}
            \/ requests[i].handler \notin Writing \ {"handleUpdateMe"}
       ELSE requests[i].status \in {200, 201, Lost}
    /\ WroteWhatWasAsked(i)

\* Whether the window of a map or of a history, and what else it asks for but
\* for whom to hide, has sighting s.
MapAsksFor(q, s) == /\ q.includeMissing
                    /\ InBox(locations[sightings[s].location], q.box)
                    /\ sightings[s].at >= ParseSince(q.window, 90, Now)
HistoryAsksFor(q, s) == /\ sightings[s].location = q.id
                        /\ sightings[s].at >= ParseSince(q.window, 365, Now)

\* Whether request r asks for sighting s, whoever reported it.
AsksFor(r, s) ==
  LET q == r.input  row == sightings[s]
  IN  CASE r.handler \in {"handleListSightings", "handleListEvents"} ->
             row.at >= EventsSince(q, 14, Now)
        [] r.handler = "handleAuditSightings" -> row.reporter = q.target
        [] r.handler = "handleMap" -> q.includeInsincere /\ MapAsksFor(q, s)
        [] r.handler = "handleLocationHistory" -> ~q.includeInsincere /\ HistoryAsksFor(q, s)
        [] OTHER -> FALSE

\* Whether the answer of r shows s, or newer rows that left no room for it.
Shows(r, s) ==
  CASE r.handler = "handleListEvents" ->
         \/ \E e \in r.answer : e.type = "sighting" /\ e.id = s
         \/ /\ Cardinality(r.answer) = Limit
            /\ \A e \in r.answer : e.at >= sightings[s].at
    [] r.handler = "handleMap" ->
         \E m \in r.answer : /\ m[1] = sightings[s].location
                             /\ sightings[m[2]].at >= sightings[s].at
    [] OTHER -> s \in r.answer

\* What had been committed when a list was asked for is in its answer: the
\* history, the audit lists short of their limit, and, for every location of
\* the viewport as the client sent it, the map.
ListsAreCurrent ==
  \A r \in {requests[i] : i \in DOMAIN requests} :
    r.status = 200 => \A s \in 1 .. r.seen : AsksFor(r, s) => Shows(r, s)

\* The two statements of a history agree: the sighting the header shows is in
\* the list whenever the window reaches back to it and nothing is filtered, and
\* a newer one in the list came after the request.
HistoryCoversHeader ==
  \A i \in DOMAIN requests :
    LET r == requests[i]
    IN  r.handler = "handleLocationHistory" /\ r.status = 200 =>
          /\ \/ r.input.includeInsincere
             \/ sightings[r.header].at < ParseSince(r.input.window, 365, Now)
             \/ r.header \in r.answer
          /\ \A s \in r.answer : sightings[s].at > sightings[r.header].at => s > r.seen

\* What the first n rows of user_flags say of a user: flagged more often than
\* cleared, for the map and the events, or flagged or cleared at all, for the
\* history.
Balance(n, u) ==
  Cardinality({k \in 1 .. n : flags[k].target = u /\ flags[k].value = 1})
  - Cardinality({k \in 1 .. n : flags[k].target = u /\ flags[k].value = -1})
Named(n, u) == \E k \in 1 .. n : flags[k].target = u

Author(e) == IF e.type = "sighting" THEN sightings[e.id].reporter ELSE locations[e.id].creator

\* Whether the answer of r judges every user by the first n flags: the events
\* give each author's sum; a map, or a history, that hides users hides those
\* and nobody else's sightings that had been committed when it was asked for.
JudgesBy(r, n) ==
  CASE r.handler = "handleListEvents" ->
         \A e \in r.answer : e.insincerity = Balance(n, Author(e))
    [] r.handler = "handleListFlags" ->
         r.answer = {k \in 1 .. n : flags[k].target = r.input.target}
    [] r.handler = "handleMap" ->
         r.input.includeInsincere \/
           /\ \A m \in r.answer : Balance(n, sightings[m[2]].reporter) <= 0
           /\ \A s \in 1 .. r.seen :
                MapAsksFor(r.input, s) /\ Balance(n, sightings[s].reporter) <= 0 => Shows(r, s)
    [] r.handler = "handleLocationHistory" ->
         ~r.input.includeInsincere \/
           /\ \A s \in r.answer : ~Named(n, sightings[s].reporter)
           /\ \A s \in 1 .. r.seen :
                HistoryAsksFor(r.input, s) /\ ~Named(n, sightings[s].reporter) => s \in r.answer
    [] OTHER -> TRUE

\* Flags are committed while lists are read, and four statements derive from
\* them, each on its own, who is insincere (auditing.go:17 and 34, mapping.go:30,
\* locations.go:21, store.go:209). An answer judges all its users by the flags
\* of one moment since it was asked for: of two users it never knows the later
\* flag without the earlier one, and whoever asks after a flag was answered sees
\* it.
FlagsOfOneMoment ==
  \A r \in {requests[i] : i \in DOMAIN requests} :
    r.status = 200 => \E n \in r.flagged .. Len(flags) : JudgesBy(r, n)

\* A server told to stop stops, without its deadline when the handlers end.
DrainEnds == server = "draining" ~> server = "down"
=============================================================================
