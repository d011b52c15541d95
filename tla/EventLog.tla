------------------------------ MODULE EventLog ------------------------------
(***************************************************************************)
(* The lists of GET /api/events, GET /api/sightings, GET                   *)
(* /api/users/{opaque}/sightings and GET /api/locations/{id}/history, as   *)
(* operators on the tables.  A list is given as the set of its rows: its   *)
(* order is a function of them.                                            *)
(***************************************************************************)
EXTENDS MapQuery

\* The subquery sum(uf.value) of both sides of the union.
AuthorInsincerity(flags, author) ==
  Cardinality(Rows(flags, author, 1)) - Cardinality(Rows(flags, author, -1))

\* Mutant of Event: whoever was ever flagged counts as insincere.
EventEverFlagged(type, id, author, at, flags) ==
  [type |-> type, id |-> id, author |-> author, at |-> at,
   insincerity |-> Cardinality(Rows(flags, author, 1))]

\* A row of the union.
Event(type, id, author, at, flags) ==
  [type |-> type, id |-> id, author |-> author, at |-> at,
   insincerity |-> AuthorInsincerity(flags, author)]

\* Mutant of SightingsSince: the window leaves out its first second.
SightingsAfter(sightings, since) ==
  {s \in DOMAIN sightings : sightings[s].at > since}

SightingsSince(sightings, since) ==
  {s \in DOMAIN sightings : sightings[s].at >= since}

\* Everything of a user, whatever their flags say.
SightingsByOpaqueUser(sightings, user) ==
  {s \in DOMAIN sightings : sightings[s].reporter = user}

\* Mutant of LatestRows: the WHERE clause is lost.
LatestRowsAnywhere(sightings, l) ==
  {s \in DOMAIN sightings : \A k \in DOMAIN sightings : sightings[k].at <= sightings[s].at}

\* getLocation: the rows max(observed_at) may take its bare columns from; with
\* none the statement returns a row of NULLs.
LatestRows(sightings, l) ==
  {s \in DOMAIN sightings : /\ sightings[s].location = l
                            /\ \A k \in DOMAIN sightings :
                                 sightings[k].location = l => sightings[k].at <= sightings[s].at}

\* The first list of LocationHistory, NOT bound to the flag of the request. The
\* second asks for sightings without a location, which the schema forbids.
HistoryRows(sightings, flags, l, since, includeInsincere) ==
  {s \in SightingsSince(sightings, since) :
      /\ sightings[s].location = l
      /\ ~includeInsincere \/ \A k \in DOMAIN flags : flags[k].target # sightings[s].reporter}

\* Both sides of the UNION ALL; no column of a join is ever missing.
Interleaved(locations, sightings, flags, since) ==
  {Event("location_created", l, locations[l].creator, locations[l].at, flags) :
     l \in {k \in DOMAIN locations : locations[k].at >= since}}
  \cup
  {Event("sighting", s, sightings[s].reporter, sightings[s].at, flags) :
     s \in SightingsSince(sightings, since)}

\* Mutant of Above: the oldest first.
Below(e, f) == e.at < f.at \/ (e.at = f.at /\ e.id < f.id)

\* ORDER BY timestamp DESC, event_type DESC, event_id DESC.
Above(e, f) == \/ e.at > f.at
               \/ e.at = f.at /\ e.type = "sighting" /\ f.type # "sighting"
               \/ e.at = f.at /\ e.type = f.type /\ e.id > f.id

\* LIMIT: the rows with fewer than limit rows above them.
AuditEventsSince(locations, sightings, flags, since, limit) ==
  LET all == Interleaved(locations, sightings, flags, since)
  IN  {e \in all : Cardinality({f \in all : Above(f, e)}) < limit}
=============================================================================
