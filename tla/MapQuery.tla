------------------------------ MODULE MapQuery ------------------------------
(***************************************************************************)
(* What the statement of Store.MapData can return.  The arguments are the  *)
(* tables, sequences of rows indexed by their rowids, and a query q.       *)
(*                                                                         *)
(* The statement groups the visible sightings of a location, takes         *)
(* max(observed_at), and reads every other column as a bare column: SQLite *)
(* takes those from a row that attains the maximum, and from any of them   *)
(* when several do.  MarkerRows is the set of rows it may take.            *)
(***************************************************************************)
EXTENDS Integers, Sequences, FiniteSets

Rows(flags, user, value) ==
  {k \in DOMAIN flags : flags[k].target = user /\ flags[k].value = value}

\* sum(uf.value) over a user's insincere flags; a value is 1 or -1 (CHECK).
FlagSum(flags, user) ==
  Cardinality(Rows(flags, user, 1)) - Cardinality(Rows(flags, user, -1))

\* Mutant of Visible: the window leaves out its first second.
VisibleAfter(s, flags, since, includeInsincere) ==
  /\ s.at > since
  /\ includeInsincere \/ FlagSum(flags, s.reporter) <= 0

\* The WHERE clause for one sighting.
Visible(s, flags, since, includeInsincere) ==
  /\ s.at >= since
  /\ includeInsincere \/ FlagSum(flags, s.reporter) <= 0

\* One GROUP BY group: the visible sightings of location l.
Group(l, sightings, flags, since, includeInsincere) ==
  {i \in DOMAIN sightings :
      /\ sightings[i].location = l
      /\ Visible(sightings[i], flags, since, includeInsincere)}

\* The rows the marker's bare columns may come from.
MarkerRows(l, sightings, flags, since, includeInsincere) ==
  LET group == Group(l, sightings, flags, since, includeInsincere)
  IN  {i \in group : \A j \in group : sightings[j].at <= sightings[i].at}

\* The does_exist column, which HAVING tests again.
DoesExist(s) == s.transpired = "sighted" \/ s.toExist = 1

\* The loc common table expression: positions inside the client's box.
InBox(p, box) == /\ box.minLat <= p.lat /\ p.lat <= box.maxLat
                 /\ box.minLon <= p.lon /\ p.lon <= box.maxLon

\* The markers the map may show, as pairs of a location and the sighting its
\* columns come from: a row of a non-empty group that passes HAVING.
Markers(locations, sightings, flags, q) ==
  {m \in (DOMAIN locations) \X (DOMAIN sightings) :
      /\ InBox(locations[m[1]], q.box)
      /\ m[2] \in MarkerRows(m[1], sightings, flags, q.since, q.includeInsincere)
      /\ q.includeMissing \/ DoesExist(sightings[m[2]])}
=============================================================================
