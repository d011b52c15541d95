---------------------------- MODULE RequestParams ----------------------------
(***************************************************************************)
(* How the handlers read the query string.  A parameter is a number,       *)
(* Absent, or Malformed (present and not a number or a time).  The number   *)
(* NaN, which strconv.ParseFloat reads and every comparison passes, is left *)
(* out: a box with it selects nothing, and is answered 200.                 *)
(***************************************************************************)
EXTENDS Coordinates, MapQuery

CONSTANTS Absent, Malformed,
          MinDays, MaxDays     \* 0.001 and 3650 days, in the unit of the clock

ASSUME DaysAssumption == /\ MinDays \in Nat /\ MaxDays \in Nat
                         /\ 0 < MinDays /\ MinDays <= MaxDays

\* What a parameter, a window of time and a viewport may hold.
Parameter == Int \cup {Absent, Malformed}
Window == [since : Parameter, days : Parameter]
Viewport == [minLat : Parameter, maxLat : Parameter, minLon : Parameter, maxLon : Parameter]

Parsed(v) == v \notin {Absent, Malformed}

Clamp(v, lo, hi) == IF v < lo THEN lo ELSE IF v > hi THEN hi ELSE v

\* GET /api/map and .../history: what does not parse counts as absent.
ParseSince(w, default, now) ==
  IF Parsed(w.since) THEN w.since
  ELSE now - Clamp(IF Parsed(w.days) /\ w.days > 0 THEN w.days ELSE default,
                   MinDays, MaxDays)

\* GET /api/events and /api/sightings: what does not parse is refused.
WindowRefused(w) ==
  \/ w.since = Malformed
  \/ w.since = Absent /\ w.days = Malformed
  \/ w.since = Absent /\ Parsed(w.days) /\ w.days <= 0

EventsSince(w, default, now) ==
  IF Parsed(w.since) THEN w.since
  ELSE now - (IF w.days = Absent THEN default
              ELSE IF w.days > MaxDays THEN MaxDays ELSE w.days)

BoxRefused(q) ==
  \/ \E e \in {q.minLat, q.maxLat, q.minLon, q.maxLon} : ~Parsed(e)
  \/ q.minLat > q.maxLat
  \/ q.minLon > q.maxLon

\* Mutant of ParseBBox: an edge outside the range is taken for the other pole.
ParseBBoxWrapping(q) ==
  [minLat |-> Clamp(q.minLat, -MaxLat, MaxLat),
   maxLat |-> IF q.maxLat > MaxLat THEN -MaxLat ELSE q.maxLat,
   minLon |-> Clamp(q.minLon, -MaxLon, MaxLon),
   maxLon |-> Clamp(q.maxLon, -MaxLon, MaxLon)]

\* The box of a request that is not refused.
ParseBBox(q) == [minLat |-> Clamp(q.minLat, -MaxLat, MaxLat),
                 maxLat |-> Clamp(q.maxLat, -MaxLat, MaxLat),
                 minLon |-> Clamp(q.minLon, -MaxLon, MaxLon),
                 maxLon |-> Clamp(q.maxLon, -MaxLon, MaxLon)]

\* Whether the viewport and the valid positions have one in common.
MeetsRange(q) == /\ q.minLat <= MaxLat /\ -MaxLat <= q.maxLat
                 /\ q.minLon <= MaxLon /\ -MaxLon <= q.maxLon
=============================================================================
