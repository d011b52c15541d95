---------------------------- MODULE Coordinates ----------------------------
(***************************************************************************)
(* The arithmetic that decides which location a report belongs to.         *)
(*                                                                         *)
(* A coordinate is an integer number of units of 10^-8 degrees.  SQL       *)
(* round(x, 7) is then rounding to a multiple of 10 units, round(x, 6) to  *)
(* a multiple of 100 units.  What is rounded is the double nearest to the  *)
(* coordinate, off by much less than a unit.  It decides ties only: next   *)
(* to a value midway between two multiples the double lies on one side or  *)
(* the other, and rounding goes up or down with it.                        *)
(***************************************************************************)
EXTENDS Integers

CONSTANTS MaxLat,   \* 90 degrees in units; scaled down in the TLC instances
          MaxLon,   \* 180 degrees in units
          TiesDown  \* the magnitudes that, midway between two multiples, go
                    \* down; any set, as the doubles and the library have it

ASSUME BoundsAssumption == /\ MaxLat \in Nat /\ MaxLat % 100 = 0
                           /\ MaxLon \in Nat /\ MaxLon % 100 = 0
                           /\ TiesDown \subseteq Nat

Magnitude(x) == IF x >= 0 THEN x ELSE -x

\* The magnitude as rounding takes it: a tie that goes down counts one less.
Taken(x) == IF Magnitude(x) \in TiesDown THEN Magnitude(x) - 1 ELSE Magnitude(x)

\* round(x, 7): the precision InsertSighting stores.
Round7(x) == IF x >= 0 THEN 10 * ((Taken(x) + 5) \div 10)
                       ELSE -(10 * ((Taken(x) + 5) \div 10))

\* round(x, 6): the precision InsertSighting compares.
Round6(x) == IF x >= 0 THEN 100 * ((Taken(x) + 50) \div 100)
                       ELSE -(100 * ((Taken(x) + 50) \div 100))

\* The range check of the handlers; the CHECK constraints of table locations
\* state the same range.
ValidLatLon(p) == /\ -MaxLat <= p.lat /\ p.lat <= MaxLat
                  /\ -MaxLon <= p.lon /\ p.lon <= MaxLon

\* The cell of a position, and the predicate with which both statements of
\* InsertSighting look for a location.
Cell(p) == [lat |-> Round6(p.lat), lon |-> Round6(p.lon)]
SameCell(l, p) == Cell(l) = Cell(p)

\* The position a first report stores for its location.
Stored(p) == [lat |-> Round7(p.lat), lon |-> Round7(p.lon)]

\* Whether the location a report stores is one its second statement finds.
RoundTrips(p) == SameCell(Stored(p), p)
=============================================================================
