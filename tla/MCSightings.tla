---------------------------- MODULE MCSightings ----------------------------
(* TLC instances of Sightings. A degree is scaled to two units of the sixth  *)
(* decimal, so that every position lies within 0.000002 degrees of the       *)
(* equator; its ties go where the doubles next to them lie.                  *)
EXTENDS Sightings, TLC

CONSTANTS h1, h2, ann, bob

\* Of the positions up to 200 that lie midway between two multiples of 10 or of
\* 100, those whose nearest double lies below: 0.0000005 does, 0.0000015 not.
DoublesBelow == {5, 15, 25, 35, 45, 50, 105, 135, 155, 175, 195}

At(lat) == [lat |-> lat, lon |-> 0]

\* 110 round-trips in cell 100; 147 is stored as 150, in cell 200, and looked up
\* in cell 100; 196 round-trips in cell 200.
ThreePoints == {At(110), At(147), At(196)}

\* 8 is stored as 10 and found there; 52 is stored as 50, whose double rounds
\* down into cell 0, and looked up in cell 100.
TwoPoints == {At(8), At(52)}

LostPoint == {At(147)}

OneEvent == {"sighted"}
TwoEvents == {"sighted", "missed"}

NoTimes == {}
FutureTimes == {2}

HandlerSymmetry == Permutations(Handlers)
=============================================================================
