---------------------------- MODULE MCMapClient ----------------------------
(* TLC instances of MapClient.  Near is close to a place, where signs that   *)
(* are gone show and signs can be added; Away is elsewhere and zoomed out.   *)
EXTENDS MapClient, TLC
CONSTANTS l1, l2
Near == [sees |-> {l1}, missing |-> TRUE, add |-> TRUE]
Away == [sees |-> {}, missing |-> FALSE, add |-> FALSE]
NearOnly == {Near}
NearAndAway == {Near, Away}
AllNear == [l \in Locs |-> Locs]
=============================================================================
