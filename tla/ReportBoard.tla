---------------------------- MODULE ReportBoard ----------------------------
(***************************************************************************)
(* What POST /api/sightings promises, without statements or locations.     *)
(* Users ask for reports to be published; a report is published at most    *)
(* once, in one step, in the cell it was asked for and with the user, time *)
(* and event that was asked; an answer is given only for a published       *)
(* report.  A report whose request fails is never published, and a report  *)
(* may be published without its user ever hearing of it.                   *)
(***************************************************************************)
EXTENDS Coordinates, Sequences

VARIABLES asked,     \* the reports asked for, in order of arrival
          board,     \* the entries published, in order of publication
          answered   \* the serial numbers of the reports users were told of

vars == <<asked, board, answered>>

Entry(n) == [serial     |-> n,
             user       |-> asked[n].user,
             at         |-> asked[n].at,
             transpired |-> asked[n].transpired,
             cell       |-> Cell(asked[n])]

Published(n) == \E i \in DOMAIN board : board[i].serial = n

Init == asked = <<>> /\ board = <<>> /\ answered = {}

Ask == /\ DOMAIN asked' = 1 .. Len(asked) + 1
       /\ \A n \in DOMAIN asked : asked'[n] = asked[n]
       /\ UNCHANGED <<board, answered>>

Publish(n) == /\ ~Published(n)
              /\ board' = Append(board, Entry(n))
              /\ UNCHANGED <<asked, answered>>

Answer(n) == /\ Published(n)
             /\ answered' = answered \cup {n}
             /\ UNCHANGED <<asked, board>>

Next == \/ Ask
        \/ \E n \in DOMAIN asked : Publish(n) \/ Answer(n)

Spec == Init /\ [][Next]_vars
=============================================================================
