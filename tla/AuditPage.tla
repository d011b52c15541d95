----------------------------- MODULE AuditPage ------------------------------
(***************************************************************************)
(* The event list of audit_sightings.html, composed with Moderation: the   *)
(* list is fetched when the page opens, when one of its controls changes,  *)
(* and when a flag is clicked, at once with the POST that sets the flag.   *)
(*                                                                         *)
(* The fetch sends the horizon the page was opened with, whatever its      *)
(* input says by then, and a parameter include_insincere that the server   *)
(* does not read: the controls only fetch again.                           *)
(***************************************************************************)
EXTENDS Moderation, EventLog

CONSTANTS Page,           \* the one page there is
          Horizon,        \* its horizon_days, in the unit of the clock
          OldSightings, NewSightings,   \* rows, and reports that come
          Limit, MaxLoads, MaxReports

\* The columns of a row of sightings the list reads.
Report == [reporter : Targets, at : Int]

ASSUME PageAssumption == /\ Moderators = {Page}
                         /\ OldSightings \in Seq(Report) /\ NewSightings \subseteq Report
                         /\ {Horizon, Limit, MaxLoads, MaxReports} \subseteq Nat

VARIABLES
  sightings,    \* table sightings
  loads,        \* fetches of the list under way, in the order they were sent
  list,         \* the events of the answer drawn last, as dots on the map
  table,        \* whether the table lists them: a fetch, or its error, replaces it
  selected,     \* selectedId, None without one
  highlighted,  \* the rows and dots drawn as selected
  owed,         \* history: what was committed when the list was last asked for
  troubled      \* history: whether that fetch overlapped another, or one failed

pageVars == <<sightings, loads, list, table, selected, highlighted, owed, troubled>>
auditVars == <<vars, pageVars>>

Key(e) == <<e.type, e.id>>

\* The answer of GET /api/events on the first n sightings and f flags at time t.
Events(n, f, t) ==
  AuditEventsSince(<<>>, SubSeq(sightings, 1, n), SubSeq(flags, 1, f), t - Horizon, Limit)

Committed == [sightings |-> Len(sightings), flags |-> Len(flags), now |-> now]

AuditInit ==
  /\ Init
  /\ sightings = OldSightings
  /\ loads = <<[phase |-> "sent", rows |-> {}]>>
  /\ list = {} /\ table = FALSE /\ selected = None /\ highlighted = {}
  /\ owed = [sightings |-> Len(OldSightings), flags |-> 0, now |-> 0]
  /\ troubled = FALSE

-----------------------------------------------------------------------------
\* loadEvents, up to its await.
LoadEvents ==
  /\ Len(loads) < MaxLoads
  /\ loads' = Append(loads, [phase |-> "sent", rows |-> {}])
  /\ owed' = Committed
  /\ table' = FALSE
  /\ troubled' = (loads # <<>>)
  /\ UNCHANGED <<sightings, list, selected, highlighted>>

\* The listeners of the two controls.
ControlChanges == LoadEvents /\ UNCHANGED vars

\* The action button: the POST is sent and the list fetched beside it.
ClickAndLoad == ClickAction(Page) /\ LoadEvents

\* A dialog opens, and fetches, from the pill of a reporter in the table.
OtherStep ==
  /\ NoClick
  /\ \/ Cardinality(gets') <= Cardinality(gets)
     \/ table /\ \E e \in list : e.author = open'[Page]
  /\ UNCHANGED pageVars

ServeLoad(i) ==
  /\ loads[i].phase = "sent"
  /\ loads' = [loads EXCEPT ![i] = [phase |-> "read",
                                    rows |-> Events(Len(sightings), Len(flags), now)]]
  /\ UNCHANGED <<vars, sightings, list, table, selected, highlighted, owed, troubled>>

Without(i) == SubSeq(loads, 1, i - 1) \o SubSeq(loads, i + 1, Len(loads))

\* Mutant of RenderList: the old rows are not cleared.
RenderListBelow(i) ==
  /\ loads[i].phase = "read"
  /\ list' = list \cup loads[i].rows /\ highlighted' = {}
  /\ loads' = Without(i) /\ table' = TRUE
  /\ UNCHANGED <<vars, sightings, selected, owed, troubled>>

\* renderList draws every row anew; selectedId stays, its highlight goes.
RenderList(i) ==
  /\ loads[i].phase = "read"
  /\ list' = loads[i].rows /\ highlighted' = {}
  /\ loads' = Without(i) /\ table' = TRUE
  /\ UNCHANGED <<vars, sightings, selected, owed, troubled>>

FailLoad(i) ==
  /\ loads' = Without(i) /\ table' = FALSE /\ troubled' = TRUE
  /\ UNCHANGED <<vars, sightings, list, selected, highlighted, owed>>

\* Mutant of ToggleSelect: the row selected before keeps its highlight.
ToggleSelectAlso(k) ==
  /\ selected' = IF selected = k THEN None ELSE k
  /\ highlighted' = IF selected = k THEN highlighted \ {k} ELSE highlighted \cup {k}
  /\ UNCHANGED <<vars, sightings, loads, list, table, owed, troubled>>

\* toggleSelect and setSelected: a second click on the selection clears it.
ToggleSelect(k) ==
  /\ selected' = IF selected = k THEN None ELSE k
  /\ highlighted' = (highlighted \ {selected}) \cup IF selected = k THEN {} ELSE {k}
  /\ UNCHANGED <<vars, sightings, loads, list, table, owed, troubled>>

\* POST /api/sightings commits.
ReportArrives(s) ==
  /\ Len(sightings) < Len(OldSightings) + MaxReports
  /\ sightings' = Append(sightings, s)
  /\ UNCHANGED <<vars, loads, list, table, selected, highlighted, owed, troubled>>

AuditNext ==
  \/ OtherStep \/ ClickAndLoad \/ ControlChanges
  \/ \E i \in DOMAIN loads : ServeLoad(i) \/ RenderList(i) \/ FailLoad(i)
  \/ \E e \in list : ToggleSelect(Key(e))
  \/ \E s \in NewSightings : ReportArrives(s)

AuditSpec == AuditInit /\ [][AuditNext]_auditVars

-----------------------------------------------------------------------------
(* Properties.                                                             *)

\* A page at rest, whose last fetch neither failed nor overlapped another,
\* shows one moment of the tables no older than that fetch: every report and
\* every flag that had been stored when the list was asked for. (The flag just
\* clicked need not have been.)
UntroubledListIsCurrent ==
  loads = <<>> /\ ~troubled =>
    \E n \in owed.sightings .. Len(sightings), f \in owed.flags .. Len(flags),
       t \in owed.now .. now : list = Events(n, f, t)

\* However clicks, fetches and new rows interleave, at most the row that is
\* selected is drawn as selected, and only while it is drawn.
OnlySelectionHighlighted ==
  highlighted \subseteq {selected} \cap {Key(e) : e \in list}
=============================================================================
