----------------------------- MODULE MapClient -----------------------------
(***************************************************************************)
(* The map page, app.js: one browser tab, its requests to the server and   *)
(* the order their answers come in.  Handlers run to their next await; a   *)
(* request is sent, served and answered in separate steps, and several may *)
(* be under way at once.                                                   *)
(*                                                                         *)
(* A view stands for a position and zoom of the map: the locations in the  *)
(* box sent for it, and which of the two zoom limits it passes.  The       *)
(* "show missing" box stands for the filters: the time slider and the      *)
(* "show flagged" box are handled alike.                                   *)
(***************************************************************************)
EXTENDS Integers, FiniteSets

CONSTANTS Locs,        \* places that are or may become locations
          Views,       \* records [sees, missing, add]
          Vicinity,    \* which places are within NEARBY_RADIUS_M of a place
          None,
          MaxFetches,  \* bound on the map fetches under way
          MaxPending,  \* bound on the other requests under way
          MaxReports   \* bound on the reports the server accepts

ASSUME ConstantsAssumption ==
  /\ None \notin Locs
  /\ Vicinity \in [Locs -> SUBSET Locs]
  /\ Views \subseteq [sees : SUBSET Locs, missing : BOOLEAN, add : BOOLEAN]
  /\ MaxFetches \in Nat /\ MaxPending \in Nat /\ MaxReports \in Nat

VARIABLES
  world,      \* the server: what the map says of each place
  n,          \* the server: how many reports it accepted
  view,       \* the map's position and zoom
  gone,       \* the box "show missing"
  timer,      \* moveTimer is running
  booted,     \* "no", "loading" (the first fetch is under way) or "yes"
  initial,    \* initialURL.sel
  fetches,    \* refreshMap calls under way
  shown,      \* the markers, and with them lastLocation
  known,      \* the keys of locationCoords
  sheet,      \* the sheet
  selection,  \* uistate.currentSelection
  url,        \* the query string
  lookups,    \* newSignSheet calls under way
  histories,  \* showHistory calls under way
  posts,      \* POST /api/sightings under way
  acked,      \* history: reports accepted up to the last answered POST
  trouble     \* history: whether the fetch asked last failed, or an older one
              \* was drawn after it

server == <<world, n>>
page == <<view, gone, timer, booted, initial>>
data == <<fetches, shown, known, trouble>>
requests == <<lookups, histories, posts, acked>>
vars == <<server, page, data, sheet, selection, url, requests>>

Status == {"absent", "exists", "gone"}
Params == [sees : SUBSET Locs, gone : BOOLEAN]

\* wantMissing gates the box by zoom.
Wanted(v, g) == [sees |-> v.sees, gone |-> g /\ v.missing]

Fetch == [id : Nat, params : Params, boot : BOOLEAN,
          phase : {"sent", "served"}, n : Nat, locs : SUBSET Locs,
          latest : BOOLEAN]   \* history: no fetch was asked since

Post == [id : Nat, loc : Locs, status : {"exists", "gone"},
         phase : {"sent", "served"}, n : Nat]

\* loc: the place tapped or the location shown; near: the choices of the sheet
\* "Existing reports nearby".
NoSheet == [kind |-> "none", loc |-> None, near |-> {}]
SheetOf(kind, l) == [kind |-> kind, loc |-> l, near |-> {}]
ChoiceSheet(l, near) == [kind |-> "choice", loc |-> l, near |-> near]

Sheet == {NoSheet} \cup [kind : {"form", "choice", "location", "history"},
                        loc : Locs, near : SUBSET Locs]

NothingShown == [params |-> None, n |-> 0, locs |-> {}]

FreeId(rs) == CHOOSE i \in 1 .. Cardinality(rs) + 1 : \A r \in rs : r.id # i

Pending == Cardinality(lookups) + Cardinality(histories) + Cardinality(posts)

\* parseURLState: the page starts from a query string.
StartFrom(q) ==
  /\ view' = q.view /\ gone' = q.gone /\ initial' = q.sel
  /\ timer' = FALSE /\ booted' = "no"
  /\ fetches' = {} /\ shown' = NothingShown /\ known' = {}
  /\ trouble' = FALSE
  /\ sheet' = NoSheet /\ selection' = None
  /\ lookups' = {} /\ histories' = {} /\ posts' = {}
  /\ url' = q

Init ==
  /\ world \in [Locs -> Status] /\ n = 0
  /\ view \in Views /\ gone \in BOOLEAN /\ initial \in Locs \cup {None}
  /\ timer = FALSE /\ booted = "no"
  /\ fetches = {} /\ shown = NothingShown /\ known = {}
  /\ trouble = FALSE
  /\ sheet = NoSheet /\ selection = None
  /\ url = [view |-> view, gone |-> gone, sel |-> initial]
  /\ lookups = {} /\ histories = {} /\ posts = {} /\ acked = 0

-----------------------------------------------------------------------------
(* Steps that several handlers take.                                       *)

\* syncURL, at the end of a handler.
SyncURL == url' = [view |-> view', gone |-> gone', sel |-> selection']

NewFetch(boot) == [id |-> FreeId(fetches), params |-> Wanted(view', gone'),
                   boot |-> boot, phase |-> "sent", n |-> 0, locs |-> {},
                   latest |-> TRUE]

\* Mutant of RefreshMap: nothing is sent while a fetch is under way.
RefreshMapUnlessLoading(boot) ==
  /\ Cardinality(fetches) < MaxFetches
  /\ fetches' = IF fetches = {} THEN {NewFetch(boot)} ELSE fetches
  /\ trouble' = FALSE
  /\ UNCHANGED <<shown, known>>

\* refreshMap up to its await, called with the new view and filters: no fetch
\* under way is aborted.
RefreshMap(boot) ==
  /\ Cardinality(fetches) < MaxFetches
  /\ fetches' = {[f EXCEPT !.latest = FALSE] : f \in fetches} \cup {NewFetch(boot)}
  /\ trouble' = FALSE
  /\ UNCHANGED <<shown, known>>

\* Mutant of CloseSheet: the query string keeps the selection.
CloseSheetOnly == /\ sheet' = NoSheet /\ selection' = None
                  /\ UNCHANGED url

\* closeSheet.
CloseSheet == /\ sheet' = NoSheet /\ selection' = None
              /\ SyncURL

\* locationSheet.
OpenLocation(l) == /\ sheet' = SheetOf("location", l) /\ selection' = l
                   /\ SyncURL

-----------------------------------------------------------------------------
(* Fetching the map.                                                       *)

\* The map has loaded: boot calls refreshMap and awaits it.
Load == /\ booted = "no"
        /\ booted' = "loading"
        /\ UNCHANGED <<server, view, gone, timer, initial, sheet, selection,
                       url, requests>>
        /\ RefreshMap(TRUE)

\* The listener "change" of a filter.
ChangeFilter == /\ gone' = ~gone
                /\ UNCHANGED <<server, view, timer, booted, initial, sheet,
                               selection, requests>>
                /\ RefreshMap(FALSE)
                /\ SyncURL

\* Mutant of MoveEnd: the refetch is left to the next change of a filter.
MoveEndOnly(v) ==
  /\ v # view
  /\ view' = v
  /\ UNCHANGED timer
  /\ UNCHANGED <<server, gone, booted, initial, data, sheet, selection, requests>>
  /\ SyncURL

\* Mutant of MoveEnd: the query string waits for the next handler that writes it.
MoveEndLateURL(v) ==
  /\ v # view
  /\ view' = v
  /\ timer' = TRUE
  /\ UNCHANGED <<server, gone, booted, initial, data, sheet, selection, url,
                 requests>>

\* The listener "moveend": the query string follows at once, the fetch after
\* 300 ms without another move.
MoveEnd(v) ==
  /\ v # view
  /\ view' = v
  /\ timer' = TRUE
  /\ UNCHANGED <<server, gone, booted, initial, data, sheet, selection, requests>>
  /\ SyncURL

TimerFires ==
  /\ timer
  /\ timer' = FALSE
  /\ UNCHANGED <<server, view, gone, booted, initial, sheet, selection, url,
                 requests>>
  /\ RefreshMap(FALSE)

\* What GET /api/map answers.
Listed(params) ==
  {l \in params.sees : \/ world[l] = "exists"
                       \/ world[l] = "gone" /\ params.gone}

ServeFetch(f) ==
  /\ f.phase = "sent"
  /\ fetches' = (fetches \ {f}) \cup
                {[f EXCEPT !.phase = "served", !.n = n, !.locs = Listed(f.params)]}
  /\ UNCHANGED <<server, page, shown, known, trouble, sheet, selection,
                 url, requests>>

\* Mutant of AfterFetch: the point of the query string is not looked up.
AfterFetchUnchecked(f, have) ==
  IF f.boot THEN booted' = "yes" /\ OpenLocation(initial)
  ELSE UNCHANGED <<booted, sheet, selection, url>>

\* After the fetch that boot awaits, applyInitialSelection opens the point of
\* the query string if the page has it, whatever is open by then.
AfterFetch(f, have) ==
  IF f.boot
  THEN /\ booted' = "yes"
       /\ IF initial \in have THEN OpenLocation(initial)
          ELSE UNCHANGED <<sheet, selection>> /\ SyncURL
  ELSE UNCHANGED <<booted, sheet, selection, url>>

\* refreshMap after its await: nothing tells an older answer from a newer one.
RenderFetch(f) ==
  /\ f.phase = "served"
  /\ fetches' = fetches \ {f}
  /\ shown' = [params |-> f.params, n |-> f.n, locs |-> f.locs]
  /\ known' = known \cup f.locs
  /\ trouble' = (trouble \/ \A g \in fetches : ~g.latest)
  /\ UNCHANGED <<server, view, gone, timer, initial, requests>>
  /\ AfterFetch(f, f.locs)

\* The request fails: a toast, and the markers stay.
FailFetch(f) ==
  /\ fetches' = fetches \ {f}
  /\ trouble' = (trouble \/ f.latest)
  /\ UNCHANGED <<server, view, gone, timer, initial, shown, known, requests>>
  /\ AfterFetch(f, shown.locs)

-----------------------------------------------------------------------------
(* Sheets.                                                                 *)

ClickMarker == /\ UNCHANGED <<server, page, data, requests>>
               /\ \E l \in shown.locs : OpenLocation(l)

DismissSheet == /\ sheet.kind # "none"
                /\ UNCHANGED <<server, page, data, requests>>
                /\ CloseSheet

\* A tap on the map: newSignSheet looks for reports near it.
TapMap == /\ view.add
          /\ Pending < MaxPending
          /\ \E l \in view.sees :
                lookups' = lookups \cup {[id |-> FreeId(lookups), loc |-> l]}
          /\ UNCHANGED <<server, page, data, sheet, selection, url, histories,
                         posts, acked>>

\* Its answer opens the choices, gone signs and the whole history included, or
\* the form when there is none; a failed request opens the form too.
NearbyAnswered(k) ==
  /\ lookups' = lookups \ {k}
  /\ LET near == {l \in Vicinity[k.loc] : world[l] # "absent"}
     IN  \/ near # {} /\ sheet' = ChoiceSheet(k.loc, near)
         \/ sheet' = SheetOf("form", k.loc)
  /\ UNCHANGED <<server, page, data, selection, url, histories, posts, acked>>

\* A button of the choice sheet.
ChooseNearby == /\ sheet.kind = "choice"
                /\ UNCHANGED <<server, page, data, requests>>
                /\ \/ \E l \in sheet.near : OpenLocation(l)
                   \/ /\ sheet' = SheetOf("form", sheet.loc)
                      /\ UNCHANGED <<selection, url>>

\* "View history": the answer opens a sheet, whatever is open by then.
AskHistory == /\ sheet.kind = "location"
              /\ Pending < MaxPending
              /\ histories' = histories \cup {[id |-> FreeId(histories),
                                               loc |-> sheet.loc]}
              /\ UNCHANGED <<server, page, data, sheet, selection, url, lookups,
                             posts, acked>>

HistoryAnswered(h) ==
  /\ histories' = histories \ {h}
  /\ \/ sheet' = SheetOf("history", h.loc)
     \/ UNCHANGED sheet               \* the request failed: a toast
  /\ UNCHANGED <<server, page, data, selection, url, lookups, posts, acked>>

-----------------------------------------------------------------------------
(* Reporting.                                                              *)

SendPost(l, status) ==
  /\ Pending < MaxPending
  /\ posts' = posts \cup {[id |-> FreeId(posts), loc |-> l, status |-> status,
                           phase |-> "sent", n |-> 0]}
  /\ UNCHANGED <<server, page, data, sheet, selection, url, lookups, histories,
                 acked>>

\* A button of the form.
SubmitForm == /\ sheet.kind = "form" /\ view.add
              /\ \E s \in {"exists", "gone"} : SendPost(sheet.loc, s)

\* A button of a location's sheet: reportOnExistingLocation returns without a
\* word when it has no coordinates for the location.
ReportOnExistingLocation ==
  /\ sheet.kind = "location"
  /\ sheet.loc \in known
  /\ \E s \in {"exists", "gone"} : SendPost(sheet.loc, s)

ServePost(p) ==
  /\ p.phase = "sent" /\ n < MaxReports
  /\ world' = [world EXCEPT ![p.loc] = p.status]
  /\ n' = n + 1
  /\ posts' = (posts \ {p}) \cup {[p EXCEPT !.phase = "served", !.n = n + 1]}
  /\ UNCHANGED <<page, data, sheet, selection, url, lookups, histories, acked>>

\* Mutant of PostAnswered: the map is left as it was.
PostAnsweredQuietly(p) ==
  /\ p.phase = "served"
  /\ posts' = posts \ {p}
  /\ acked' = IF p.n > acked THEN p.n ELSE acked
  /\ UNCHANGED <<server, page, data, lookups, histories>>
  /\ CloseSheet

\* The POST succeeded: whatever sheet is open closes and the map is fetched.
PostAnswered(p) ==
  /\ p.phase = "served"
  /\ posts' = posts \ {p}
  /\ acked' = IF p.n > acked THEN p.n ELSE acked
  /\ UNCHANGED <<server, page, lookups, histories>>
  /\ CloseSheet
  /\ RefreshMap(FALSE)

\* It was refused or its answer was lost: a toast.
PostFails(p) ==
  /\ posts' = posts \ {p}
  /\ UNCHANGED <<server, page, data, sheet, selection, url, lookups, histories,
                 acked>>

\* Someone else's report.
OtherReport ==
  /\ n < MaxReports
  /\ \E l \in Locs, s \in {"exists", "gone"} : world' = [world EXCEPT ![l] = s]
  /\ n' = n + 1
  /\ UNCHANGED <<page, data, sheet, selection, url, requests>>

\* The page is loaded again from its own query string. A POST it had in flight
\* may still be served: that is an OtherReport then.
Reload == /\ StartFrom(url)
          /\ acked' = 0
          /\ UNCHANGED server

-----------------------------------------------------------------------------
Next ==
  \/ Load \/ ChangeFilter \/ TimerFires \/ Reload \/ OtherReport
  \/ \E v \in Views : MoveEnd(v)
  \/ \E f \in fetches : ServeFetch(f) \/ RenderFetch(f) \/ FailFetch(f)
  \/ ClickMarker \/ DismissSheet \/ TapMap \/ ChooseNearby \/ AskHistory
  \/ \E k \in lookups : NearbyAnswered(k)
  \/ \E h \in histories : HistoryAnswered(h)
  \/ SubmitForm \/ ReportOnExistingLocation
  \/ \E p \in posts : ServePost(p) \/ PostAnswered(p) \/ PostFails(p)

Spec == Init /\ [][Next]_vars

\* The browser runs its timers and every fetch ends, one way or the other.
FairSpec == /\ Spec
            /\ WF_vars(Load)
            /\ WF_vars(TimerFires)
            /\ WF_vars(\E f \in fetches : ServeFetch(f))
            /\ WF_vars(\E f \in fetches : RenderFetch(f))

-----------------------------------------------------------------------------
(* Properties.                                                             *)

QueryString == [view : Views, gone : BOOLEAN, sel : Locs \cup {None}]

\* Every variable keeps its type.
TypeOK ==
  /\ world \in [Locs -> Status] /\ n \in Nat
  /\ view \in Views /\ gone \in BOOLEAN /\ timer \in BOOLEAN
  /\ booted \in {"no", "loading", "yes"} /\ initial \in Locs \cup {None}
  /\ fetches \subseteq Fetch
  /\ shown \in [params : Params \cup {None}, n : Nat, locs : SUBSET Locs]
  /\ known \subseteq Locs
  /\ sheet \in Sheet /\ selection \in Locs \cup {None}
  /\ url \in QueryString
  /\ lookups \subseteq [id : Nat, loc : Locs]
  /\ histories \subseteq [id : Nat, loc : Locs]
  /\ posts \subseteq Post
  /\ acked \in Nat /\ trouble \in BOOLEAN

\* app.js:13-15: once booted, the query string names the view, the filters and
\* the selection at every moment, whatever answers come in which order.
QueryStringIsState ==
  booted = "yes" => url = [view |-> view, gone |-> gone, sel |-> selection]

\* No fetch is under way or about to be.
Quiet == booted = "yes" /\ fetches = {} /\ ~timer

\* app.js:386: whatever overlaps, a page at rest shows the markers of its present
\* view and filters, unless the fetch it asked last failed or an older one was
\* answered after it.
UntroubledMapTracksView ==
  Quiet /\ ~trouble => shown.params = Wanted(view, gone)

\* And it has read the server after the user's last answered report.
OwnReportShows == Quiet /\ ~trouble => shown.n >= acked

Asked(p) == shown.params = p \/ \E f \in fetches : f.params = p

\* app.js:386-397: what the page should show is fetched, unless the user changes it
\* first or the page came to rest after its last fetch failed or was overtaken:
\* the debounce drops no view.
ViewIsAsked ==
  \A v \in Views, g \in BOOLEAN :
     (Wanted(view, gone) = Wanted(v, g))
       ~> \/ Asked(Wanted(v, g))
          \/ Wanted(view, gone) # Wanted(v, g)
          \/ Quiet /\ trouble
=============================================================================
