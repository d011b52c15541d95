-------------------------- MODULE MapClientProofs --------------------------
(***************************************************************************)
(* Theorems about MapClient: whatever answers come late, together or not   *)
(* at all, for any places, views and number of requests under way.         *)
(***************************************************************************)
EXTENDS MapClient, FiniteSetTheorems, TLAPS

\* The reports the server has accepted count up to n, and a post names one.
Numbers ==
  /\ n \in Nat /\ acked \in Nat /\ acked <= n
  /\ \A p \in posts :
       /\ DOMAIN p = {"id", "loc", "status", "phase", "n"}
       /\ p.phase = "served" => p.n \in Nat /\ p.n <= n

\* boot waits for a fetch of its own.
Fetches ==
  /\ \A f \in fetches : DOMAIN f = {"id", "params", "boot", "phase", "n", "locs", "latest"}
  /\ booted = "loading" => \E f \in fetches : f.boot
  /\ booted = "no" => \A f \in fetches : ~f.boot

\* What the fetch asked last asks for is what the page should show, unless a newer
\* one will be sent, and it reads the server after the last answered report.
Last(f) == /\ timer \/ f.params = Wanted(view, gone)
           /\ f.phase = "served" => f.n >= acked

\* One fetch at most is the latest; when it has been drawn and nothing older after
\* it, the page shows what it asked for.
Tracks ==
  /\ \A f, g \in fetches : f.latest /\ g.latest => f = g
  /\ \A f \in fetches : f.latest => Last(f)
  /\ booted # "no" /\ ~trouble /\ (\A f \in fetches : ~f.latest) =>
       /\ timer \/ shown.params = Wanted(view, gone)
       /\ shown.n >= acked

MapInv == Numbers /\ Fetches /\ Tracks

-----------------------------------------------------------------------------
\* refreshMap: the new fetch is the latest, whatever was before.
LEMMA RefreshMapKeeps ==
  ASSUME Fetches, NEW boot \in BOOLEAN, RefreshMap(boot),
         \/ boot /\ booted' = "loading"
         \/ ~boot /\ booted' = booted
  PROVE  Fetches' /\ Tracks'
<1> PICK new : new = NewFetch(boot)
  OBVIOUS
<1> PICK others : others = {[f EXCEPT !.latest = FALSE] : f \in fetches}
  OBVIOUS
<1>1. fetches' = others \cup {new}
  BY DEF RefreshMap
<1>2. /\ DOMAIN new = {"id", "params", "boot", "phase", "n", "locs", "latest"}
      /\ new.params = Wanted(view', gone') /\ new.phase = "sent" /\ new.boot = boot
      /\ new.latest = TRUE
  BY DEF NewFetch
<1>3. \A g \in others : /\ DOMAIN g = {"id", "params", "boot", "phase", "n", "locs", "latest"}
                        /\ g.latest = FALSE
  BY DEF Fetches
<1>4. /\ \A f \in fetches : \E g \in others : g.boot = f.boot
      /\ \A g \in others : \E f \in fetches : g.boot = f.boot
  <2>1. \A f \in fetches : [f EXCEPT !.latest = FALSE].boot = f.boot
    BY DEF Fetches
  <2> QED  BY <2>1
<1>5. Fetches'
  <2>1. booted' = "loading" => \E f \in fetches' : f.boot
    BY <1>1, <1>2, <1>4 DEF Fetches
  <2>2. booted' = "no" => \A f \in fetches' : ~f.boot
    BY <1>1, <1>2, <1>4 DEF Fetches
  <2> QED  BY <1>1, <1>2, <1>3, <2>1, <2>2 DEF Fetches
<1>6. Last(new)'
  BY <1>2 DEF Last, Wanted
<1>7. Tracks'
  BY <1>1, <1>2, <1>3, <1>6 DEF Tracks
<1> QED  BY <1>5, <1>7

\* What leaves the fetches, the view and the filters alone.
LEMMA ElsewhereKeeps ==
  ASSUME MapInv, UNCHANGED <<view, gone, timer, booted, fetches, shown, trouble, acked>>,
         Numbers'
  PROVE  MapInv'
BY DEF MapInv, Fetches, Tracks, Last, Wanted

LEMMA NumbersKept ==
  ASSUME Numbers, UNCHANGED <<n, acked, posts>> PROVE Numbers'
BY DEF Numbers

LEMMA SendingKeeps ==
  ASSUME MapInv, NEW l, NEW status, SendPost(l, status)
  PROVE  MapInv'
<1> PICK new : new = [id |-> FreeId(posts), loc |-> l, status |-> status,
                      phase |-> "sent", n |-> 0]
  OBVIOUS
<1>1. /\ posts' = posts \cup {new}
      /\ UNCHANGED <<view, gone, timer, booted, fetches, shown, trouble, acked, n>>
  BY DEF SendPost, server, page, data
<1>2. new.phase = "sent" /\ DOMAIN new = {"id", "loc", "status", "phase", "n"}
  OBVIOUS
<1>3. Numbers'
  BY <1>1, <1>2 DEF MapInv, Numbers
<1> QED  BY <1>1, <1>3, ElsewhereKeeps

LEMMA ServePostKeeps ==
  ASSUME MapInv, NEW p \in posts, ServePost(p)
  PROVE  MapInv'
<1> PICK served : served = [p EXCEPT !.phase = "served", !.n = n + 1]
  OBVIOUS
<1>1. /\ posts' = (posts \ {p}) \cup {served} /\ n' = n + 1
      /\ UNCHANGED <<view, gone, timer, booted, fetches, shown, trouble, acked>>
  BY DEF ServePost, page, data
<1>2. DOMAIN served = {"id", "loc", "status", "phase", "n"} /\ served.n = n + 1
  BY DEF MapInv, Numbers
<1>3. Numbers'
  <2>1. n \in Nat /\ acked \in Nat /\ acked <= n
    BY DEF MapInv, Numbers
  <2>2. n' \in Nat /\ acked' \in Nat /\ acked' <= n' /\ n <= n'
    BY <1>1, <2>1
  <2>3. ASSUME NEW q \in posts, q.phase = "served" PROVE q.n \in Nat /\ q.n <= n'
    BY <2>1, <2>2, <2>3 DEF MapInv, Numbers
  <2>4. \A q \in posts : DOMAIN q = {"id", "loc", "status", "phase", "n"}
    BY DEF MapInv, Numbers
  <2>5. served.n \in Nat /\ served.n <= n'
    BY <1>1, <1>2, <2>1
  <2>6. ASSUME NEW q \in posts'
        PROVE  /\ DOMAIN q = {"id", "loc", "status", "phase", "n"}
               /\ q.phase = "served" => q.n \in Nat /\ q.n <= n'
    <3>1. CASE q = served  BY <3>1, <1>2, <2>5
    <3>2. CASE q # served  BY <3>2, <1>1, <2>3, <2>4
    <3> QED  BY <3>1, <3>2
  <2> QED  BY <2>2, <2>6 DEF Numbers
<1> QED  BY <1>1, <1>3, ElsewhereKeeps

\* The map is fetched again before the report counts as answered.
LEMMA PostAnsweredKeeps ==
  ASSUME MapInv, NEW p \in posts, PostAnswered(p)
  PROVE  MapInv'
<1>1. Numbers'
  BY DEF MapInv, Numbers, PostAnswered, server
<1>2. Fetches' /\ Tracks'
  BY RefreshMapKeeps DEF MapInv, PostAnswered, page
<1> QED  BY <1>1, <1>2 DEF MapInv

LEMMA ServeFetchKeeps ==
  ASSUME MapInv, NEW f \in fetches, ServeFetch(f)
  PROVE  MapInv'
<1> PICK served : served = [f EXCEPT !.phase = "served", !.n = n, !.locs = Listed(f.params)]
  OBVIOUS
<1>1. /\ fetches' = (fetches \ {f}) \cup {served}
      /\ UNCHANGED <<view, gone, timer, booted, shown, trouble, n, acked, posts>>
  BY DEF ServeFetch, server, page, requests
<1>2. /\ DOMAIN served = {"id", "params", "boot", "phase", "n", "locs", "latest"}
      /\ served.params = f.params /\ served.boot = f.boot /\ served.n = n
  BY DEF MapInv, Fetches
<1>3. Numbers'
  BY <1>1, NumbersKept DEF MapInv
<1>4. Fetches'
  BY <1>1, <1>2 DEF MapInv, Fetches
<1>5. served.latest = f.latest /\ served.phase = "served"
  BY DEF MapInv, Fetches
<1>6. f.latest => Last(served)'
  BY <1>1, <1>2 DEF MapInv, Numbers, Tracks, Last, Wanted
<1>7. ASSUME NEW g \in fetches, g.latest PROVE Last(g)'
  BY <1>1, <1>7 DEF MapInv, Tracks, Last, Wanted
<1>8. \A g \in fetches' : g = served \/ g \in fetches \ {f}
  BY <1>1, Zenon
<1>9. \A g, h \in fetches' : g.latest /\ h.latest => g = h
  BY <1>5, <1>8 DEF MapInv, Tracks
<1>10. (\A g \in fetches' : ~g.latest) => \A g \in fetches : ~g.latest
  BY <1>1, <1>5
<1>11. Tracks'
  BY <1>1, <1>5, <1>6, <1>7, <1>8, <1>9, <1>10 DEF MapInv, Tracks, Wanted
<1> QED  BY <1>3, <1>4, <1>11 DEF MapInv

LEMMA RenderFetchKeeps ==
  ASSUME MapInv, NEW f \in fetches, RenderFetch(f)
  PROVE  MapInv'
<1>1. /\ fetches' = fetches \ {f} /\ shown'.params = f.params /\ shown'.n = f.n
      /\ f.phase = "served" /\ UNCHANGED <<view, gone, timer, n, acked, posts>>
      /\ trouble' = (trouble \/ \A g \in fetches : ~g.latest)
  BY DEF RenderFetch, server, requests
<1>2. \/ f.boot /\ booted' = "yes"
      \/ ~f.boot /\ booted' = booted
  BY DEF RenderFetch, AfterFetch
<1>3. Numbers'
  BY <1>1, NumbersKept DEF MapInv
<1>4. Fetches'
  BY <1>1, <1>2 DEF MapInv, Fetches
<1>5. ASSUME ~trouble', \A g \in fetches' : ~g.latest PROVE Last(f)
  BY <1>1, <1>5 DEF MapInv, Tracks
<1>6. ASSUME NEW g \in fetches', g.latest PROVE Last(g)'
  BY <1>1, <1>6 DEF MapInv, Tracks, Last, Wanted
<1>7. Tracks'
  BY <1>1, <1>5, <1>6 DEF MapInv, Tracks, Last, Wanted
<1> QED  BY <1>3, <1>4, <1>7 DEF MapInv

\* boot goes on after a failure: the fetch it awaited was sent when it began, so
\* that what the latest one leaves has counted since.
LEMMA FailFetchKeeps ==
  ASSUME MapInv, NEW f \in fetches, FailFetch(f)
  PROVE  MapInv'
<1>1. /\ fetches' = fetches \ {f} /\ trouble' = (trouble \/ f.latest)
      /\ UNCHANGED <<view, gone, timer, shown, n, acked, posts>>
  BY DEF FailFetch, server, requests
<1>2. \/ f.boot /\ booted' = "yes"
      \/ ~f.boot /\ booted' = booted
  BY DEF FailFetch, AfterFetch
<1>3. Numbers' /\ Fetches'
  BY <1>1, <1>2, NumbersKept DEF MapInv, Fetches
<1>4. ASSUME NEW g \in fetches', g.latest PROVE Last(g)'
  BY <1>1, <1>4 DEF MapInv, Tracks, Last, Wanted
<1>5. f.boot => booted # "no"
  BY DEF MapInv, Fetches
<1>6. Tracks'
  BY <1>1, <1>2, <1>4, <1>5 DEF MapInv, Tracks, Wanted
<1> QED  BY <1>3, <1>6 DEF MapInv

LEMMA RefetchKeeps ==
  ASSUME MapInv, Load \/ ChangeFilter \/ TimerFires PROVE MapInv'
<1>1. UNCHANGED <<n, acked, posts>>
  BY DEF Load, ChangeFilter, TimerFires, server, requests
<1>2. Fetches' /\ Tracks'
  BY RefreshMapKeeps DEF MapInv, Load, ChangeFilter, TimerFires
<1> QED  BY <1>1, <1>2, NumbersKept DEF MapInv

\* A move leaves it to the timer.
LEMMA MoveEndKeeps == ASSUME MapInv, NEW v \in Views, MoveEnd(v) PROVE MapInv'
BY DEF MoveEnd, MapInv, Numbers, Fetches, Tracks, Last, server, data, requests

LEMMA ReloadKeeps == ASSUME MapInv, Reload PROVE MapInv'
BY DEF Reload, StartFrom, MapInv, Numbers, Fetches, Tracks, server

LEMMA SheetsKeep ==
  ASSUME MapInv,
         \/ ClickMarker \/ DismissSheet \/ TapMap \/ ChooseNearby \/ AskHistory
         \/ \E k \in lookups : NearbyAnswered(k)
         \/ \E h \in histories : HistoryAnswered(h)
         \/ OtherReport \/ \E p \in posts : PostFails(p)
  PROVE  MapInv'
<1>1. /\ UNCHANGED <<view, gone, timer, booted, fetches, shown, trouble, acked>>
      /\ posts' \subseteq posts /\ n' \in {n, n + 1}
  BY DEF ClickMarker, DismissSheet, TapMap, ChooseNearby, AskHistory, NearbyAnswered,
     HistoryAnswered, OtherReport, PostFails, server, page, data, requests
<1>2. Numbers'
  BY <1>1 DEF MapInv, Numbers
<1> QED  BY <1>1, <1>2, ElsewhereKeeps

\* The page's fetches, its timer and the reports it sent, whatever the order.
THEOREM MapInvariant == Spec => []MapInv
<1>1. Init => MapInv
  BY DEF Init, MapInv, Numbers, Fetches, Tracks
<1>2. MapInv /\ [Next]_vars => MapInv'
  <2> SUFFICES ASSUME MapInv, [Next]_vars PROVE MapInv'
    OBVIOUS
  <2>1. CASE SubmitForm \/ ReportOnExistingLocation
    BY <2>1, SendingKeeps DEF SubmitForm, ReportOnExistingLocation
  <2>2. CASE UNCHANGED vars
    BY <2>2, ElsewhereKeeps, NumbersKept DEF vars, server, page, data, requests, MapInv
  <2> QED  BY <2>1, <2>2, RefetchKeeps, ReloadKeeps, MoveEndKeeps, ServeFetchKeeps,
              RenderFetchKeeps, FailFetchKeeps, SheetsKeep, ServePostKeeps,
              PostAnsweredKeeps DEF Next
<1> QED  BY <1>1, <1>2, PTL DEF Spec

\* Whatever overlaps, a page at rest shows its view and filters unless the fetch
\* asked last failed or an older one was drawn after it (UntroubledMapTracksView).
THEOREM MapTracksView == Spec => []UntroubledMapTracksView
<1>1. MapInv => UntroubledMapTracksView
  BY DEF MapInv, Tracks, UntroubledMapTracksView, Quiet
<1> QED  BY <1>1, MapInvariant, PTL

\* And it has read the server after the user's last answered report
\* (OwnReportShows).
THEOREM ReportIsShown == Spec => []OwnReportShows
<1>1. MapInv => OwnReportShows
  BY DEF MapInv, Tracks, OwnReportShows, Quiet
<1> QED  BY <1>1, MapInvariant, PTL

\* Once booted, the query string names the view, the filters and the selection
\* (QueryStringIsState).
THEOREM QueryStringFollows == Spec => []QueryStringIsState
<1>1. Init => QueryStringIsState
  BY DEF Init, QueryStringIsState
<1>2. QueryStringIsState /\ [Next]_vars => QueryStringIsState'
  <2> SUFFICES ASSUME QueryStringIsState, [Next]_vars PROVE QueryStringIsState'
    OBVIOUS
  <2> USE DEF QueryStringIsState
  <2>1. CASE Load \/ ChangeFilter \/ TimerFires \/ Reload
    BY <2>1 DEF Load, ChangeFilter, TimerFires, Reload, StartFrom, SyncURL
  <2>2. ASSUME NEW v \in Views, MoveEnd(v) PROVE QueryStringIsState'
    BY <2>2 DEF MoveEnd, SyncURL
  <2>3. ASSUME NEW f \in fetches, ServeFetch(f) \/ RenderFetch(f) \/ FailFetch(f)
        PROVE  QueryStringIsState'
    BY <2>3 DEF ServeFetch, RenderFetch, FailFetch, AfterFetch, OpenLocation, SyncURL, page
  <2>4. CASE ClickMarker \/ DismissSheet \/ TapMap \/ ChooseNearby \/ AskHistory \/ OtherReport
    BY <2>4 DEF ClickMarker, DismissSheet, TapMap, ChooseNearby, AskHistory, OtherReport,
       OpenLocation, CloseSheet, SyncURL, page
  <2>5. ASSUME NEW k \in lookups \cup histories, NearbyAnswered(k) \/ HistoryAnswered(k)
        PROVE  QueryStringIsState'
    BY <2>5 DEF NearbyAnswered, HistoryAnswered, page
  <2>6. CASE SubmitForm \/ ReportOnExistingLocation
    BY <2>6 DEF SubmitForm, ReportOnExistingLocation, SendPost, page
  <2>7. ASSUME NEW p \in posts, ServePost(p) \/ PostAnswered(p) \/ PostFails(p)
        PROVE  QueryStringIsState'
    BY <2>7 DEF ServePost, PostAnswered, PostFails, CloseSheet, SyncURL, page
  <2>8. CASE UNCHANGED vars
    BY <2>8 DEF vars, page
  <2> QED  BY <2>1, <2>2, <2>3, <2>4, <2>5, <2>6, <2>7, <2>8 DEF Next
<1> QED  BY <1>1, <1>2, PTL DEF Spec

-----------------------------------------------------------------------------
(* Types, by what the variables are about.                                 *)

ServerTyped == world \in [Locs -> Status] /\ n \in Nat

PageTyped == /\ view \in Views /\ gone \in BOOLEAN /\ timer \in BOOLEAN
             /\ booted \in {"no", "loading", "yes"} /\ initial \in Locs \cup {None}

MapTyped == /\ fetches \subseteq Fetch /\ IsFiniteSet(fetches)
            /\ shown \in [params : Params \cup {None}, n : Nat, locs : SUBSET Locs]
            /\ known \subseteq Locs /\ trouble \in BOOLEAN

SheetTyped == sheet \in Sheet /\ selection \in Locs \cup {None} /\ url \in QueryString

SentTyped == /\ lookups \subseteq [id : Nat, loc : Locs] /\ IsFiniteSet(lookups)
             /\ histories \subseteq [id : Nat, loc : Locs] /\ IsFiniteSet(histories)
             /\ posts \subseteq Post /\ IsFiniteSet(posts)
             /\ acked \in Nat

TypedInv == ServerTyped /\ PageTyped /\ MapTyped /\ SheetTyped /\ SentTyped

\* Of one number more than there are requests, one is free.
LEMMA FreeIdIsFree ==
  ASSUME NEW R, IsFiniteSet(R)
  PROVE  FreeId(R) \in Nat /\ \A r \in R : r.id # FreeId(R)
<1> DEFINE m == Cardinality(R)
<1>1. m \in Nat
  BY FS_CardinalityType
<1>2. \E i \in 1 .. m + 1 : \A r \in R : r.id # i
  <2> SUFFICES ASSUME \A i \in 1 .. m + 1 : \E r \in R : r.id = i
               PROVE  FALSE
    OBVIOUS
  <2> DEFINE f == [i \in 1 .. m + 1 |-> CHOOSE r \in R : r.id = i]
  <2>1. \A i \in 1 .. m + 1 : f[i] \in R /\ f[i].id = i
    OBVIOUS
  <2>2. f \in [1 .. m + 1 -> R]
    BY <2>1
  <2>3. IsFiniteSet(1 .. m + 1) /\ Cardinality(1 .. m + 1) = m + 1
    BY <1>1, FS_Interval
  <2> HIDE DEF f
  <2>4. f \in Injection(1 .. m + 1, R)
    BY <2>1, <2>2 DEF Injection, IsInjective
  <2>5. Cardinality(1 .. m + 1) <= m
    BY <2>4, FS_Injection
  <2> QED  BY <1>1, <2>3, <2>5
<1>3. FreeId(R) \in 1 .. m + 1 /\ \A r \in R : r.id # FreeId(R)
  BY <1>2, Zenon DEF FreeId
<1> QED  BY <1>1, <1>3

\* A request more or less leaves finitely many.
LEMMA OneRequestFinite ==
  ASSUME NEW R, IsFiniteSet(R), NEW x, NEW y
  PROVE  /\ IsFiniteSet(R \cup {x}) /\ IsFiniteSet(R \ {x})
         /\ IsFiniteSet((R \ {x}) \cup {y})
BY FS_AddElement, FS_RemoveElement

LEMMA ServerStaysTyped == ASSUME TypedInv, [Next]_vars PROVE ServerTyped'
<1>1. CASE UNCHANGED server
  BY <1>1 DEF server, TypedInv, ServerTyped
<1>2. CASE OtherReport
  BY <1>2 DEF OtherReport, TypedInv, ServerTyped, Status
<1>3. ASSUME NEW p \in posts, ServePost(p) PROVE ServerTyped'
  <2>1. p \in Post
    BY DEF TypedInv, SentTyped
  <2> QED  BY <1>3, <2>1 DEF ServePost, Post, TypedInv, ServerTyped, Status
<1> QED
  BY <1>1, <1>2, <1>3
  DEF Next, vars, Load, ChangeFilter, TimerFires, Reload, MoveEnd, ServeFetch, RenderFetch,
      FailFetch, ClickMarker, DismissSheet, TapMap, ChooseNearby, AskHistory, NearbyAnswered,
      HistoryAnswered, SubmitForm, ReportOnExistingLocation, SendPost, PostAnswered, PostFails

LEMMA PageStaysTyped == ASSUME TypedInv, [Next]_vars PROVE PageTyped'
<1>1. CASE UNCHANGED page
  BY <1>1 DEF page, TypedInv, PageTyped
<1>2. CASE Load \/ ChangeFilter \/ TimerFires
  BY <1>2 DEF Load, ChangeFilter, TimerFires, TypedInv, PageTyped
<1>3. ASSUME NEW v \in Views, MoveEnd(v) PROVE PageTyped'
  BY <1>3 DEF MoveEnd, TypedInv, PageTyped
<1>4. ASSUME NEW f, RenderFetch(f) \/ FailFetch(f) PROVE PageTyped'
  BY <1>4 DEF RenderFetch, FailFetch, AfterFetch, TypedInv, PageTyped
<1>5. CASE Reload
  <2>1. url.view \in Views /\ url.gone \in BOOLEAN /\ url.sel \in Locs \cup {None}
    BY DEF TypedInv, SheetTyped, QueryString
  <2> QED  BY <1>5, <2>1 DEF Reload, StartFrom, PageTyped
<1> QED
  BY <1>1, <1>2, <1>3, <1>4, <1>5
  DEF Next, vars, ServeFetch, ClickMarker, DismissSheet, TapMap, ChooseNearby, AskHistory,
      NearbyAnswered, HistoryAnswered, SubmitForm, ReportOnExistingLocation, SendPost,
      ServePost, PostAnswered, PostFails, OtherReport

LEMMA RefreshMapTyped ==
  ASSUME MapTyped, PageTyped', NEW boot \in BOOLEAN, RefreshMap(boot)
  PROVE  MapTyped'
<1> PICK new : new = NewFetch(boot)
  OBVIOUS
<1> DEFINE Older(f) == [f EXCEPT !.latest = FALSE]
<1> PICK others : others = {Older(f) : f \in fetches}
  OBVIOUS
<1>1. Wanted(view', gone') \in Params
  <2>1. view'.sees \in SUBSET Locs
    BY ConstantsAssumption DEF PageTyped
  <2>2. (gone' /\ view'.missing) \in BOOLEAN
    OBVIOUS
  <2> QED  BY <2>1, <2>2 DEF Wanted, Params
<1>2. new \in Fetch
  BY <1>1, FreeIdIsFree DEF MapTyped, Fetch, NewFetch
<1>3. fetches' = others \cup {new} /\ UNCHANGED <<shown, known>> /\ trouble' = FALSE
  BY DEF RefreshMap
<1>4. others \subseteq Fetch
  <2>1. ASSUME NEW f \in fetches PROVE Older(f) \in Fetch
    <3>1. f \in Fetch
      BY DEF MapTyped
    <3> QED  BY <3>1 DEF Fetch
  <2> QED  BY <2>1
<1>5. IsFiniteSet(others)
  <2> DEFINE older == [f \in fetches |-> Older(f)]
  <2> HIDE DEF Older
  <2>1. older \in Surjection(fetches, others)
    BY DEF Surjection
  <2> QED  BY <2>1, FS_Surjection DEF MapTyped
<1>6. IsFiniteSet(fetches')
  BY <1>3, <1>5, OneRequestFinite, Zenon
<1> QED  BY <1>2, <1>3, <1>4, <1>6 DEF MapTyped

LEMMA MapStaysTyped == ASSUME TypedInv, PageTyped', [Next]_vars PROVE MapTyped'
<1>1. CASE UNCHANGED data
  BY <1>1 DEF data, TypedInv, MapTyped
<1>2. CASE Load \/ ChangeFilter \/ TimerFires \/ \E p \in posts : PostAnswered(p)
  BY <1>2, RefreshMapTyped DEF Load, ChangeFilter, TimerFires, PostAnswered, TypedInv
<1>3. CASE Reload
  BY <1>3, FS_EmptySet DEF Reload, StartFrom, NothingShown, MapTyped
<1>4. ASSUME NEW f \in fetches, ServeFetch(f) PROVE MapTyped'
  <2> PICK served : served = [f EXCEPT !.phase = "served", !.n = n, !.locs = Listed(f.params)]
    OBVIOUS
  <2>1. f \in Fetch /\ n \in Nat
    BY DEF TypedInv, MapTyped, ServerTyped
  <2>2. Listed(f.params) \in SUBSET Locs
    BY <2>1 DEF Fetch, Params, Listed
  <2>3. served \in Fetch
    BY <2>1, <2>2 DEF Fetch
  <2>4. /\ fetches' = (fetches \ {f}) \cup {served}
        /\ UNCHANGED <<shown, known, trouble>>
    BY <1>4 DEF ServeFetch
  <2>5. IsFiniteSet(fetches')
    BY <2>4, OneRequestFinite, Zenon DEF TypedInv, MapTyped
  <2> QED  BY <2>3, <2>4, <2>5 DEF TypedInv, MapTyped
<1>5. ASSUME NEW f \in fetches, RenderFetch(f) \/ FailFetch(f) PROVE MapTyped'
  <2>1. f \in Fetch /\ fetches' = fetches \ {f}
    BY <1>5 DEF TypedInv, MapTyped, RenderFetch, FailFetch
  <2>2. IsFiniteSet(fetches')
    BY <2>1, OneRequestFinite, Zenon DEF TypedInv, MapTyped
  <2>3. trouble' \in BOOLEAN
    BY <1>5 DEF RenderFetch, FailFetch
  <2>4. /\ shown' \in [params : Params \cup {None}, n : Nat, locs : SUBSET Locs]
        /\ known' \subseteq Locs
    BY <1>5, <2>1 DEF RenderFetch, FailFetch, Fetch, TypedInv, MapTyped
  <2> QED  BY <2>1, <2>2, <2>3, <2>4 DEF TypedInv, MapTyped
<1> QED
  BY <1>1, <1>2, <1>3, <1>4, <1>5
  DEF Next, vars, MoveEnd, ClickMarker, DismissSheet, TapMap, ChooseNearby, AskHistory,
      NearbyAnswered, HistoryAnswered, SubmitForm, ReportOnExistingLocation, SendPost,
      ServePost, PostFails, OtherReport

\* Every sheet that a handler opens is one there can be.
LEMMA SheetsThereAre ==
  /\ NoSheet \in Sheet
  /\ \A l \in Locs, near \in SUBSET Locs :
       /\ ChoiceSheet(l, near) \in Sheet
       /\ \A kind \in {"form", "location", "history"} : SheetOf(kind, l) \in Sheet
BY DEF NoSheet, Sheet, ChoiceSheet, SheetOf

LEMMA SheetStaysTyped == ASSUME TypedInv, PageTyped', [Next]_vars PROVE SheetTyped'
<1>1. ASSUME SyncURL, sheet' \in Sheet, selection' \in Locs \cup {None} PROVE SheetTyped'
  BY <1>1 DEF SyncURL, SheetTyped, QueryString, PageTyped
<1>2. ASSUME NEW l \in Locs, OpenLocation(l) PROVE SheetTyped'
  BY <1>1, <1>2, SheetsThereAre DEF OpenLocation
<1>3. CASE CloseSheet
  BY <1>1, <1>3, SheetsThereAre DEF CloseSheet
<1>4. CASE SyncURL /\ UNCHANGED <<sheet, selection>>
  BY <1>1, <1>4 DEF TypedInv, SheetTyped
<1>5. CASE UNCHANGED <<selection, url>> /\ sheet' \in Sheet
  BY <1>5 DEF TypedInv, SheetTyped
<1>6. sheet \in Sheet /\ shown.locs \subseteq Locs
  BY DEF TypedInv, SheetTyped, MapTyped
<1>7. CASE Load \/ TimerFires \/ OtherReport \/ TapMap \/ AskHistory \/ SubmitForm
           \/ ReportOnExistingLocation \/ UNCHANGED vars
  BY <1>5, <1>6, <1>7 DEF Load, TimerFires, OtherReport, TapMap, AskHistory, SubmitForm,
     ReportOnExistingLocation, SendPost, vars
<1>8. CASE ChangeFilter \/ \E v \in Views : MoveEnd(v)
  BY <1>4, <1>8 DEF ChangeFilter, MoveEnd
<1>9. ASSUME NEW f \in fetches, ServeFetch(f) \/ RenderFetch(f) \/ FailFetch(f)
      PROVE  SheetTyped'
  <2>1. f.locs \subseteq Locs
    BY DEF TypedInv, MapTyped, Fetch
  <2>2. ASSUME NEW have \in SUBSET Locs, AfterFetch(f, have) PROVE SheetTyped'
    BY <1>2, <1>4, <1>5, <1>6, <2>2 DEF AfterFetch
  <2> QED  BY <1>5, <1>6, <1>9, <2>1, <2>2 DEF ServeFetch, RenderFetch, FailFetch
<1>10. CASE ClickMarker \/ DismissSheet \/ \E p \in posts : PostAnswered(p)
  BY <1>2, <1>3, <1>6, <1>10 DEF ClickMarker, DismissSheet, PostAnswered
<1>11. ASSUME NEW p \in posts, ServePost(p) \/ PostFails(p) PROVE SheetTyped'
  BY <1>5, <1>6, <1>11 DEF ServePost, PostFails
<1>12. CASE ChooseNearby
  <2>1. sheet.loc \in Locs /\ sheet.near \subseteq Locs
    BY <1>6, <1>12 DEF ChooseNearby, Sheet, NoSheet
  <2> QED  BY <1>2, <1>5, <1>12, <2>1, SheetsThereAre DEF ChooseNearby
<1>13. ASSUME NEW k \in lookups, NearbyAnswered(k) PROVE SheetTyped'
  <2>1. k.loc \in Locs
    BY DEF TypedInv, SentTyped
  <2>2. {l \in Vicinity[k.loc] : world[l] # "absent"} \in SUBSET Locs
    BY <2>1, ConstantsAssumption
  <2>3. sheet' \in Sheet
    BY <1>13, <2>1, <2>2, SheetsThereAre DEF NearbyAnswered
  <2> QED  BY <1>5, <1>13, <2>3 DEF NearbyAnswered
<1>14. ASSUME NEW h \in histories, HistoryAnswered(h) PROVE SheetTyped'
  <2>1. h.loc \in Locs
    BY DEF TypedInv, SentTyped
  <2> QED  BY <1>5, <1>6, <1>14, <2>1, SheetsThereAre DEF HistoryAnswered
<1>15. CASE Reload
  BY <1>15, SheetsThereAre DEF Reload, StartFrom, TypedInv, SheetTyped
<1> QED
  BY <1>7, <1>8, <1>9, <1>10, <1>11, <1>12, <1>13, <1>14, <1>15 DEF Next

LEMMA SentStaysTyped == ASSUME TypedInv, [Next]_vars PROVE SentTyped'
<1>0. /\ SentTyped /\ n \in Nat
      /\ FreeId(lookups) \in Nat /\ FreeId(histories) \in Nat /\ FreeId(posts) \in Nat
  BY FreeIdIsFree DEF TypedInv, SentTyped, ServerTyped
<1>1. CASE UNCHANGED requests
  BY <1>0, <1>1 DEF requests, SentTyped
<1>2. CASE Reload
  BY <1>2, FS_EmptySet DEF Reload, StartFrom, SentTyped
<1>3. CASE TapMap
  <2>1. PICK l \in view.sees : lookups' = lookups \cup {[id |-> FreeId(lookups), loc |-> l]}
    BY <1>3 DEF TapMap
  <2>2. l \in Locs
    BY <2>1, ConstantsAssumption DEF TypedInv, PageTyped
  <2>3. IsFiniteSet(lookups')
    BY <1>0, <2>1, OneRequestFinite, Zenon DEF SentTyped
  <2> QED  BY <1>0, <1>3, <2>1, <2>2, <2>3 DEF TapMap, SentTyped
<1>4. CASE AskHistory
  <2>1. sheet.loc \in Locs
    BY <1>4 DEF AskHistory, TypedInv, SheetTyped, Sheet, NoSheet
  <2>2. histories' = histories \cup {[id |-> FreeId(histories), loc |-> sheet.loc]}
    BY <1>4 DEF AskHistory
  <2>3. IsFiniteSet(histories')
    BY <1>0, <2>2, OneRequestFinite, Zenon DEF SentTyped
  <2> QED  BY <1>0, <1>4, <2>1, <2>2, <2>3 DEF AskHistory, SentTyped
<1>5. ASSUME NEW l \in Locs, NEW status \in {"exists", "gone"}, SendPost(l, status)
      PROVE  SentTyped'
  <2> PICK p : p = [id |-> FreeId(posts), loc |-> l, status |-> status,
                    phase |-> "sent", n |-> 0]
    OBVIOUS
  <2>1. p \in Post /\ posts' = posts \cup {p}
    BY <1>0, <1>5 DEF Post, SendPost
  <2>2. IsFiniteSet(posts')
    BY <1>0, <2>1, OneRequestFinite, Zenon DEF SentTyped
  <2> QED  BY <1>0, <1>5, <2>1, <2>2 DEF SendPost, SentTyped
<1>6. CASE SubmitForm \/ ReportOnExistingLocation
  <2>1. sheet.loc \in Locs
    BY <1>6 DEF SubmitForm, ReportOnExistingLocation, TypedInv, SheetTyped, Sheet, NoSheet
  <2> QED  BY <1>5, <1>6, <2>1 DEF SubmitForm, ReportOnExistingLocation
<1>7. ASSUME NEW k \in lookups, NearbyAnswered(k) PROVE SentTyped'
  <2>1. lookups' = lookups \ {k} /\ UNCHANGED <<histories, posts, acked>>
    BY <1>7 DEF NearbyAnswered
  <2>2. IsFiniteSet(lookups')
    BY <1>0, <2>1, OneRequestFinite, Zenon DEF SentTyped
  <2> QED  BY <1>0, <2>1, <2>2 DEF SentTyped
<1>8. ASSUME NEW h \in histories, HistoryAnswered(h) PROVE SentTyped'
  <2>1. histories' = histories \ {h} /\ UNCHANGED <<lookups, posts, acked>>
    BY <1>8 DEF HistoryAnswered
  <2>2. IsFiniteSet(histories')
    BY <1>0, <2>1, OneRequestFinite, Zenon DEF SentTyped
  <2> QED  BY <1>0, <2>1, <2>2 DEF SentTyped
<1>9. ASSUME NEW p \in posts, ServePost(p) PROVE SentTyped'
  <2> PICK served : served = [p EXCEPT !.phase = "served", !.n = n + 1]
    OBVIOUS
  <2>1. served \in Post /\ posts' = (posts \ {p}) \cup {served}
    <3>1. p \in Post /\ n + 1 \in Nat
      BY <1>0 DEF SentTyped
    <3>2. served \in Post
      BY <3>1 DEF Post
    <3> QED  BY <1>9, <3>2 DEF ServePost
  <2>2. IsFiniteSet(posts')
    BY <1>0, <2>1, OneRequestFinite, Zenon DEF SentTyped
  <2> QED  BY <1>0, <1>9, <2>1, <2>2 DEF ServePost, SentTyped
<1>10. ASSUME NEW p \in posts, PostAnswered(p) \/ PostFails(p) PROVE SentTyped'
  <2>1. /\ posts' = posts \ {p} /\ UNCHANGED <<lookups, histories>>
        /\ acked' \in {acked, p.n} /\ p.n \in Nat
    BY <1>0, <1>10 DEF PostAnswered, PostFails, SentTyped, Post
  <2>2. IsFiniteSet(posts')
    BY <1>0, <2>1, OneRequestFinite, Zenon DEF SentTyped
  <2> QED  BY <1>0, <2>1, <2>2 DEF SentTyped
<1> QED
  BY <1>1, <1>2, <1>3, <1>4, <1>6, <1>7, <1>8, <1>9, <1>10
  DEF Next, vars, Load, ChangeFilter, TimerFires, MoveEnd, ServeFetch, RenderFetch,
      FailFetch, ClickMarker, DismissSheet, ChooseNearby, OtherReport

\* Every variable keeps its type, for any places, views and bounds (TypeOK).
THEOREM PageIsTyped == Spec => []TypeOK
<1>1. Init => TypedInv
  <2> SUFFICES ASSUME Init PROVE TypedInv
    OBVIOUS
  <2>1. ServerTyped /\ PageTyped
    BY DEF Init, ServerTyped, PageTyped
  <2>2. MapTyped /\ SentTyped
    BY FS_EmptySet DEF Init, MapTyped, SentTyped, NothingShown
  <2>3. SheetTyped
    BY SheetsThereAre DEF Init, SheetTyped, QueryString
  <2> QED  BY <2>1, <2>2, <2>3 DEF TypedInv
<1>2. TypedInv /\ [Next]_vars => TypedInv'
  BY ServerStaysTyped, PageStaysTyped, MapStaysTyped, SheetStaysTyped, SentStaysTyped
  DEF TypedInv
<1>3. TypedInv => TypeOK
  BY DEF TypedInv, ServerTyped, PageTyped, MapTyped, SheetTyped, SentTyped, TypeOK
<1> QED  BY <1>1, <1>2, <1>3, PTL DEF Spec
=============================================================================
