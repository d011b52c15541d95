# A specification of reporting-and-mapping

A model in TLA+ of the street-sign reporting server and its two web pages:
what a report goes through from the tap on the map to the marker, what a
moderator's flag does to it, how the database is opened, what every endpoint
answers, what the importer leaves behind, and what the two pages do with answers
that come late or not at all. TLC explores small instances;
TLAPS proves every safety property that a passing run checks, for every value of
the constants. Paths below are relative to `src/`.

## The system and its parts

One Go process serves a JSON API and static pages from one SQLite file (WAL,
busy timeout 5 s), behind oauth2-proxy. Two commands, `user-role` and
`import-pirate-map`, open the same file. Every HTTP request runs in a goroutine
of its own; the store uses autocommit statements except where noted. Two pages
in the browser talk to the API.

| Component | State | Operations | Interacts with | Hard | What makes it correct |
|---|---|---|---|---|---|
| Reporting a sighting (`internal/api/handlers.go`, `internal/store/store.go`) | tables `locations`, `sightings` | `handleCreateSighting`, `InsertSighting`: two statements without a transaction, each a conditional insert | map query, canonical locations, map page | interleaved statements, failure between them, rounding to 7 and to 6 decimals, stale `LastInsertId` | an answer names the stored report; one location per place; at most one sighting per request |
| Canonical locations | table `locations` | `handleCreateLocation`, `InsertCanonical`, `getLocation` | the reports' lookup of a location | a second location in a cell while a report is between its statements | reports go on finding a location of their cell |
| Map query (`store/mapping.go`) | none | `MapData` | reads all tables | bare columns of a `GROUP BY`, whole seconds, the window's edge | a reported location shows, and no older row is preferred |
| Location history (`store/locations.go`) | none | `LocationHistory` | flags | the sense of a filter | hides exactly what the box says |
| Insincerity flags (`store/store.go`, `db/schema.sql`) | table `user_flags` | `SetInsincere`, `ListUserFlags`, view `current_insincere` | map, history, audit list | three derivations of one fact; rows stamped before they wait for the lock | the derivations agree |
| Moderation page (`webui/static/audit_sightings.html`) | dialog, button, event list | fetch flags, toggle, reload | flags, audit list | a button computed from an old answer; answers for another user | one click undoes the last |
| Opening the database (`internal/db/db.go`) | seed, schema, grants | `Open`: schema, seed, migration, grants | all processes | concurrent opens, crashes between statements, `SQLITE_BUSY` | one seed for ever; nobody loses their row |
| Identity and users (`identity`, `store/users.go`, `auth`) | `users`, cached seed | `hashSeed`, `ResolveUser`, `UserRole` | every handler | concurrent first requests, an error cached for good | a subject keeps one row and its role |
| Role administration (`cmd/user-role`) | `users.role` | `list`, `set` | identity | runs beside the server | a role lasts until another is given |
| Permissions (`api/server.go`, `store/users.go`) | `role_permissions` | `require`, `RoleHasPermission` | every handler | role read early, used late; reseeding | operators' edits hold |
| Map page (`webui/static/app.js`) | view, filters, markers, sheet, selection, query string | listeners, `refreshMap`, `syncURL`, sheets, reports | map query, reporting, history | answers out of order, debounce, boot racing the user | markers and query string follow the page |
| Importer (`cmd/import-pirate-map`, `store/import.go`) | `locations` in one transaction, the write lock | `buildRecords`, `ResolveUser`, `ImportSourceRecords` | opening, reports of the server | a statement is refused after another wrote; a crash in the transaction | all or nothing; no folder is imported as what it is not |
| Reconciliation (`store/store.go`) | a table the schema lacks | `handleReconcile`, `InsertReconciliation` | canonical locations | fails at its last statement | leaves nothing behind |
| Reputation notes (`store/store.go`) | table `reputation_notes` | `handleAddNote`, `handleListNotes` | users | lost answers | one note, of its author, on its target |
| Audit lists (`store/auditing.go`, `store/sightings.go`) | none | `AuditEventsSince`, `SightingsSince`, `SightingsByOpaqueUser` | flags, moderation page | a limit that says nothing, a derivation of insincerity of its own beside flags being committed | the newest rows, all judged by the flags of one moment |
| HTTP server (`cmd/server`, `api/server.go`, `api/panic.go`) | the process | routes, parameters, statuses, panics, shutdown | all handlers | failures and cuts in the midst of a handler | an answer says what was done; a shutdown ends |
| Geometry, deployment, assets | none | - | - | - | - |

`PROJECT.json` lists the same components with what is modelled of each.

## The modules

* `Coordinates` is the arithmetic of `round(x, 7)` and `round(x, 6)` on integers
  (units of 10^-8 degrees), the range check, and the predicate by which both
  statements of `InsertSighting` look for a location. SQLite rounds a binary
  double, which is never exactly midway between two decimals unless it is a dyadic
  fraction: a tie such as 0.0000005 lies below and goes down, 0.0000015 lies above.
  `TiesDown` is the set of magnitudes that, at a tie, go down.
* `MapQuery` is the `SELECT` of `MapData` as an operator on the two tables: box,
  window, insincerity by the sum, grouping, bare columns, `HAVING`. A bare
  column beside `max()` may come from any row of the maximum, so the operator
  gives the set of markers the statement may return.
* `Sightings` is the report path. A handler is a process with a program counter:
  `HandleCreateSighting` (decode, check, stamp), `InsertLocation` (store.go:56),
  `InsertSightingRow` or `InsertNoRow` (store.go:65-82, with and without a
  matching location), `Respond`. `Fail` ends a request at any of these points,
  `Restart` all of them; committed statements stay. `CreateLocation` is
  `POST /api/locations`. Two fields are history only: a row's `serial` and a
  location's `via` say which request wrote it; `acks` keeps the 201 answers.
  With `Scan = "any"` a lookup may take any matching location, as SQL allows;
  with `"index"` it takes the first of `idx_location_bbox`, the plan in use.
* `ReportBoard` is what the endpoint promises, without statements or
  locations: a report is published once, in one step, as it was asked for, and
  answered only after. `Sightings!Board` maps the tables to it.
* `Moderation` is table `user_flags`, the flag dialog of the moderation page
  (fetch, render, click, answer, each a step) and the server's side of each
  request (stamp, then insert). `blind` is history: the users for whom a row
  was written by somebody who had not seen all the rows before it.
* `Startup` is `db.Open` statement by statement in several processes, the
  migration of `user_identities` in a transaction that fails when its snapshot
  is stale, and then `ResolveUser`, `SetUserRole` and an operator's edits of
  `role_permissions`. An opaque id is a pair of a seed and a subject.
* `Directory` is what the database promises of identities: a known subject has
  one account, with a number of its own that stays and the role last given.
  `Startup!Dir` maps the tables to it: a subject's rows are those the older table
  names until it is dropped, then those with the id derived from the seed.
* `Access` composes it with requests: `Authenticate` is the middleware, which
  keeps the row it resolved, role included; `Require` is the handler's check of
  that role against the table; any step of `Startup` may come between. A
  request carries as history the roles its subject had and the roles the table
  let through since it came.
* `RequestParams` reads the query string as the handlers do: windows, which the
  map and the history default and clamp and the audit lists refuse, and the box,
  which is clamped to the range. A day is a few units of the clock.
* `EventLog` has the lists as operators on the tables: the union of
  `AuditEventsSince` with its order and limit, the audit's sightings, and both
  statements of a location's history.
* `Endpoints` is the server as its clients see it, every endpoint but
  `POST /api/sightings`: a request is refused by its role, its body or its
  parameters (`Accept`), then runs its statements, one step each, beside other
  requests, and is answered, fails, or loses its answer; the process is
  signalled, drains its handlers, or cuts them off. `via`, `seen` and `flagged` are
  history: which request wrote a row, and how many sightings and flags were
  committed when a request came. Users and roles stand still here; `Access` moves them.
* `Importer` is one command beside the server: what a document's placemarks
  become (texts are the sets of the phrases the program looks for, a line the
  dates in it), and the transaction, which takes the write lock with its first
  statement. The second statement is refused for the columns it names, so that
  no record is stored; that is derived from the two sets of columns.
* `AuditPage` composes `Moderation` with the page's list of events: fetches,
  answers in any order, the selection and its highlight. The list is
  `EventLog!AuditEventsSince` over the table of flags the dialogs write.
* `MapClient` is `app.js` in one tab. Handlers run to their next `await`;
  a request is sent, served and answered in three steps, and any of them can
  fail. A view of the map stands for the locations in the box sent for it and
  the two zoom limits it passes; the time slider and the box "show flagged" are
  handled like the box "show missing". The server is reduced to what it says of
  each place and to a count of reports. `latest` and `trouble` are history: which
  fetch was asked last, and whether it failed or was overtaken. A report whose page was reloaded before
  it was served counts as somebody else's.

The modules `MC...` hold the values of the constants that a `.cfg` cannot write.
`SightingsProofs`, `ModerationProofs`, `StartupProofs` (with `Access`),
`EndpointsProofs` (with `RequestParams`), `AuditPageProofs`, `ImporterProofs` and
`MapClientProofs` hold the theorems about the module they are named after;
`OperatorProofs` has what they share, about sequences, and about the operators of
`Coordinates`, `MapQuery` and `EventLog`.

Definitions whose comment begins "Mutant of" are broken variants of the
definition they stand before, one for each property: with the variant in its
place TLC finds the property violated. No specification uses them.

## What the runs show

| Run | States | Properties |
|---|---|---|
| `Sightings` | 0.42 M | `TypeOK`, `AcknowledgedReportStored`, `FirstOfItsCell`, `RecordedOnce`, `IInv`, `ImplementsReportBoard`, `AppendOnly` |
| `SightingsMap` | 0.52 M | `AnsweredReportReachesMap`, `ReportsLand` (liveness) |
| `Moderation` | 1.4 M | `TypeOK`, `SeenTogglesAgree`, `SeenTogglesAlternate` |
| `Access` | 0.54 M | `AccessTypeOK`, `LetThroughByTheTable`, `OpenMeansMigrated`, `SubjectKeepsRow`, `RoleIsLastAssigned`, `SeedNeverRotates`, `ImplementsDirectory` |
| `MapClient` | 0.91 M | `TypeOK`, `QueryStringIsState`, `OwnReportShows` |
| `Audit` | 0.84 M | `UntroubledListIsCurrent`, `OnlySelectionHighlighted` |
| `Endpoints` | 0.55 M | `TypeOK`, `EffectsMatchAnswer`, `ListsAreCurrent`, `HistoryCoversHeader`, `FlagsOfOneMoment`, `DrainEnds` (liveness) |
| `Importer` | 2.6 k | `TypeOK`, `EveryPlacemarkAccounted`, `GoneStaysGone`, `NoStrayLocations`, `RunEnds` (liveness) |
| `MapClientLive` | 73 k | `QueryStringIsState`, `UntroubledMapTracksView`, `ViewIsAsked` (liveness) |

* **Sightings.** Two requests, a third after one of them ends, a canonical
  location at any moment, failures and restarts anywhere. The id in a 201 names
  the row with the report, for every report whose rounded position is found
  again (`RoundTrips`) or that reuses a location's coordinates; first reports
  of one place never create two locations; a request appends at most one
  sighting; and the two statements together implement `ReportBoard`.
* **SightingsMap.** With requests that run to their end, every such report
  becomes a sighting and is answered, and every map whose window reaches back
  to it has a marker in its cell that shows nothing older than it, even when a
  client sends a time of its own that is ahead of the clock.
* **Moderation.** As long as everybody who wrote a row for a user had seen the
  rows before it, the sum (map, audit list) and the newest row (dialog, view)
  say the same, and the rows alternate: also when the rows were stamped in
  another order than inserted, when the dialog has moved on to another user,
  and when requests fail.
* **Access.** On a fresh file and on one of the older schema, with two
  processes opening it, crashing and opening it again: the seed is set once,
  an open database is migrated entirely, nobody loses or doubles their row, and
  a role lasts until another is given; seen through the two ways of looking a
  subject up, seeding, rehashing and crashing are invisible. A request is let through only by a role
  its own subject had, and that the table gave the permission, while it was
  under way (db.go:21). The two need not have been so at one moment: a role
  taken from the user after the middleware read it still counts.
* **MapClient.** The query string names the view, filters and selection after
  every handler; a page at rest has read the server after the user's last answered
  report, unless the fetch it asked last failed or was overtaken by an older one.
* **MapClientLive.** Such a page shows its present view and filters, whichever
  fetches overlapped before, and every view the user settles on is asked for:
  debounce and boot drop none. The query string follows the moves too.

* **Audit.** A page at rest, whose last fetch neither failed nor overlapped
  another, shows one moment of the tables no older than that fetch, short of
  the limit or cut at it; whatever is clicked, drawn anew or answered late, only
  the selected row is drawn as selected.
* **Endpoints.** What a client is told is what was done: an error left no row, a
  success the row that was asked for, a lost answer at most that. A list has
  everything that had been committed when it was asked for, the history with
  its two statements and the map with its clamped box included; the header of a
  history is in its list; a list, map or history derives who is flagged from the
  flags of one moment since it was asked for, although each does so with a subquery
  of its own while flags are committed; and a server that is told to stop does.
* **Importer.** Of every document the summary accounts for each placemark once;
  nothing that only stands in folders of plundered signs is imported as
  existing, and nothing from a folder that is to be discarded; a run that fails
  anywhere leaves no location and gives the write lock back.

### Bounds, and why they are enough

* *Coordinates.* A degree is two units of the sixth decimal (`MaxLat = 200`,
  `MaxLon = 400`): positions within 0.000002 degrees of the equator, with its ties
  (`TiesDown`) where the doubles there lie. The points of `Sightings` are one that
  round-trips (110), one that is stored as 150, whose double lies above the tie, so
  in the next cell, but looked up in its own (147), and one that round-trips in that
  next cell (196), so that a lost report, its stray location and a good report of
  the same cell meet. Those of `SightingsMap` are one that is stored at another
  position and still found (8) and one that is lost downwards (52: stored as 50,
  whose double lies below the tie). Which way a tie goes is a property of the double,
  and of how many of its digits the version of SQLite takes; so the proofs cover
  all positions and every set `TiesDown`. In `Endpoints` and `Importer` no position
  is at a tie, or nothing depends on it, and the set is empty. The importer's
  `%.6f` (main.go:287) is Go's, which rounds the exact double, half to even.
* *Handlers and reports.* Two concurrent requests show every overlap of two
  pairs of statements; the third report comes before, between or after. One
  canonical location is enough to stand beside a report's own. The handlers are
  symmetric: the symmetry set is used for safety only.
* *Clock.* `MaxTime = 2` with a client time of 2 gives reports before, at and
  after each other, and a window that starts at each.
* *Flags.* Three rows reach a sum and a newest row that differ. One page with
  requests that overlap, and calls of the API by others, show the server the
  same sequences as several pages; two targets let a dialog and its button
  disagree. Page and target names are symmetric.
* *Opening.* Two processes with three calls of `Open` include a crash of either
  in the midst of the other's and a second start after it. One old user and one
  who is new; two requests, so that one of another user, or an older one, is
  there to be mistaken for. The processes are symmetric.
* *Endpoints.* Handlers that read change nothing another request could see, so
  one that reads and one that writes, beside a report, show every overlap of
  statements; that several write while a list is read is left to the proofs.
  Requests take all bodies and windows that are told apart: absent,
  malformed, in range, past it, and the boxes that lie across an edge, are out
  of order, or are missing. Three events of at most five are the limit's work. The
  report beside them is of an old location or of the one a request has just created.
* *Event list.* Two fetches overlap; a limit of two below three events; one flag
  to set, one report to come, one tick of a clock whose window is one unit.
* *Importer.* Names of folders that match one rule, two and none; placemarks
  with each ending of a description, with coordinates that are no numbers or out
  of range, and two within the distance at which locations are shared. Three
  runs, so that one follows a failed one, and three reports of the server.
* *Map page.* Two fetches under way are the least that can overlap, one lookup,
  history or POST beside them the least that can answer late; one place and two
  views tell a stale marker from a fresh one. `MapClient` fixes the view (the
  map moves in `MapClientLive`), because both at once exceed what is explored
  in minutes.

### Fairness

* `Sightings!FairSpec` is weak fairness of each handler's steps, with
  `Faulty = FALSE`: net/http runs a handler to its end, and a statement ends.
  With failures a report may be lost, and says so to its user, or not at all
  when the answer is what is lost.
* `MapClient!FairSpec` is weak fairness of the boot, of the timer, and of
  fetches being served and answered: browsers run timers and end requests.
  Nothing is assumed of the user. `ViewIsAsked` excepts a page at rest after its
  last fetch failed or was overtaken, which the code leaves stale.

* `Endpoints!FairSpec` is weak fairness of the handlers together and of the end
  of a drain: a statement ends within the busy timeout and `Shutdown` returns
  when the last handler has. Nothing is assumed of signals; the deadline of five
  seconds may cut in at any time, and need not.
* `Importer!FairSpec` is weak fairness of the program's steps, whose network and
  database calls have timeouts, and of the commit of a server's statement that
  holds the lock. Nobody has to start a run.

Deadlock is not a question here: every instance may come to rest when its
bounds are used up.

## Where the code and its documents disagree

Three runs end in a counterexample to a sentence of the repository.

* `SightingLost` (`EveryAcknowledgedReportStored`; store.go:54 "InsertSighting
  appends a new sighting"). Latitude 0.00000147 is stored as 0.0000015, whose
  double lies above the tie and rounds to 0.000002, and looked up as 0.000001: no
  row, no error, 201 with an id left by another insertion. At other ties it is the
  positions above that are lost: `RoundTripExactly` says which.
* `HistoryFilter` (`HistoryHidesInsincere`; index.html:22, app.js:704-705). The
  filter of the history works the wrong way round, and by the existence of any
  row, cleared or not.
* `ImportAppends` (`UndisturbedRunImports`; README.md:112-113). Every run of the
  importer fails on its first record: `loc.transpired` and `loc.external_id`
  (import.go:139-140) are no columns of `locations`.

Others were met while modelling and have no run of their own:

* The newest row does not decide a user's status (README.md:168-169): after two
  flags and one clearing the map (mapping.go:30) and the audit list
  (auditing.go:17, 34) still sum to a flag. `SeenTogglesAgree` is what holds.
* A default permission an operator deletes is back after any process opens the
  database (db.go:185), against db.go:19-20.
* The map moves while an earlier fetch is under way, and that one is answered last:
  the page rests on the markers of a view it has left (app.js:347; app.js:386 says
  the box tracks the viewport). `UntroubledMapTracksView` is what holds: nothing but
  this and a failed fetch leaves the page stale. The list of the moderation page does
  the same.
* A location opened from the nearby choices that the map never listed has no
  cached coordinates; its report buttons do nothing, without a word
  (app.js:660-664), although app.js:399-400 has the user confirm it.
* A cleared flag is stored as -1 (store.go:154, and the `CHECK` of
  schema.sql:131), where store.go:147, README.md:167 and store_test.go:155 say 0.
* Of two reports of one location in one second a marker may show the first
  (mapping.go:24; README.md:163-164 says the latest wins).
* `location_id` of a report is decoded and never used (handlers.go:57,
  store.go:78): when `POST /api/locations` has put a second location into the
  cell, the row may go to that one, although app.js:657 speaks of reporting
  against a location.
* The form for a new sign and the nearby choices replace an open sheet without
  clearing the selection (app.js:455, 498): the query string goes on naming a
  location that is no longer open, against app.js:119.
* `handleFlagInsincere` ignores every decoding error, where handlers.go:326
  speaks of an empty body: a body that cannot be read flags the user.
* A map without a box, or with one out of order, is answered 500; server.go:143-145
  promises that no filter is applied.
* The audit page sends `include_insincere`, which `handleListEvents` does not
  read, and the horizon it was opened with, whatever its input says since
  (audit_sightings.html:120, 231, 335-340).
* The history of a location that does not exist is answered 500: `max()` makes
  one row of NULLs of none (store.go:108), and `ErrNotFound` of store.go:111 is
  never returned.
* `POST /api/me` updates `users.called`, and empties it without a value, where
  README.md:171-172 names two mutable columns and not this one.
* `POST /api/reconciliations` inserts into a table that schema.sql does not
  create (store.go:134), and always fails.

## What is proved

Every theorem holds for every value of the constants of its module, from these
assumptions, which are about constants only and which TLC evaluates on every run.

* `Coordinates`, `RequestParams`: the bounds of latitude and longitude are whole
  units of the sixth decimal, which 90 and 180 degrees are; which ties go down is any
  set of magnitudes; the shortest window of time has a unit, and the longest is no
  shorter. `Sightings`: points are valid
  positions.
* `Startup`: there is a subject, "reporter" is a role, and no subject has two rows
  in the older table, whose schema the repository no longer has (db.go:106-109
  speaks of a subject per user).
* `Endpoints`: the rows there at the start have the columns, references and
  positions schema.sql demands, and none was written by one of the requests to
  come; parameters are numbers, absent or malformed, as `Parsed` tells them apart.
* `AuditPage`: rows of sightings have a reporter and a time, and there is one page.
* `Importer`: documents have the shape of `kmlDoc`; coordinates and dates are
  numbers where they parse.
* Everywhere: bounds are natural numbers, and markers of absence are no members of
  what they stand beside.

| Theorem | Statement |
|---|---|
| `TypeCorrect` (`SightingsProofs`, to `RefinesReportBoard`) | `Spec => []TypeOK` |
| `IInvHolds` | `Spec => []IInv` |
| `AcknowledgedReportIsStored` | `Spec => []AcknowledgedReportStored` |
| `LocationIsFirstOfItsCell` | `Spec => []FirstOfItsCell` |
| `ReportIsRecordedOnce` | `Spec => []RecordedOnce` |
| `TablesAppendOnly` | `Spec => AppendOnly` |
| `AnsweredReportIsOnTheMap` | `Spec => []AnsweredReportReachesMap` |
| `RefinesReportBoard` | `Spec => ImplementsReportBoard` |
| `OpenedIsMigrated` (`StartupProofs`, to `RefinesDirectory`) | `AccessSpec => []OpenMeansMigrated` |
| `RowIsKept` | `AccessSpec => []SubjectKeepsRow` |
| `RoleIsKept` | `AccessSpec => []RoleIsLastAssigned` |
| `SeedIsKept` | `AccessSpec => SeedNeverRotates` |
| `OnlyTheTableLetsThrough` | `AccessSpec => []LetThroughByTheTable` |
| `RequestsAreTyped` | `AccessSpec => []AccessTypeOK` |
| `RefinesDirectory` | `AccessSpec => ImplementsDirectory` |
| `AnswersAreTrue` (`EndpointsProofs`, to `ClampedBoxIsViewport`) | `FairSpec => []EffectsMatchAnswer` |
| `ReadInvariant` | `FairSpec => []ReadInv` |
| `TablesAreTyped` | `FairSpec => []TypeOK` |
| `ListsShowWhatWasCommitted` | `FairSpec => []ListsAreCurrent` |
| `HistoryAgrees` | `FairSpec => []HistoryCoversHeader` |
| `FlagsAreOfOneMoment` | `FairSpec => []FlagsOfOneMoment` |
| `ClampedBoxIsViewport` | the box a map is read with holds the valid positions of the viewport, and no other |
| `SumAgreesWithNewest` (`ModerationProofs`, to `ModerationIsTyped`) | `Spec => []SeenTogglesAgree` |
| `RowsAlternate` | `Spec => []SeenTogglesAlternate` |
| `ModerationIsTyped` | `Spec => []TypeOK` |
| `SelectionIsHighlighted` (`AuditPageProofs`, to `QuietListIsCurrent`) | `AuditSpec => []OnlySelectionHighlighted` |
| `ListImplementsModeration` | `AuditSpec => Spec` |
| `QuietListIsCurrent` | `AuditSpec => []UntroubledListIsCurrent` |
| `ImportInvariant` (`ImporterProofs`, to `GoneIsNotImported`) | `FairSpec => []ImportInv` |
| `ImportsAreTyped` | `FairSpec => []TypeOK` |
| `NoLocationLeftBehind` | `FairSpec => []NoStrayLocations` |
| `PlacemarksAccounted` | `FairSpec => []EveryPlacemarkAccounted` |
| `GoneIsNotImported` | `FairSpec => []GoneStaysGone` |
| `MapTracksView` (`MapClientProofs`, to `PageIsTyped`) | `Spec => []UntroubledMapTracksView` |
| `ReportIsShown` | `Spec => []OwnReportShows` |
| `QueryStringFollows` | `Spec => []QueryStringIsState` |
| `PageIsTyped` | `Spec => []TypeOK` |
| `RoundTripExactly`, `StoredIsValid` (`OperatorProofs`) | which reports are found again, in closed form, whichever ties go down; a stored position is valid |

Few of these properties are inductive; each proof takes an invariant through
every action, with one lemma for each action that disturbs it.

**Sightings.** That an answer names its row depends on what a handler knew before
it answered. `IInv` adds

* `References`: a handler's job, a row's serial and location, a chosen location
  and an answer name things that exist;
* `OneHandlerPerReport`: no two handlers serve one request, so that what one
  appends cannot be a second sighting of the other's report;
* `InProgress`: before the second statement no sighting has the handler's
  serial; between the statements a location matches, if the report is one that
  is found again; after the second, `rowid` names the row. It survives other
  handlers' steps because rows are only appended;
* `Faithful`: a sighting holds its report, a location is where its report's
  rounding puts it, and a chosen location is in its report's cell;
* `Positioned`: positions in the tables and of reports are valid, which rounding
  preserves (`StoredIsValid`), so that a map of the whole range leaves none out.

`SightingsProofs` takes `IInv` through each action, with one lemma for a step
that appends to no table, one for each table that grows, and lemmas on
sequences that are appended to. The refinement maps each action to `Ask`,
`Publish`, `Answer` or a stutter; `IInv` supplies that a published entry is
faithful and is the first of its request. That an answered report is on the map
(`AnsweredReportIsOnTheMap`) needs of the query only that a group with a visible
row has a newest one (`NewestExists`, `MarkerOfVisible`).

**Startup and Access.** That an open database is migrated is known to a process
through the statements it has run. `StartupInv` says so at each program counter:

* `SeedKnown`: whoever has inserted a seed finds one, and what a process read or
  cached is the seed of the table, because nothing replaces it;
* `Migration`: while the older table stands it names the owner of every row, and
  once it is dropped every opaque id is derived from the seed; a process that may
  still commit its migration holds the table as it is, for a snapshot that
  another's commit has made stale is refused;
* `UnknownAreReporters`: a subject without a row was given no role, so that the
  default of a first row is the role it should have.

`RequestInv` adds to it that a request's row is its subject's, that its role is
among those held since it came, and that the table's roles of this moment are
among those seen since.

The refinement rests on `RowsForOwner`: wherever `StartupInv` holds, the rows a
subject gets to, by the older table or by the derived id, are the rows they own.
So the first row of a subject is `Enrol`, a role that is set is `Assign`, and all
other steps, the commit that rehashes every id included, leave the accounts as
they were.

**Endpoints.** `EndpointsInv`: a request under way has written nothing and has no
status, since its one write and its answer are one step; a row names a request
that came; and an answered request wrote what its status tells. The theorem
has any number of requests that write at the same time, where the run has one.

`ReadInv` is about those that read. Tables only grow at their end, so what had been
committed when a request came is still there when its statement runs, and a row
that an answer names stays what it was. `Reads` says of each request that the body
or the parameters it was let in with were decoded, that the header of a history
under way is as new as any row of its location that was committed before, and that
an answer with status 200 is worth what the properties say. One lemma for each list
brings an answer about when it is read: `MapShows` from the clamped box and the
newest row of a group, `EventsShow` from `LimitedList`, which ranks the rows by how
many stand above them: the ranks are exactly 0 .. n - 1, so a list that leaves one
out holds `Limit` others and none of them is older. That an answer judges everybody
by the flags of one moment (`Judged`) is shown with the flags of the moment its
statement runs (`AllFlags`), and stays true because flags are only appended, so that
those of an earlier moment are always a prefix of the table (`FlagsStay`,
`JudgedStays`).

**Moderation.** The sum and the newest row agree only because of what is in
flight. `ToggleInv`: an answer, a button and a request know how many rows they
have seen; who has seen all of a user's rows holds what the newest one says, and
a button and a request its opposite; a stamped request that has seen all rows is
no older than any of them; and the user's sum is 1 or 0 as the newest row says.
A row by somebody who had seen all rows keeps this, and every other makes the
user one of `blind`.

**Event list.** Every step of the page is a step of `Moderation` or leaves its
variables alone (`ListImplementsModeration`), so that what is proved of the dialogs
holds of the composition, and its table of flags only grows. `LoadInv`: without
trouble one fetch at most is under way, and what it has read, or what was drawn once
it was answered, is the list of a moment since it was asked for. A prefix of a table
stays the same prefix when rows are appended, and the moments only become more.

**Importer.** `ImportInv`: a run works on the records its document yields, has at
least one once it is past loading, and holds the lock exactly from its first
statement to its rollback. That placemarks are accounted for is a fact about three
recursive computations on documents of any length, the concatenation of records and
two counters: `TotalSteps` and `FlattenSteps` lay out the intermediate results,
`TotalsAdd` adds counters, and `DocumentAccounted` puts folders together.

**Map page.** `MapInv` is about the fetch asked last, whatever others are under way:
there is one at most; it asks for what the page should show, unless the timer will
send another, and once served has read the server after the last answered report;
and when it has ended without trouble, the markers are its own. A fetch that boot
awaits and that fails leaves them, which is why the invariant counts from the load
and not from the end of boot.

**Types.** A type invariant is inductive except where a request gets its id: a
`CHOOSE` among as many numbers as there may be requests finds one that is free
because the requests are finitely many (`FreeIdIsFree`, `FreeIdIsNumber`: a
function that gave each number a request would be an injection into a smaller
set). The type theorems carry that finiteness along.

**Induction.** The induction theorems of the proof library take an operator as a
parameter, which no installed prover instantiates. `OperatorProofs` has
`LeastNumber`, that a set of numbers with a member has a least one, from the
finiteness of intervals, and from it `Reached`: a set that holds 0, and with m also
m + 1 up to n, holds 0 .. n. With the set of the numbers up to which a claim holds
in its place it does the work of induction for one claim at a time; so recursive
functions (`Total`, and `FlattenSeq` of the community modules) are proved about too.

Only model-checked: liveness (`ReportsLand`, `ViewIsAsked`, `DrainEnds`, `RunEnds`),
which is out of the prover's reach. The three sentences that fail
(`EveryAcknowledgedReportStored`, `HistoryHidesInsincere`, `UndisturbedRunImports`)
are refuted by TLC's counterexamples. No module has a
recursive operator.

## What is not modelled

* *Geometry* and `pluscode`: floating-point arithmetic. *Logging, wording,
  colours, drawing, assets, proxy configuration*: no state.
* *Importer*: the rest of `ImportSourceRecords` after the refused statement, its
  commit and `-dry-run` are never reached; import.go:160-214 has no caller.
* *Map page*: the sheet of a proposed report and its promotion, for `MapData`
  returns none; relocation, whose request is commented out; geolocation.
* *Identity*: the heartbeat column, which nothing reads back, and `SetConfig`,
  which no program calls.
* *Parameters*: the number NaN, which `strconv.ParseFloat` reads. A box with it passes
  the comparisons of server.go:155 and `clamp`, selects nothing, and is answered 200
  with an empty map.
* *History*: its third statement, for sightings without a location, which the
  schema forbids.

## Plan

Done first, because everything else reads what it writes: `Sightings` with
`Coordinates`, `MapQuery` and `ReportBoard`, its invariants and refinement
proved. Then `Moderation`, `Startup` with `Access` and `Directory`, and `MapClient`; then
`Endpoints` with `RequestParams` and `EventLog`, `Importer`, and `AuditPage`.
All are model-checked, and every safety property of a passing run is proved. What
is left, in this order:

1. The tables of `Endpoints` as an action property: no step changes or drops a row.
2. The safety part of the liveness properties: that a handler, a drain and a run
   that have not ended have a step to take.
