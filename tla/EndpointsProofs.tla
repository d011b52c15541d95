-------------------------- MODULE EndpointsProofs --------------------------
(***************************************************************************)
(* Theorems about Endpoints: what a client is told of a write is what was  *)
(* done, for any users, tables and bounds, and any number of requests that *)
(* write at the same time.                                                 *)
(***************************************************************************)
EXTENDS Endpoints, OperatorProofs

IsTable(t) == \E S : t \in Seq(S)

\* A request has its fields.
Typed(r) ==
  /\ DOMAIN r = {"by", "handler", "input", "seen", "flagged", "phase", "status", "header",
                 "answer"}
  /\ r.handler \in DOMAIN Permission

\* A row that has an author among the requests was written by one that came.
Signed(table) == \A k \in DOMAIN table : table[k].via \in {0} \cup DOMAIN requests

\* A request that is under way has written nothing yet: its one write and its
\* answer are one step.
Fits(i) ==
  /\ Typed(requests[i])
  /\ requests[i].phase # "done" =>
       /\ WroteNothing(i) /\ requests[i].status = Unanswered
  /\ WroteNothing(i) => \/ requests[i].status \notin {200, 201}
                        \/ requests[i].handler \notin Writing \ {"handleUpdateMe"}
  /\ ~WroteNothing(i) => requests[i].status \in {200, 201, Lost}
  /\ WroteWhatWasAsked(i)

Tables == /\ IsTable(requests) /\ IsTable(locations) /\ IsTable(flags) /\ IsTable(notes)
          /\ Signed(locations) /\ Signed(flags) /\ Signed(notes)

EndpointsInv == Tables /\ \A i \in DOMAIN requests : Fits(i)

LEMMA Empty == IsTable(<<>>) /\ DOMAIN <<>> = {}
<1>1. <<>> \in Seq({})
  OBVIOUS
<1> QED  BY <1>1 DEF IsTable

LEMMA TableAppended ==
  ASSUME NEW t, IsTable(t), NEW e
  PROVE  /\ IsTable(Append(t, e))
         /\ DOMAIN Append(t, e) = DOMAIN t \cup {Len(t) + 1}
         /\ Len(t) + 1 \notin DOMAIN t /\ Len(t) + 1 # 0
         /\ \A k \in DOMAIN t : Append(t, e)[k] = t[k]
         /\ Append(t, e)[Len(t) + 1] = e
<1>1. PICK S : t \in Seq(S)
  BY DEF IsTable
<1>2. t \in Seq(S \cup {e})
  BY <1>1
<1>3. Append(t, e) \in Seq(S \cup {e})
  BY <1>2
<1> QED  BY <1>1, <1>2, <1>3 DEF IsTable

LEMMA NumberedFromOne == ASSUME NEW t, IsTable(t) PROVE 0 \notin DOMAIN t
BY DEF IsTable

-----------------------------------------------------------------------------
(* What a request wrote.                                                   *)

LEMMA WritesKept ==
  ASSUME UNCHANGED <<locations, flags, notes>>, NEW i,
         requests'[i].by = requests[i].by, requests'[i].input = requests[i].input
  PROVE  /\ WroteNothing(i)' <=> WroteNothing(i)
         /\ WroteWhatWasAsked(i)' <=> WroteWhatWasAsked(i)
BY DEF WroteNothing, WroteWhatWasAsked, Wrote

LEMMA NothingIsAsAsked ==
  ASSUME NEW i, WroteNothing(i) PROVE WroteWhatWasAsked(i)
BY DEF WroteNothing, WroteWhatWasAsked

\* What Finish does to the requests.
LEMMA Finished ==
  ASSUME Tables, NEW i \in DOMAIN requests, Typed(requests[i]),
         NEW status \in {200, 201, 404, 500}, NEW answer, Finish(i, status, answer)
  PROVE  /\ IsTable(requests)' /\ DOMAIN requests' = DOMAIN requests
         /\ \A j \in DOMAIN requests : j # i => requests'[j] = requests[j]
         /\ Typed(requests'[i]) /\ requests'[i].phase = "done"
         /\ requests'[i].handler = requests[i].handler /\ requests'[i].by = requests[i].by
         /\ requests'[i].status \in {status, Lost}
         /\ requests'[i].status \in {200, 201, Lost} => requests'[i].input = requests[i].input
<1>1. PICK s \in {status, Lost} :
        requests' = [requests EXCEPT ![i] = Answered(requests[i], s, answer)]
  BY DEF Finish
<1> DEFINE r == Answered(requests[i], s, answer)
<1>2. DOMAIN requests[i] = {"by", "handler", "input", "seen", "flagged", "phase", "status",
                            "header", "answer"}
  BY DEF Typed
<1>3. /\ DOMAIN r = DOMAIN requests[i]
      /\ r.phase = "done" /\ r.status = s
      /\ r.by = requests[i].by /\ r.handler = requests[i].handler
      /\ s \in {200, 201, Lost} => r.input = requests[i].input
  BY <1>2 DEF Answered
<1>4. Typed(r)
  BY <1>3 DEF Typed
<1>6. requests' = [requests EXCEPT ![i] = r]
  BY <1>1
<1> HIDE DEF r
<1>5. IsTable(requests)'
  <2>1. PICK S : requests \in Seq(S)
    BY DEF Tables, IsTable
  <2>2. requests \in Seq(S \cup {r})
    BY <2>1
  <2>3. requests' \in Seq(S \cup {r})
    BY <1>6, <2>2
  <2> QED  BY <2>3 DEF IsTable
<1> QED  BY <1>3, <1>4, <1>5, <1>6 DEF Tables, IsTable

\* A handler that returns having written nothing.
LEMMA QuietFinish ==
  ASSUME EndpointsInv, UNCHANGED <<locations, flags, notes>>,
         NEW i \in DOMAIN requests, requests[i].phase # "done",
         NEW status \in {200, 201, 404, 500}, NEW answer, Finish(i, status, answer),
         status \in {200, 201} => requests[i].handler \notin Writing \ {"handleUpdateMe"}
  PROVE  EndpointsInv'
<1>1. Tables /\ Fits(i) /\ Typed(requests[i]) /\ WroteNothing(i)
  BY DEF EndpointsInv, Fits
<1>2. Tables'
  BY <1>1, Finished DEF Tables, Signed
<1>3. ASSUME NEW j \in DOMAIN requests', j # i PROVE Fits(j)'
  <2>1. requests'[j] = requests[j] /\ Fits(j)
    BY <1>1, <1>3, Finished DEF EndpointsInv
  <2> QED  BY <2>1, WritesKept DEF Fits
<1>4. Fits(i)'
  <2>1. WroteNothing(i)'
    BY <1>1 DEF WroteNothing, Wrote
  <2>2. WroteWhatWasAsked(i)'
    BY <2>1 DEF WroteNothing, WroteWhatWasAsked
  <2> QED  BY <1>1, <2>1, <2>2, Finished DEF Fits, Lost
<1> QED  BY <1>2, <1>3, <1>4 DEF EndpointsInv

-----------------------------------------------------------------------------
(* Handlers that write a row.                                              *)

\* An INSERT of a row, kept from being expanded.
Inserted(t, row, u) == u = Append(t, row)

\* A row appended for request i is its own and of no other request.
LEMMA AppendedRow ==
  ASSUME NEW t, IsTable(t), NEW i, NEW row, row.via = i, NEW u, Inserted(t, row, u)
  PROVE  /\ \E n : Wrote(i, u) = Wrote(i, t) \cup {n} /\ u[n] = row
         /\ \A j : j # i => Wrote(j, u) = Wrote(j, t)
         /\ \A j : \A k \in Wrote(j, t) : u[k] = t[k]
<1>1. /\ DOMAIN u = DOMAIN t \cup {Len(t) + 1} /\ Len(t) + 1 \notin DOMAIN t
      /\ u[Len(t) + 1] = row
      /\ \A k \in DOMAIN t : u[k] = t[k]
  BY TableAppended DEF Inserted
<1>2. Wrote(i, u) = Wrote(i, t) \cup {Len(t) + 1}
  BY <1>1 DEF Wrote
<1>3. ASSUME NEW j, j # i PROVE Wrote(j, u) = Wrote(j, t)
  BY <1>1, <1>3 DEF Wrote
<1>4. ASSUME NEW j, NEW k \in Wrote(j, t) PROVE u[k] = t[k]
  BY <1>1 DEF Wrote
<1> QED  BY <1>1, <1>2, <1>3, <1>4

\* The table grows for a request, or stays.
Grows(i, t, u) == u = t \/ \E row : row.via = i /\ Inserted(t, row, u)

\* What request i appends leaves every other request as it was.
LEMMA OthersFit ==
  ASSUME EndpointsInv, NEW i, NEW j \in DOMAIN requests, j # i,
         requests'[j] = requests[j],
         Grows(i, locations, locations'), Grows(i, flags, flags'),
         Grows(i, notes, notes')
  PROVE  Fits(j)'
<1>1. ASSUME NEW t, NEW u, IsTable(t), Grows(i, t, u)
      PROVE  Wrote(j, u) = Wrote(j, t) /\ \A k \in Wrote(j, t) : u[k] = t[k]
  <2>1. CASE u = t
    BY <2>1
  <2>2. ASSUME NEW row, row.via = i, Inserted(t, row, u)
        PROVE  Wrote(j, u) = Wrote(j, t) /\ \A k \in Wrote(j, t) : u[k] = t[k]
    BY <1>1, <2>2, AppendedRow
  <2> QED  BY <1>1, <2>1, <2>2 DEF Grows
<1>2. /\ Wrote(j, locations') = Wrote(j, locations)
      /\ \A k \in Wrote(j, locations) : locations'[k] = locations[k]
  BY <1>1 DEF EndpointsInv, Tables
<1>3. /\ Wrote(j, flags') = Wrote(j, flags)
      /\ \A k \in Wrote(j, flags) : flags'[k] = flags[k]
  BY <1>1 DEF EndpointsInv, Tables
<1>4. /\ Wrote(j, notes') = Wrote(j, notes)
      /\ \A k \in Wrote(j, notes) : notes'[k] = notes[k]
  BY <1>1 DEF EndpointsInv, Tables
<1>5. WroteNothing(j)' <=> WroteNothing(j)
  BY <1>2, <1>3, <1>4 DEF WroteNothing
<1>6. WroteWhatWasAsked(j)' <=> WroteWhatWasAsked(j)
  BY <1>2, <1>3, <1>4 DEF WroteWhatWasAsked
<1>7. Fits(j)
  BY DEF EndpointsInv
<1> QED  BY <1>5, <1>6, <1>7 DEF Fits

LEMMA TablesGrow ==
  ASSUME EndpointsInv, NEW i \in DOMAIN requests, IsTable(requests)',
         DOMAIN requests' = DOMAIN requests,
         Grows(i, locations, locations'), Grows(i, flags, flags'),
         Grows(i, notes, notes')
  PROVE  Tables'
<1>1. ASSUME NEW t, NEW u, IsTable(t), Signed(t), Grows(i, t, u)
      PROVE  IsTable(u) /\ \A k \in DOMAIN u : u[k].via \in {0} \cup DOMAIN requests
  <2>1. CASE u = t
    BY <1>1, <2>1 DEF Signed
  <2>2. ASSUME NEW row, row.via = i, Inserted(t, row, u)
        PROVE  IsTable(u) /\ \A k \in DOMAIN u : u[k].via \in {0} \cup DOMAIN requests
    <3>1. /\ IsTable(u) /\ DOMAIN u = DOMAIN t \cup {Len(t) + 1}
          /\ u[Len(t) + 1] = row /\ \A k \in DOMAIN t : u[k] = t[k]
      BY <1>1, <2>2, TableAppended DEF Inserted
    <3> QED  BY <1>1, <2>2, <3>1 DEF Signed
  <2> QED  BY <1>1, <2>1, <2>2 DEF Grows
<1> QED  BY <1>1 DEF EndpointsInv, Tables, Signed

LEMMA InsertCanonicalKeeps ==
  ASSUME EndpointsInv, NEW i \in DOMAIN requests, InsertCanonical(i)
  PROVE  EndpointsInv'
<1> DEFINE at == requests[i].input.body
           row == [lat |-> at.lat, lon |-> at.lon, at |-> Now,
                   creator |-> requests[i].by, via |-> i]
<1>1. /\ locations' = Append(locations, row) /\ UNCHANGED <<flags, notes>>
      /\ Finish(i, 201, {}) /\ requests[i].phase = "store"
  BY DEF InsertCanonical, AtStore
<1>2. Tables /\ Typed(requests[i]) /\ WroteNothing(i)
  BY <1>1 DEF EndpointsInv, Fits
<1>3. /\ Grows(i, locations, locations') /\ Grows(i, flags, flags')
      /\ Grows(i, notes, notes')
  BY <1>1 DEF Grows, Inserted
<1>4. /\ IsTable(requests)' /\ DOMAIN requests' = DOMAIN requests
      /\ \A j \in DOMAIN requests : j # i => requests'[j] = requests[j]
      /\ Typed(requests'[i]) /\ requests'[i].phase = "done"
      /\ requests'[i].by = requests[i].by
      /\ requests'[i].status \in {201, Lost} /\ requests'[i].input = requests[i].input
  BY <1>1, <1>2, Finished
<1>5. Fits(i)'
  <2>1. /\ \E n : Wrote(i, locations') = {n} /\ locations'[n] = row
        /\ Wrote(i, flags') = {} /\ Wrote(i, notes') = {}
    <3>1. IsTable(locations) /\ row.via = i
      BY <1>2 DEF Tables
    <3>2. Wrote(i, locations) = {} /\ Wrote(i, flags) = {} /\ Wrote(i, notes) = {}
      BY <1>2 DEF WroteNothing
    <3> HIDE DEF row
    <3>3. Inserted(locations, row, locations') /\ flags' = flags /\ notes' = notes
      BY <1>1 DEF row, Inserted
    <3>4. PICK n : /\ Wrote(i, locations') = Wrote(i, locations) \cup {n}
                   /\ locations'[n] = row
      BY <3>1, <3>3, AppendedRow, SMTT(60)
    <3>5. Wrote(i, locations') = {n}
      BY <3>2, <3>4
    <3>6. Wrote(i, flags') = {} /\ Wrote(i, notes') = {}
      BY <3>2, <3>3
    <3> QED  BY <3>4, <3>5, <3>6
  <2>2. ~WroteNothing(i)'
    BY <2>1 DEF WroteNothing
  <2>3. WroteWhatWasAsked(i)'
    BY <1>4, <2>1 DEF WroteWhatWasAsked
  <2> QED  BY <1>4, <2>2, <2>3 DEF Fits
<1> QED  BY <1>3, <1>4, <1>5, OthersFit, TablesGrow DEF EndpointsInv

LEMMA SetInsincereKeeps ==
  ASSUME EndpointsInv, NEW i \in DOMAIN requests, SetInsincere(i)
  PROVE  EndpointsInv'
<1> DEFINE row == [target |-> requests[i].input.target, via |-> i,
                   value |-> IF Insincere(requests[i]) THEN 1 ELSE -1]
<1>1. /\ flags' = Append(flags, row) /\ UNCHANGED <<locations, notes>>
      /\ Finish(i, 200, {}) /\ requests[i].phase = "store"
  BY DEF SetInsincere, AtStore
<1>2. Tables /\ Typed(requests[i]) /\ WroteNothing(i)
  BY <1>1 DEF EndpointsInv, Fits
<1>3. /\ Grows(i, locations, locations') /\ Grows(i, flags, flags')
      /\ Grows(i, notes, notes')
  BY <1>1 DEF Grows, Inserted
<1>4. /\ IsTable(requests)' /\ DOMAIN requests' = DOMAIN requests
      /\ \A j \in DOMAIN requests : j # i => requests'[j] = requests[j]
      /\ Typed(requests'[i]) /\ requests'[i].phase = "done"
      /\ requests'[i].by = requests[i].by
      /\ requests'[i].status \in {200, Lost} /\ requests'[i].input = requests[i].input
  BY <1>1, <1>2, Finished
<1>5. Fits(i)'
  <2>1. /\ \E n : Wrote(i, flags') = {n} /\ flags'[n] = row
        /\ Wrote(i, locations') = {} /\ Wrote(i, notes') = {}
    <3>1. IsTable(flags) /\ row.via = i
      BY <1>2 DEF Tables
    <3>2. Wrote(i, locations) = {} /\ Wrote(i, flags) = {} /\ Wrote(i, notes) = {}
      BY <1>2 DEF WroteNothing
    <3> HIDE DEF row
    <3>3. Inserted(flags, row, flags') /\ locations' = locations /\ notes' = notes
      BY <1>1 DEF row, Inserted
    <3>4. PICK n : Wrote(i, flags') = Wrote(i, flags) \cup {n} /\ flags'[n] = row
      BY <3>1, <3>3, AppendedRow, SMTT(60)
    <3>5. Wrote(i, flags') = {n}
      BY <3>2, <3>4
    <3>6. Wrote(i, locations') = {} /\ Wrote(i, notes') = {}
      BY <3>2, <3>3
    <3> QED  BY <3>4, <3>5, <3>6
  <2>2. ~WroteNothing(i)'
    BY <2>1 DEF WroteNothing
  <2>3. WroteWhatWasAsked(i)'
    BY <1>4, <2>1 DEF WroteWhatWasAsked
  <2> QED  BY <1>4, <2>2, <2>3 DEF Fits
<1> QED  BY <1>3, <1>4, <1>5, OthersFit, TablesGrow DEF EndpointsInv

LEMMA AddNoteKeeps ==
  ASSUME EndpointsInv, NEW i \in DOMAIN requests, AddNote(i)
  PROVE  EndpointsInv'
<1> DEFINE row == [target |-> requests[i].input.target, author |-> requests[i].by,
                   note |-> requests[i].input.body, via |-> i]
<1>1. /\ notes' = Append(notes, row) /\ UNCHANGED <<locations, flags>>
      /\ Finish(i, 201, {}) /\ requests[i].phase = "store"
  BY DEF AddNote, AtStore
<1>2. Tables /\ Typed(requests[i]) /\ WroteNothing(i)
  BY <1>1 DEF EndpointsInv, Fits
<1>3. /\ Grows(i, locations, locations') /\ Grows(i, flags, flags')
      /\ Grows(i, notes, notes')
  BY <1>1 DEF Grows, Inserted
<1>4. /\ IsTable(requests)' /\ DOMAIN requests' = DOMAIN requests
      /\ \A j \in DOMAIN requests : j # i => requests'[j] = requests[j]
      /\ Typed(requests'[i]) /\ requests'[i].phase = "done"
      /\ requests'[i].by = requests[i].by
      /\ requests'[i].status \in {201, Lost} /\ requests'[i].input = requests[i].input
  BY <1>1, <1>2, Finished
<1>5. Fits(i)'
  <2>1. /\ \E n : Wrote(i, notes') = {n} /\ notes'[n] = row
        /\ Wrote(i, locations') = {} /\ Wrote(i, flags') = {}
    <3>1. IsTable(notes) /\ row.via = i
      BY <1>2 DEF Tables
    <3>2. Wrote(i, locations) = {} /\ Wrote(i, notes) = {} /\ Wrote(i, flags) = {}
      BY <1>2 DEF WroteNothing
    <3> HIDE DEF row
    <3>3. Inserted(notes, row, notes') /\ locations' = locations /\ flags' = flags
      BY <1>1 DEF row, Inserted
    <3>4. PICK n : Wrote(i, notes') = Wrote(i, notes) \cup {n} /\ notes'[n] = row
      BY <3>1, <3>3, AppendedRow, SMTT(60)
    <3>5. Wrote(i, notes') = {n}
      BY <3>2, <3>4
    <3>6. Wrote(i, locations') = {} /\ Wrote(i, flags') = {}
      BY <3>2, <3>3
    <3> QED  BY <3>4, <3>5, <3>6
  <2>2. ~WroteNothing(i)'
    BY <2>1 DEF WroteNothing
  <2>3. WroteWhatWasAsked(i)'
    BY <1>4, <2>1 DEF WroteWhatWasAsked
  <2> QED  BY <1>4, <2>2, <2>3 DEF Fits
<1> QED  BY <1>3, <1>4, <1>5, OthersFit, TablesGrow DEF EndpointsInv

-----------------------------------------------------------------------------
(* The other steps.                                                        *)

LEMMA HandleKeeps ==
  ASSUME EndpointsInv, NEW i \in DOMAIN requests, Handle(i)
  PROVE  EndpointsInv'
<1>1. CASE SetUserCalled(i)
  BY <1>1, QuietFinish DEF SetUserCalled, AtStore
<1>2. CASE UnknownUser(i)
  BY <1>2, QuietFinish DEF UnknownUser, AtStore, tables
<1>3. CASE ReadList(i)
  BY <1>3, QuietFinish DEF ReadList, AtStore, tables, Writing
<1>4. CASE GetNoLocation(i)
  BY <1>4, QuietFinish DEF GetNoLocation, AtStore, tables
<1>5. CASE ListHistory(i)
  BY <1>5, QuietFinish DEF ListHistory, tables, Writing
<1>6. CASE FailReconciliation(i)
  BY <1>6, QuietFinish DEF FailReconciliation, tables
<1>7. CASE Fail(i)
  BY <1>7, QuietFinish DEF Fail, tables
<1>8. CASE GetLocation(i)
  <2>1. PICK s : requests' = [requests EXCEPT ![i] =
                                [@ EXCEPT !.phase = "located", !.header = s]]
    BY <1>8 DEF GetLocation
  <2>2. UNCHANGED <<locations, flags, notes>> /\ requests[i].phase = "store"
    BY <1>8 DEF GetLocation, AtStore, tables
  <2> DEFINE r == [requests[i] EXCEPT !.phase = "located", !.header = s]
  <2>3. Tables /\ Fits(i) /\ Typed(requests[i]) /\ WroteNothing(i)
    BY <2>2 DEF EndpointsInv, Fits
  <2>4. /\ Typed(r) /\ r.by = requests[i].by /\ r.input = requests[i].input
        /\ r.status = Unanswered
    BY <2>2, <2>3 DEF Typed, Fits
  <2>5. requests' = [requests EXCEPT ![i] = r]
    BY <2>1
  <2> HIDE DEF r
  <2>6. Tables'
    <3>1. PICK S : requests \in Seq(S)
      BY <2>3 DEF Tables, IsTable
    <3>2. requests \in Seq(S \cup {r})
      BY <3>1
    <3>3. requests' \in Seq(S \cup {r}) /\ DOMAIN requests' = DOMAIN requests
      BY <2>5, <3>2
    <3>4. IsTable(requests')
      BY <3>3 DEF IsTable
    <3> QED  BY <2>2, <2>3, <3>3, <3>4 DEF Tables, Signed
  <2>7. ASSUME NEW j \in DOMAIN requests' PROVE Fits(j)'
    <3>1. CASE j # i
      <4>1. requests'[j] = requests[j] /\ Fits(j)
        BY <2>5, <3>1 DEF EndpointsInv
      <4> QED  BY <2>2, <4>1, WritesKept DEF Fits
    <3>2. CASE j = i
      <4>1. requests'[i] = r
        BY <2>5
      <4>2. WroteNothing(i)'
        BY <2>2, <2>3 DEF WroteNothing
      <4>3. WroteWhatWasAsked(i)'
        BY <4>2 DEF WroteNothing, WroteWhatWasAsked
      <4> QED  BY <2>4, <3>2, <4>1, <4>2, <4>3 DEF Fits, Unanswered
    <3> QED  BY <3>1, <3>2
  <2> QED  BY <2>6, <2>7 DEF EndpointsInv
<1> QED  BY <1>1, <1>2, <1>3, <1>4, <1>5, <1>6, <1>7, <1>8, InsertCanonicalKeeps,
            SetInsincereKeeps, AddNoteKeeps DEF Handle

LEMMA AcceptKeeps ==
  ASSUME EndpointsInv, NEW u \in Users, NEW h \in DOMAIN Permission, Accept(u, h)
  PROVE  EndpointsInv'
<1>1. PICK q \in Inputs[h] :
        requests' = Append(requests,
          [by |-> u, handler |-> h,
           input |-> IF Verdict(u, h, q) = Unanswered THEN q ELSE Absent,
           seen |-> Len(sightings), flagged |-> Len(flags),
           phase |-> IF Verdict(u, h, q) = Unanswered THEN "store" ELSE "done",
           status |-> Verdict(u, h, q), header |-> 0, answer |-> {}])
  BY DEF Accept
<1> DEFINE r == [by |-> u, handler |-> h,
                 input |-> IF Verdict(u, h, q) = Unanswered THEN q ELSE Absent,
                 seen |-> Len(sightings), flagged |-> Len(flags),
                 phase |-> IF Verdict(u, h, q) = Unanswered THEN "store" ELSE "done",
                 status |-> Verdict(u, h, q), header |-> 0, answer |-> {}]
<1> PICK new : new = Len(requests) + 1
  OBVIOUS
<1>2. UNCHANGED <<locations, flags, notes>> /\ Tables
  BY DEF Accept, tables, EndpointsInv
<1>3. /\ Typed(r) /\ r.status = Verdict(u, h, q) /\ r.handler = h
      /\ r.phase # "done" => r.status = Unanswered
  BY DEF Typed
<1>4. /\ Verdict(u, h, q) # 201
      /\ Verdict(u, h, q) = 200 => h \in {"handleMe", "handlePing"}
  BY DEF Verdict, Unanswered
<1>5. requests' = Append(requests, r)
  BY <1>1
<1> HIDE DEF r
<1>6. /\ IsTable(requests') /\ DOMAIN requests' = DOMAIN requests \cup {new}
      /\ new \notin DOMAIN requests /\ new # 0
      /\ \A j \in DOMAIN requests : requests'[j] = requests[j]
      /\ requests'[new] = r
  BY <1>2, <1>5, TableAppended DEF Tables
<1>7. Tables'
  BY <1>2, <1>6 DEF Tables, Signed
<1>8. ASSUME NEW j \in DOMAIN requests PROVE Fits(j)'
  <2>1. requests'[j] = requests[j] /\ Fits(j)
    BY <1>6 DEF EndpointsInv
  <2> QED  BY <1>2, <2>1, WritesKept DEF Fits
\* No row names a request that had not come.
<1>9. Fits(new)'
  <2>1. WroteNothing(new)'
    BY <1>2, <1>6 DEF WroteNothing, Wrote, Tables, Signed
  <2>2. WroteWhatWasAsked(new)'
    BY <2>1 DEF WroteNothing, WroteWhatWasAsked
  <2> QED  BY <1>3, <1>4, <1>6, <2>1, <2>2 DEF Fits, Writing
<1> QED  BY <1>6, <1>7, <1>8, <1>9 DEF EndpointsInv

\* What is cut off is answered by nobody; it has written nothing.
LEMMA CutKeeps == ASSUME EndpointsInv, Cut PROVE EndpointsInv'
<1>1. UNCHANGED <<locations, flags, notes>> /\ Tables
  BY DEF Cut, tables, EndpointsInv
<1> DEFINE cut(i) == [requests[i] EXCEPT !.phase = "done", !.status = Lost]
<1>2. requests' = [i \in DOMAIN requests |-> IF requests[i].phase = "done" THEN requests[i]
                                             ELSE cut(i)]
  BY DEF Cut
<1>3. ASSUME NEW i \in DOMAIN requests
      PROVE  /\ Typed(cut(i)) /\ cut(i).by = requests[i].by
             /\ cut(i).input = requests[i].input
             /\ cut(i).status = Lost /\ cut(i).phase = "done"
  BY DEF EndpointsInv, Fits, Typed
<1> HIDE DEF cut
<1>4. Tables'
  <2>1. PICK S : requests \in Seq(S)
    BY <1>1 DEF Tables, IsTable
  <2>2. requests' \in [1 .. Len(requests) -> S \cup {cut(i) : i \in DOMAIN requests}]
    BY <1>2, <2>1
  <2>3. requests' \in Seq(S \cup {cut(i) : i \in DOMAIN requests})
    BY <2>1, <2>2
  <2>4. IsTable(requests') /\ DOMAIN requests' = DOMAIN requests
    BY <1>2, <2>3 DEF IsTable
  <2> QED  BY <1>1, <2>4 DEF Tables, Signed
<1>5. ASSUME NEW j \in DOMAIN requests' PROVE Fits(j)'
  <2>1. j \in DOMAIN requests /\ Fits(j)
    BY <1>2 DEF EndpointsInv
  <2>2. requests'[j].by = requests[j].by /\ requests'[j].input = requests[j].input
    BY <1>2, <1>3, <2>1
  <2>3. /\ WroteNothing(j)' <=> WroteNothing(j)
        /\ WroteWhatWasAsked(j)' <=> WroteWhatWasAsked(j)
    BY <1>1, <2>2, WritesKept
  <2> QED  BY <1>2, <1>3, <2>1, <2>3 DEF Fits, Lost
<1> QED  BY <1>4, <1>5 DEF EndpointsInv

LEMMA RequestsKept ==
  ASSUME EndpointsInv, UNCHANGED <<locations, flags, notes, requests>>
  PROVE  EndpointsInv'
BY WritesKept DEF EndpointsInv, Tables, Signed, Fits

LEMMA InitFits == Init => EndpointsInv
<1> SUFFICES ASSUME Init PROVE EndpointsInv
  OBVIOUS
<1>1. /\ requests = <<>> /\ notes = <<>> /\ locations = OldLocations /\ flags = OldFlags
  BY DEF Init
<1>3. /\ IsTable(locations) /\ IsTable(flags)
      /\ \A k \in DOMAIN locations : locations[k].via = 0
      /\ \A k \in DOMAIN flags : flags[k].via = 0
  BY <1>1, EndpointsAssumption DEF IsTable
<1> QED  BY <1>1, <1>3, Empty DEF EndpointsInv, Tables, Signed

\* Every request that is answered has written what its answer tells, and every
\* request under way nothing (handlers.go, store.go).
THEOREM EndpointsInvariant == FairSpec => []EndpointsInv
<1>1. EndpointsInv /\ [Next]_vars => EndpointsInv'
  <2> SUFFICES ASSUME EndpointsInv, [Next]_vars PROVE EndpointsInv'
    OBVIOUS
  <2>1. ASSUME NEW u \in Users, NEW h \in DOMAIN Permission, Accept(u, h)
        PROVE  EndpointsInv'
    BY <2>1, AcceptKeeps
  <2>2. ASSUME NEW i \in DOMAIN requests, Handle(i) PROVE EndpointsInv'
    BY <2>2, HandleKeeps
  <2>3. CASE Cut
    BY <2>3, CutKeeps
  <2>4. CASE (\E s \in NewSightings : ReportArrives(s)) \/ Signal \/ Drained
    BY <2>4, RequestsKept DEF ReportArrives, Signal, Drained, tables
  <2>5. CASE UNCHANGED vars
    BY <2>5, RequestsKept DEF vars
  <2> QED  BY <2>1, <2>2, <2>3, <2>4, <2>5 DEF Next
<1> QED  BY <1>1, InitFits, PTL DEF FairSpec

\* What a client is told is what was done, whatever else ran, failed or was cut
\* off meanwhile (EffectsMatchAnswer).
THEOREM AnswersAreTrue == FairSpec => []EffectsMatchAnswer
<1>1. EndpointsInv => EffectsMatchAnswer
  BY DEF EndpointsInv, Fits, EffectsMatchAnswer
<1> QED  BY <1>1, EndpointsInvariant, PTL

-----------------------------------------------------------------------------
(* What a list shows.                                                      *)

\* The rows of the tables, and the rows they refer to.
RowsTyped ==
  /\ locations \in Seq(Location) /\ sightings \in Seq(Sighting) /\ flags \in Seq(Flag)
  /\ \A l \in DOMAIN locations : ValidLatLon(locations[l])
  /\ \A s \in DOMAIN sightings : sightings[s].location \in DOMAIN locations
  /\ \A k \in DOMAIN notes : {notes[k].target, notes[k].author} \subseteq Users
  /\ server \in {"up", "draining", "down"}

Box == [minLat : Int, maxLat : Int, minLon : Int, maxLon : Int]
Position == [lat : Int, lon : Int]

\* What a request was found to hold before it got to the store.
Decoded(r) ==
  /\ r.handler = "handleCreateLocation" =>
       r.input.body \in Positions /\ ValidLatLon(r.input.body)
  /\ r.handler = "handleLocationHistory" => r.input \in HistoryQueries
  /\ r.handler = "handleMap" => r.input \in MapQueries /\ ~BoxRefused(r.input.box)

Current(r) == \A s \in 1 .. r.seen : AsksFor(r, s) => Shows(r, s)

\* The rows an answer names exist.
NamesRows(r) ==
  /\ r.handler = "handleMap" => \A m \in r.answer : m[2] \in DOMAIN sightings
  /\ r.handler = "handleLocationHistory" => r.answer \subseteq DOMAIN sightings
  /\ r.handler = "handleListEvents" =>
       \A e \in r.answer : e.id \in IF e.type = "sighting" THEN DOMAIN sightings
                                                       ELSE DOMAIN locations

\* FlagsOfOneMoment for one answer.
Judged(r) == \E n \in r.flagged .. Len(flags) : JudgesBy(r, n)

\* server.go:158-163: of the valid positions, the box of a viewport that meets
\* the range holds exactly those of the viewport: clamping hides no marker and
\* adds none.
THEOREM ClampedBoxIsViewport ==
  ASSUME NEW q \in Box, MeetsRange(q), NEW p \in Position, ValidLatLon(p)
  PROVE  InBox(p, ParseBBox(q)) <=> InBox(p, q)
<1> /\ MaxLat \in Int /\ MaxLon \in Int
  BY BoundsAssumption
<1> DEFINE Near(v, max) == Clamp(v, -max, max)
<1>1. ASSUME NEW v \in Int, NEW w \in Int, NEW x \in Int, NEW max \in Int,
             v <= max, -max <= w, -max <= x, x <= max
      PROVE  Near(v, max) <= x /\ x <= Near(w, max) <=> v <= x /\ x <= w
  BY <1>1 DEF Clamp
<1> HIDE DEF Near
<1>2. ParseBBox(q) = [minLat |-> Near(q.minLat, MaxLat), maxLat |-> Near(q.maxLat, MaxLat),
                      minLon |-> Near(q.minLon, MaxLon), maxLon |-> Near(q.maxLon, MaxLon)]
  BY DEF ParseBBox, Near
<1>3. Near(q.minLat, MaxLat) <= p.lat /\ p.lat <= Near(q.maxLat, MaxLat)
        <=> q.minLat <= p.lat /\ p.lat <= q.maxLat
  BY <1>1 DEF MeetsRange, ValidLatLon, Box, Position
<1>4. Near(q.minLon, MaxLon) <= p.lon /\ p.lon <= Near(q.maxLon, MaxLon)
        <=> q.minLon <= p.lon /\ p.lon <= q.maxLon
  BY <1>1 DEF MeetsRange, ValidLatLon, Box, Position
<1> QED  BY <1>2, <1>3, <1>4 DEF InBox

LEMMA RowTimes ==
  ASSUME RowsTyped
  PROVE  /\ \A l \in DOMAIN locations : locations[l] \in Location /\ locations[l].at \in Int
         /\ \A s \in DOMAIN sightings : sightings[s] \in Sighting /\ sightings[s].at \in Int
<1>1. /\ \A l \in DOMAIN locations : locations[l] \in Location
      /\ \A s \in DOMAIN sightings : sightings[s] \in Sighting
  BY SeqElement DEF RowsTyped
<1> QED
  BY <1>1 DEF Location, Sighting

\* GET /api/events: a sighting of the window is listed, or Limit rows are and
\* none of them is older.
LEMMA EventsShow ==
  ASSUME RowsTyped, NEW since, NEW s \in DOMAIN sightings, sightings[s].at >= since,
         NEW answer, answer = AuditEventsSince(locations, sightings, flags, since, Limit)
  PROVE  \/ \E e \in answer : e.type = "sighting" /\ e.id = s
         \/ Cardinality(answer) = Limit /\ \A e \in answer : e.at >= sightings[s].at
<1> DEFINE all == Interleaved(locations, sightings, flags, since)
           e == Event("sighting", s, sightings[s].reporter, sightings[s].at, flags)
<1>1. e \in all /\ e.type = "sighting" /\ e.id = s /\ e.at = sightings[s].at
  BY DEF Interleaved, SightingsSince, Event
<1>2. IsFiniteSet(all) /\ (\A f \in all : IsEvent(f)) /\ Distinct(all)
  BY RowTimes, InterleavedRows DEF RowsTyped
<1>3. answer = {f \in all : Cardinality({g \in all : Above(g, f)}) < Limit}
  BY DEF AuditEventsSince
<1>4. Limit \in Nat
  BY EndpointsAssumption
<1> HIDE DEF all, e
<1>5. e \in answer \/ (Cardinality(answer) = Limit /\ \A f \in answer : f.at >= e.at)
  BY <1>1, <1>2, <1>3, <1>4, LimitedList
<1> QED
  BY <1>1, <1>5

\* GET /api/map: a location of the viewport with a sighting in the window that is
\* not hidden has a marker, which is not older.
LEMMA MapShows ==
  ASSUME RowsTyped, NEW q \in MapQueries, ~BoxRefused(q.box), NEW since, NEW s \in DOMAIN sightings,
         InBox(locations[sightings[s].location], q.box),
         NEW ask, ask.box = ParseBBox(q.box), ask.since = since, ask.includeMissing,
         Visible(sightings[s], flags, since, ask.includeInsincere),
         NEW answer, answer = Markers(locations, sightings, flags, ask)
  PROVE  \E m \in answer : /\ m[1] = sightings[s].location
                           /\ sightings[m[2]].at >= sightings[s].at
<1> DEFINE l == sightings[s].location
           rows == MarkerRows(l, sightings, flags, since, ask.includeInsincere)
<1>1. l \in DOMAIN locations /\ locations[l] \in Location /\ ValidLatLon(locations[l])
  BY RowTimes DEF RowsTyped
<1>2. InBox(locations[l], ask.box)
  <2> DEFINE p == [lat |-> locations[l].lat, lon |-> locations[l].lon]
             b == q.box
  <2>1. p \in Position /\ ValidLatLon(p) /\ p.lat = locations[l].lat /\ p.lon = locations[l].lon
    BY <1>1 DEF Location, Position, ValidLatLon
  <2>2. b \in Box
    BY EndpointsAssumption DEF Viewport, Parameter, BoxRefused, Parsed, Box
  <2>3. InBox(p, b)
    BY <2>1 DEF InBox
  <2> HIDE DEF p, b
  <2>4. MeetsRange(b)
    BY <2>1, <2>2, <2>3, BoundsAssumption DEF Box, Position, InBox, ValidLatLon, MeetsRange
  <2>5. InBox(p, ParseBBox(b))
    BY <2>1, <2>2, <2>3, <2>4, ClampedBoxIsViewport
  <2> QED
    BY <2>1, <2>5 DEF b, InBox
<1>3. Visible(sightings[s], flags, since, ask.includeInsincere)
  OBVIOUS
<1>4. /\ rows # {} /\ \A k \in rows : sightings[k].at >= sightings[s].at
  BY <1>3, RowTimes, MarkerOfVisible DEF RowsTyped
<1>5. rows \subseteq DOMAIN sightings
  BY DEF MarkerRows, Group
<1>6. PICK k \in rows : sightings[k].at >= sightings[s].at
  BY <1>4
<1>7. <<l, k>> \in answer
  BY <1>1, <1>2, <1>5, <1>6 DEF Markers
<1> QED
  BY <1>6, <1>7

\* A history's header is as new as any sighting of its location that had been
\* committed when the history was asked for.
Headed(r) ==
  /\ r.header \in DOMAIN sightings
  /\ sightings[r.header].location = r.input.id
  /\ \A s \in 1 .. r.seen :
        sightings[s].location = r.input.id => sightings[s].at <= sightings[r.header].at

\* HistoryCoversHeader for one answer.
Covers(r) ==
  /\ \/ r.input.includeInsincere
     \/ sightings[r.header].at < ParseSince(r.input.window, 365, Now)
     \/ r.header \in r.answer
  /\ \A s \in r.answer : sightings[s].at > sightings[r.header].at => s > r.seen

\* What an answer with status 200 is worth.
Told(r) == /\ Decoded(r) /\ Current(r) /\ NamesRows(r) /\ Judged(r)
           /\ r.handler = "handleLocationHistory" => Headed(r) /\ Covers(r)

Reads(r) ==
  /\ r.by \in Users /\ r.header \in Nat
  /\ r.seen \in 0 .. Len(sightings) /\ r.flagged \in 0 .. Len(flags)
  /\ r.phase \in {"store", "located", "done"}
  /\ r.status \in {Unanswered, Lost, 200, 201, 400, 403, 404, 500}
  /\ r.phase # "done" => Decoded(r)
  /\ r.phase = "located" /\ r.handler = "handleLocationHistory" => Headed(r)
  /\ r.status = 200 => Told(r)

ReadInv == EndpointsInv /\ RowsTyped /\ \A i \in DOMAIN requests : Reads(requests[i])

-----------------------------------------------------------------------------
(* What stays true of an answer while the tables grow.                     *)

TablesExtend == /\ Extends(locations, locations') /\ Extends(sightings, sightings')
                /\ Extends(flags, flags')

LEMMA Prefix ==
  ASSUME NEW n \in 0 .. Len(sightings), RowsTyped, TablesExtend
  PROVE  /\ 1 .. n \subseteq DOMAIN sightings
         /\ \A s \in DOMAIN sightings :
              /\ sightings'[s] = sightings[s]
              /\ locations'[sightings[s].location] = locations[sightings[s].location]
BY DEF RowsTyped, TablesExtend, Extends

LEMMA AskStays ==
  ASSUME RowsTyped, TablesExtend, NEW s \in DOMAIN sightings, NEW r
  PROVE  AsksFor(r, s)' <=> AsksFor(r, s)
<1>1. /\ sightings'[s] = sightings[s]
      /\ locations'[sightings[s].location] = locations[sightings[s].location]
  BY DEF RowsTyped, TablesExtend, Extends
<1> QED
  BY <1>1 DEF AsksFor

LEMMA ShowStays ==
  ASSUME RowsTyped, TablesExtend, NEW s \in DOMAIN sightings, NEW r, NamesRows(r), Shows(r, s)
  PROVE  Shows(r, s)'
<1>1. \A k \in DOMAIN sightings : sightings'[k] = sightings[k]
  BY DEF TablesExtend, Extends
<1>2. CASE r.handler = "handleMap"
  BY <1>1, <1>2 DEF Shows, NamesRows
<1>3. CASE r.handler # "handleMap"
  BY <1>1, <1>3 DEF Shows
<1> QED
  BY <1>2, <1>3

\* The sums of the two statements are that of all rows, and no row is older than
\* the first or newer than the last.
LEMMA AllFlags ==
  ASSUME RowsTyped, NEW u
  PROVE  /\ FlagSum(flags, u) = Balance(Len(flags), u)
         /\ AuthorInsincerity(flags, u) = Balance(Len(flags), u)
         /\ (\E k \in DOMAIN flags : flags[k].target = u) <=> Named(Len(flags), u)
         /\ Balance(Len(flags), u) \in Int
<1>1. DOMAIN flags = 1 .. Len(flags)
  BY DEF RowsTyped
<1>2. \A v : Rows(flags, u, v)
           = {k \in 1 .. Len(flags) : flags[k].target = u /\ flags[k].value = v}
  BY <1>1 DEF Rows
<1>3. FlagSum(flags, u) = Balance(Len(flags), u)
  BY <1>2 DEF FlagSum, Balance
<1>4. AuthorInsincerity(flags, u) = Balance(Len(flags), u)
  BY <1>2 DEF AuthorInsincerity, Balance
<1>5. FlagSum(flags, u) \in Int
  BY FlagSumInt DEF RowsTyped
<1>6. (\E k \in DOMAIN flags : flags[k].target = u) <=> Named(Len(flags), u)
  BY <1>1 DEF Named
<1> QED
  BY <1>3, <1>4, <1>5, <1>6

LEMMA TablesOnlyGrow ==
  ASSUME RowsTyped, RowsTyped', TablesExtend
  PROVE  /\ Len(flags) \in Nat /\ Len(flags') \in Nat /\ Len(flags) <= Len(flags')
         /\ Len(sightings) \in Nat /\ Len(sightings') \in Nat
         /\ Len(sightings) <= Len(sightings')
<1>1. /\ DOMAIN flags = 1 .. Len(flags) /\ Len(flags) \in Nat
      /\ DOMAIN flags' = 1 .. Len(flags') /\ Len(flags') \in Nat
      /\ DOMAIN sightings = 1 .. Len(sightings) /\ Len(sightings) \in Nat
      /\ DOMAIN sightings' = 1 .. Len(sightings') /\ Len(sightings') \in Nat
  BY DEF RowsTyped
<1>2. /\ 1 .. Len(flags) \subseteq 1 .. Len(flags')
      /\ 1 .. Len(sightings) \subseteq 1 .. Len(sightings')
  BY <1>1 DEF TablesExtend, Extends
<1> QED
  BY <1>1, <1>2

\* What the first flags say is not changed by those that come.
LEMMA FlagsStay ==
  ASSUME RowsTyped, TablesExtend, NEW n \in 0 .. Len(flags), NEW u
  PROVE  Balance(n, u)' = Balance(n, u) /\ (Named(n, u)' <=> Named(n, u))
<1>1. \A k \in 1 .. n : flags'[k] = flags[k]
  BY DEF RowsTyped, TablesExtend, Extends
<1>2. \A v : {k \in 1 .. n : flags'[k].target = u /\ flags'[k].value = v}
           = {k \in 1 .. n : flags[k].target = u /\ flags[k].value = v}
  BY <1>1
<1>3. Balance(n, u)' = Balance(n, u)
  BY <1>2 DEF Balance
<1>4. Named(n, u)' <=> Named(n, u)
  BY <1>1 DEF Named
<1> QED
  BY <1>3, <1>4

LEMMA JudgedStays ==
  ASSUME RowsTyped, RowsTyped', TablesExtend, NEW r, NamesRows(r), Judged(r),
         r.seen \in 0 .. Len(sightings), r.flagged \in 0 .. Len(flags)
  PROVE  Judged(r)'
<1>1. PICK n \in r.flagged .. Len(flags) : JudgesBy(r, n)
  BY DEF Judged
<1>2. n \in 0 .. Len(flags) /\ n \in r.flagged .. Len(flags')
  BY TablesOnlyGrow
<1>3. /\ 1 .. r.seen \subseteq DOMAIN sightings
      /\ \A s \in DOMAIN sightings :
           /\ sightings'[s] = sightings[s]
           /\ locations'[sightings[s].location] = locations[sightings[s].location]
      /\ \A l \in DOMAIN locations : locations'[l] = locations[l]
  BY Prefix DEF TablesExtend, Extends
<1>5. ASSUME NEW s \in DOMAIN sightings
      PROVE  /\ Balance(n, sightings[s].reporter)' = Balance(n, sightings[s].reporter)
             /\ Named(n, sightings[s].reporter)' <=> Named(n, sightings[s].reporter)
  <2>1. PICK u : u = sightings[s].reporter /\ u = sightings'[s].reporter
    BY <1>3
  <2>2. Balance(n, u)' = Balance(n, u) /\ (Named(n, u)' <=> Named(n, u))
    BY <1>2, FlagsStay
  <2> QED
    BY <2>1, <2>2
<1>4. JudgesBy(r, n)'
  <2>1. CASE r.handler = "handleListEvents"
    <3>1. \A e \in r.answer : e.insincerity = Balance(n, Author(e))
      BY <1>1, <2>1 DEF JudgesBy
    <3>2. \A e \in r.answer : Author(e)' = Author(e)
      BY <1>3, <2>1 DEF NamesRows, Author
    <3>3. \A e \in r.answer : e.insincerity = Balance(n, Author(e))'
      <4> TAKE e \in r.answer
      <4>1. PICK u : u = Author(e) /\ u = Author(e)'
        BY <3>2
      <4>2. e.insincerity = Balance(n, u)'
        BY <1>2, <3>1, <4>1, FlagsStay
      <4> QED
        BY <4>1, <4>2
    <3> QED
      BY <2>1, <3>3 DEF JudgesBy
  <2>2. CASE r.handler = "handleListFlags"
    <3>1. \A k \in 1 .. n : flags'[k] = flags[k]
      BY <1>2 DEF RowsTyped, TablesExtend, Extends
    <3> QED
      BY <1>1, <2>2, <3>1 DEF JudgesBy
  <2>3. CASE r.handler = "handleMap" /\ ~r.input.includeInsincere
    <3>1. \A m \in r.answer : Balance(n, sightings[m[2]].reporter)' <= 0
      BY <1>1, <1>5, <2>3 DEF JudgesBy, NamesRows
    <3>2. ASSUME NEW s \in 1 .. r.seen, MapAsksFor(r.input, s)',
                 Balance(n, sightings[s].reporter)' <= 0
          PROVE  Shows(r, s)'
      <4>1. s \in DOMAIN sightings /\ MapAsksFor(r.input, s)
        BY <1>3, <3>2 DEF MapAsksFor
      <4>2. Balance(n, sightings[s].reporter) <= 0
        BY <1>5, <3>2, <4>1
      <4> QED
        BY <1>1, <2>3, <4>1, <4>2, ShowStays DEF JudgesBy
    <3> QED
      BY <2>3, <3>1, <3>2 DEF JudgesBy
  <2>4. CASE r.handler = "handleLocationHistory" /\ r.input.includeInsincere
    <3>1. \A s \in r.answer : ~Named(n, sightings[s].reporter)'
      BY <1>1, <1>5, <2>4 DEF JudgesBy, NamesRows
    <3>2. ASSUME NEW s \in 1 .. r.seen, HistoryAsksFor(r.input, s)',
                 ~Named(n, sightings[s].reporter)'
          PROVE  s \in r.answer
      <4>1. s \in DOMAIN sightings /\ HistoryAsksFor(r.input, s)
        BY <1>3, <3>2 DEF HistoryAsksFor
      <4>2. ~Named(n, sightings[s].reporter)
        BY <1>5, <3>2, <4>1
      <4> QED
        BY <1>1, <2>4, <4>1, <4>2 DEF JudgesBy
    <3> QED
      BY <2>4, <3>1, <3>2 DEF JudgesBy
  <2> QED
    BY <2>1, <2>2, <2>3, <2>4 DEF JudgesBy
<1> QED
  BY <1>2, <1>4 DEF Judged

LEMMA ReadsStay ==
  ASSUME RowsTyped, RowsTyped', TablesExtend, NEW r, Reads(r)
  PROVE  Reads(r)'
<1>1. /\ 1 .. r.seen \subseteq DOMAIN sightings
      /\ DOMAIN sightings \subseteq DOMAIN sightings'
      /\ DOMAIN locations \subseteq DOMAIN locations'
      /\ \A s \in DOMAIN sightings : sightings'[s] = sightings[s]
  BY Prefix DEF Reads, TablesExtend, Extends
<1>2. r.seen \in 0 .. Len(sightings') /\ r.flagged \in 0 .. Len(flags')
  <2>1. r.seen \in 0 .. Len(sightings) /\ r.flagged \in 0 .. Len(flags)
    BY DEF Reads
  <2> QED
    BY <2>1, TablesOnlyGrow
<1>3. Decoded(r)' <=> Decoded(r)
  BY DEF Decoded
<1>4. Headed(r) => Headed(r)'
  BY <1>1 DEF Headed
<1>5. Current(r) /\ NamesRows(r) => Current(r)' /\ NamesRows(r)'
  <2>1. NamesRows(r) => NamesRows(r)'
    BY <1>1 DEF NamesRows
  <2>2. Current(r) /\ NamesRows(r) => Current(r)'
    BY <1>1, AskStays, ShowStays DEF Current
  <2> QED
    BY <2>1, <2>2
<1>6. r.handler = "handleLocationHistory" /\ NamesRows(r) /\ Headed(r) /\ Covers(r) => Covers(r)'
  BY <1>1 DEF NamesRows, Headed, Covers
<1>a. NamesRows(r) /\ Judged(r) => Judged(r)'
  BY JudgedStays DEF Reads
<1>7. Told(r) => Told(r)'
  BY <1>3, <1>4, <1>5, <1>6, <1>a DEF Told
<1> QED
  BY <1>2, <1>3, <1>4, <1>7 DEF Reads

\* A step that changes one request leaves what is true of the others.
LEMMA OneChanged ==
  ASSUME ReadInv, RowsTyped', TablesExtend,
         NEW i, DOMAIN requests' = DOMAIN requests,
         \A j \in DOMAIN requests : j # i => requests'[j] = requests[j],
         NEW r, r = requests'[i], Reads(r)
  PROVE  \A j \in DOMAIN requests' : Reads(requests[j])'
<1> TAKE j \in DOMAIN requests'
<1>1. PICK q : q = requests'[j]
  OBVIOUS
<1>2. Reads(q)
  BY <1>1 DEF ReadInv
<1>3. Reads(q)'
  BY <1>2, ReadsStay DEF ReadInv
<1> QED
  BY <1>1, <1>3

-----------------------------------------------------------------------------
(* Steps of a request that is under way.                                   *)

\* What a handler that returns makes of its request.
LEMMA AnsweredFields ==
  ASSUME NEW q, Typed(q), NEW status, NEW answer, NEW r, r = Answered(q, status, answer)
  PROVE  /\ r.by = q.by /\ r.handler = q.handler /\ r.seen = q.seen
         /\ r.flagged = q.flagged /\ r.header = q.header
         /\ r.phase = "done" /\ r.status = status /\ r.answer = answer
         /\ status \in {200, 201, Lost} => r.input = q.input
BY DEF Typed, Answered

LEMMA UnderWay ==
  ASSUME ReadInv, NEW i \in DOMAIN requests
  PROVE  /\ Typed(requests[i]) /\ Reads(requests[i])
         /\ requests[i].phase # "done" => /\ requests[i].status = Unanswered
                                          /\ Decoded(requests[i])
BY DEF ReadInv, EndpointsInv, Fits, Reads

LEMMA FinishReads ==
  ASSUME ReadInv, RowsTyped', TablesExtend, NEW i \in DOMAIN requests,
         requests[i].phase # "done",
         NEW status \in {200, 201, 404, 500}, NEW answer, Finish(i, status, answer),
         status = 200 => \A r : r = Answered(requests[i], 200, answer) => Told(r)
  PROVE  \A j \in DOMAIN requests' : Reads(requests[j])'
<1>1. PICK s \in {status, Lost} :
        requests' = [requests EXCEPT ![i] = Answered(requests[i], s, answer)]
  BY DEF Finish
<1>2. PICK r : r = Answered(requests[i], s, answer)
  OBVIOUS
<1>3. /\ requests'[i] = r /\ DOMAIN requests' = DOMAIN requests
      /\ \A j \in DOMAIN requests : j # i => requests'[j] = requests[j]
  BY <1>1, <1>2
<1>4. /\ r.by = requests[i].by /\ r.seen = requests[i].seen /\ r.header = requests[i].header
      /\ r.flagged = requests[i].flagged
      /\ r.phase = "done" /\ r.status = s
  BY <1>2, AnsweredFields, UnderWay
<1>5. Reads(requests[i])
  BY UnderWay
<1>6. s = 200 => Told(r)
  BY <1>2 DEF Lost
<1>7. Reads(r)
  BY <1>4, <1>5, <1>6 DEF Reads, Lost
<1> QED
  BY <1>3, <1>7, OneChanged

\* The endpoints that list nothing promise nothing of what there is to read.
LEMMA WritersToldNothing ==
  ASSUME NEW r, r.handler \in {"handleMe", "handlePing", "handleUpdateMe", "handleSetFlags",
                               "handleFlagInsincere"},
         r.flagged \in 0 .. Len(flags), Len(flags) \in Nat
  PROVE  Told(r)
<1>1. JudgesBy(r, r.flagged)
  BY DEF JudgesBy
<1>2. Judged(r)
  BY <1>1 DEF Judged
<1> QED
  BY <1>2 DEF Told, Decoded, Current, NamesRows, AsksFor

Lists == {"handleListSightings", "handleListEvents", "handleAuditSightings",
          "handleListFlags", "handleListNotes", "handleMap"}

\* A list read in one statement is current when the statement is.
LEMMA ListTold ==
  ASSUME ReadInv, NEW i \in DOMAIN requests, requests[i].phase # "done",
         requests[i].handler \in Lists,
         NEW r, r = Answered(requests[i], 200, ListOf(requests[i]))
  PROVE  Told(r)
<1> PICK q : q = requests[i]
  OBVIOUS
<1>1. /\ r.handler = q.handler /\ r.seen = q.seen /\ r.answer = ListOf(q)
      /\ r.input = q.input /\ Decoded(q) /\ q.seen \in 0 .. Len(sightings)
      /\ r.flagged \in 0 .. Len(flags)
  BY AnsweredFields, UnderWay DEF Reads
<1>2. Decoded(r)
  BY <1>1 DEF Decoded
<1>a. RowsTyped
  BY DEF ReadInv
\* A map shows the sightings it asks for of those it does not hide.
<1>4. ASSUME q.handler = "handleMap", NEW s \in DOMAIN sightings, MapAsksFor(q.input, s),
             q.input.includeInsincere \/ FlagSum(flags, sightings[s].reporter) <= 0
      PROVE  Shows(r, s)
  <2> DEFINE since == ParseSince(q.input.window, 90, Now)
             ask == [box |-> ParseBBox(q.input.box), since |-> since,
                     includeInsincere |-> q.input.includeInsincere,
                     includeMissing |-> q.input.includeMissing]
  <2>1. /\ InBox(locations[sightings[s].location], q.input.box)
        /\ Visible(sightings[s], flags, since, ask.includeInsincere)
    BY <1>4 DEF MapAsksFor, Visible
  <2>2. r.answer = Markers(locations, sightings, flags, ask)
    BY <1>1, <1>4 DEF ListOf
  <2>3. ask.box = ParseBBox(q.input.box) /\ ask.since = since /\ ask.includeMissing
    BY <1>4 DEF MapAsksFor
  <2>4. q.input \in MapQueries /\ ~BoxRefused(q.input.box)
    BY <1>1, <1>4 DEF Decoded
  <2> HIDE DEF ask, since
  <2>5. \E m \in r.answer : /\ m[1] = sightings[s].location
                            /\ sightings[m[2]].at >= sightings[s].at
    BY <1>a, <2>1, <2>2, <2>3, <2>4, MapShows
  <2> QED
    BY <1>1, <1>4, <2>5 DEF Shows
<1>3. ASSUME NEW s \in 1 .. r.seen, AsksFor(r, s) PROVE Shows(r, s)
  <2>1. s \in DOMAIN sightings /\ AsksFor(q, s)
    BY <1>1, <1>3, <1>a DEF RowsTyped, AsksFor
  <2>2. CASE q.handler = "handleListSightings"
    <3>1. sightings[s].at >= EventsSince(q.input, 14, Now)
      BY <2>1, <2>2 DEF AsksFor
    <3>2. r.answer = SightingsSince(sightings, EventsSince(q.input, 14, Now))
      BY <1>1, <2>2 DEF ListOf
    <3> QED
      BY <1>1, <2>1, <2>2, <3>1, <3>2 DEF Shows, SightingsSince
  <2>3. CASE q.handler = "handleListEvents"
    <3>1. sightings[s].at >= EventsSince(q.input, 14, Now)
      BY <2>1, <2>3 DEF AsksFor
    <3>2. r.answer = AuditEventsSince(locations, sightings, flags,
                                      EventsSince(q.input, 14, Now), Limit)
      BY <1>1, <2>3 DEF ListOf
    <3> QED
      BY <1>a, <1>1, <2>1, <2>3, <3>1, <3>2, EventsShow DEF Shows
  <2>4. CASE q.handler = "handleAuditSightings"
    <3>1. sightings[s].reporter = q.input.target
      BY <2>1, <2>4 DEF AsksFor
    <3>2. r.answer = SightingsByOpaqueUser(sightings, q.input.target)
      BY <1>1, <2>4 DEF ListOf
    <3> QED
      BY <1>1, <2>1, <2>4, <3>1, <3>2 DEF Shows, SightingsByOpaqueUser
  <2>5. CASE q.handler = "handleMap"
    <3>1. q.input.includeInsincere /\ MapAsksFor(q.input, s)
      BY <2>1, <2>5 DEF AsksFor
    <3> QED
      BY <1>4, <2>1, <2>5, <3>1
  <2>6. CASE q.handler \in {"handleListFlags", "handleListNotes"}
    BY <2>1, <2>6 DEF AsksFor
  <2> QED
    BY <2>2, <2>3, <2>4, <2>5, <2>6 DEF Lists
\* An event is a row of one of the tables, with the sum of its author's flags.
<1>5. ASSUME q.handler = "handleListEvents", NEW e \in r.answer
      PROVE  /\ e.id \in IF e.type = "sighting" THEN DOMAIN sightings ELSE DOMAIN locations
             /\ e.insincerity = AuthorInsincerity(flags, Author(e))
  <2>1. e \in Interleaved(locations, sightings, flags, EventsSince(q.input, 14, Now))
    BY <1>1, <1>5 DEF ListOf, AuditEventsSince
  <2>2. CASE \E l \in DOMAIN locations :
               e = Event("location_created", l, locations[l].creator, locations[l].at, flags)
    BY <2>2 DEF Event, Author
  <2>3. CASE \E s \in DOMAIN sightings :
               e = Event("sighting", s, sightings[s].reporter, sightings[s].at, flags)
    BY <2>3 DEF Event, Author
  <2> QED
    BY <2>1, <2>2, <2>3 DEF Interleaved, SightingsSince
\* A marker's row is one the statement does not hide.
<1>6. ASSUME q.handler = "handleMap", NEW m \in r.answer
      PROVE  /\ m[2] \in DOMAIN sightings
             /\ q.input.includeInsincere \/ FlagSum(flags, sightings[m[2]].reporter) <= 0
  BY <1>1, <1>6 DEF ListOf, Markers, MarkerRows, Group, Visible
<1>7. NamesRows(r)
  BY <1>1, <1>5, <1>6 DEF NamesRows, Lists
<1>8. JudgesBy(r, Len(flags))
  <2>1. CASE q.handler = "handleListEvents"
    BY <1>1, <1>5, <1>a, <2>1, AllFlags DEF JudgesBy
  <2>2. CASE q.handler = "handleListFlags"
    <3>1. ListOf(q) = {k \in DOMAIN flags : flags[k].target = q.input.target}
      BY <2>2 DEF ListOf
    <3>2. DOMAIN flags = 1 .. Len(flags)
      BY <1>a DEF RowsTyped
    <3>3. r.answer = {k \in 1 .. Len(flags) : flags[k].target = r.input.target}
      <4>1. r.answer = ListOf(q) /\ r.input = q.input
        BY <1>1
      <4> QED
        BY <3>1, <3>2, <4>1, Zenon
    <3> QED
      BY <1>1, <2>2, <3>3 DEF JudgesBy
  <2>3. CASE q.handler = "handleMap" /\ ~q.input.includeInsincere
    <3>1. \A m \in r.answer : Balance(Len(flags), sightings[m[2]].reporter) <= 0
      BY <1>6, <1>a, <2>3, AllFlags
    <3>2. ASSUME NEW s \in 1 .. r.seen, MapAsksFor(q.input, s),
                 Balance(Len(flags), sightings[s].reporter) <= 0
          PROVE  Shows(r, s)
      <4>1. s \in DOMAIN sightings
        BY <1>1, <1>a DEF RowsTyped
      <4> QED
        BY <1>4, <1>a, <2>3, <3>2, <4>1, AllFlags
    <3> QED
      BY <1>1, <2>3, <3>1, <3>2 DEF JudgesBy
  <2> QED
    BY <1>1, <2>1, <2>2, <2>3 DEF JudgesBy, Lists
<1>9. Judged(r)
  <2>1. r.flagged \in 0 .. Len(flags) /\ Len(flags) \in Nat
    BY <1>1, <1>a DEF RowsTyped
  <2> QED
    BY <1>8, <2>1 DEF Judged
<1> QED
  BY <1>1, <1>2, <1>3, <1>7, <1>9 DEF Told, Current, Lists

LEMMA SinceIsTime ==
  ASSUME NEW w \in Window PROVE ParseSince(w, 365, Now) \in Int
BY DaysAssumption, EndpointsAssumption DEF ParseSince, Clamp, Window, Parameter, Parsed

\* The two statements of a history agree.
LEMMA HistoryTold ==
  ASSUME ReadInv, NEW i \in DOMAIN requests, requests[i].phase = "located",
         requests[i].handler = "handleLocationHistory",
         NEW r, r = Answered(requests[i], 200,
                      HistoryRows(sightings, flags, requests[i].input.id,
                                  ParseSince(requests[i].input.window, 365, Now),
                                  requests[i].input.includeInsincere))
  PROVE  Told(r)
<1> PICK q : q = requests[i]
  OBVIOUS
<1> DEFINE since == ParseSince(q.input.window, 365, Now)
<1>1. /\ r.handler = q.handler /\ r.seen = q.seen /\ r.input = q.input /\ r.header = q.header
      /\ r.answer = HistoryRows(sightings, flags, q.input.id, since, q.input.includeInsincere)
      /\ Decoded(q) /\ q.seen \in 0 .. Len(sightings) /\ Headed(q)
      /\ r.flagged \in 0 .. Len(flags)
  BY AnsweredFields, UnderWay DEF Reads
<1>2. q.input \in HistoryQueries /\ since \in Int /\ q.input.includeInsincere \in BOOLEAN
  BY <1>1, SinceIsTime, EndpointsAssumption DEF Decoded
<1>3. /\ \A s \in DOMAIN sightings : sightings[s].at \in Int
      /\ Len(sightings) \in Nat /\ DOMAIN sightings = 1 .. Len(sightings)
  BY RowTimes DEF ReadInv, RowsTyped
<1> HIDE DEF since
<1>4. r.answer \subseteq DOMAIN sightings
  BY <1>1 DEF HistoryRows, SightingsSince
<1>5. ASSUME NEW s \in DOMAIN sightings, sightings[s].location = q.input.id,
             ~q.input.includeInsincere, sightings[s].at >= since
      PROVE  s \in r.answer
  BY <1>1, <1>5 DEF HistoryRows, SightingsSince
<1>6. Current(r)
  BY <1>1, <1>3, <1>5 DEF Current, AsksFor, HistoryAsksFor, Shows, since
<1>7. Headed(r)
  BY <1>1 DEF Headed
<1>8. Covers(r)
  <2>1. \/ q.input.includeInsincere \/ sightings[q.header].at < since \/ q.header \in r.answer
    BY <1>1, <1>2, <1>3, <1>5 DEF Headed
  <2>2. \A s \in r.answer : sightings[s].at > sightings[q.header].at => s > q.seen
    <3> TAKE s \in r.answer
    <3>1. sightings[s].location = q.input.id /\ s \in DOMAIN sightings
      BY <1>1, <1>4 DEF HistoryRows
    <3>2. s \in 1 .. q.seen => sightings[s].at <= sightings[q.header].at
      BY <1>1, <3>1 DEF Headed
    <3>3. sightings[q.header].at \in Int /\ sightings[s].at \in Int
      BY <1>1, <1>3, <3>1 DEF Headed
    <3> QED
      BY <1>1, <1>3, <3>1, <3>2, <3>3
  <2> QED
    BY <1>1, <2>1, <2>2 DEF Covers, since
<1>9. JudgesBy(r, Len(flags))
  <2>a. RowsTyped
    BY DEF ReadInv
  <2> SUFFICES ASSUME q.input.includeInsincere PROVE JudgesBy(r, Len(flags))
    BY <1>1 DEF JudgesBy
  <2>1. \A s \in r.answer : ~Named(Len(flags), sightings[s].reporter)
    BY <1>1, <2>a, AllFlags DEF HistoryRows
  <2>3. \A s \in 1 .. r.seen : HistoryAsksFor(r.input, s)
            /\ ~Named(Len(flags), sightings[s].reporter) => s \in r.answer
    <3> TAKE s \in 1 .. r.seen
    <3> HAVE HistoryAsksFor(r.input, s) /\ ~Named(Len(flags), sightings[s].reporter)
    <3>1. s \in DOMAIN sightings
      <4> PICK m : m = r.seen
        OBVIOUS
      <4>1. m \in 0 .. Len(sightings)
        BY <1>1
      <4>2. Len(sightings) \in Nat /\ DOMAIN sightings = 1 .. Len(sightings)
        BY <1>3
      <4>3. s \in 1 .. m
        OBVIOUS
      <4> QED
        BY <4>1, <4>2, <4>3
    <3>2. HistoryAsksFor(q.input, s)
      BY <1>1
    <3>3. sightings[s].location = q.input.id /\ sightings[s].at >= since
      BY <3>2 DEF HistoryAsksFor, since
    <3>4. \A k \in DOMAIN flags : flags[k].target # sightings[s].reporter
      BY <2>a, AllFlags
    <3> QED
      BY <1>1, <3>1, <3>3, <3>4 DEF HistoryRows, SightingsSince
  <2>4. r.handler = "handleLocationHistory"
    BY <1>1
  <2> QED
    BY <2>1, <2>3, <2>4 DEF JudgesBy
<1>10. Judged(r)
  <2>1. r.flagged \in 0 .. Len(flags) /\ Len(flags) \in Nat
    BY <1>1 DEF ReadInv, RowsTyped
  <2> QED
    BY <1>9, <2>1 DEF Judged
<1> QED
  BY <1>1, <1>4, <1>6, <1>7, <1>8, <1>10 DEF Told, NamesRows, Decoded

-----------------------------------------------------------------------------
(* The tables keep their rows.                                             *)

TablesKept == UNCHANGED <<locations, sightings, flags, notes, server>>

LEMMA KeptRows ==
  ASSUME RowsTyped, UNCHANGED <<locations, sightings, flags, notes>>,
         server' \in {"up", "draining", "down"}
  PROVE  RowsTyped' /\ TablesExtend
BY DEF RowsTyped, TablesExtend, Extends

LEMMA InsertedLocation ==
  ASSUME ReadInv, NEW i \in DOMAIN requests, InsertCanonical(i)
  PROVE  RowsTyped' /\ TablesExtend
<1> DEFINE at == requests[i].input.body
           row == [lat |-> at.lat, lon |-> at.lon, at |-> Now,
                   creator |-> requests[i].by, via |-> i]
<1>1. /\ locations' = Append(locations, row)
      /\ UNCHANGED <<server, sightings, flags, notes>>
      /\ requests[i].handler = "handleCreateLocation" /\ requests[i].phase = "store"
  BY DEF InsertCanonical, AtStore
<1>2. at \in Positions /\ ValidLatLon(at) /\ requests[i].by \in Users
  BY <1>1, UnderWay DEF Decoded, Reads
<1>3. i \in Nat
  BY DEF ReadInv, EndpointsInv, Tables, IsTable
<1>4. row \in Location /\ ValidLatLon(row)
  BY <1>2, <1>3, EndpointsAssumption DEF Location, ValidLatLon
<1>5. RowsTyped
  BY DEF ReadInv
<1> HIDE DEF row
<1>6. /\ locations' \in Seq(Location)
      /\ Extends(locations, locations')
      /\ \A l \in DOMAIN locations' : ValidLatLon(locations'[l])
  BY <1>1, <1>4, <1>5, Appended, AppendExtends DEF RowsTyped
<1> QED
  BY <1>1, <1>5, <1>6 DEF RowsTyped, TablesExtend, Extends

LEMMA InsertedFlag ==
  ASSUME ReadInv, NEW i \in DOMAIN requests, SetInsincere(i)
  PROVE  RowsTyped' /\ TablesExtend
<1>1. PICK row \in Flag : /\ flags' = Append(flags, row)
                          /\ UNCHANGED <<server, locations, sightings, notes>>
  <2>1. i \in Nat
    BY DEF ReadInv, EndpointsInv, Tables, IsTable
  <2> QED
    BY <2>1 DEF SetInsincere, Flag
<1>2. RowsTyped
  BY DEF ReadInv
<1>3. flags' \in Seq(Flag)
  BY <1>1, <1>2 DEF RowsTyped
<1>4. Extends(flags, flags')
  BY <1>1, <1>2, AppendExtends DEF RowsTyped
<1> QED
  BY <1>1, <1>2, <1>3, <1>4 DEF RowsTyped, TablesExtend, Extends

LEMMA InsertedNote ==
  ASSUME ReadInv, NEW i \in DOMAIN requests, AddNote(i)
  PROVE  RowsTyped' /\ TablesExtend
<1> DEFINE row == [target |-> requests[i].input.target, author |-> requests[i].by,
                   note |-> requests[i].input.body, via |-> i]
<1>1. /\ notes' = Append(notes, row) /\ UNCHANGED <<server, locations, sightings, flags>>
      /\ requests[i].input.target \in Users
  BY DEF AddNote
<1>2. requests[i].by \in Users
  BY UnderWay DEF Reads
<1>3. {row.target, row.author} \subseteq Users
  BY <1>1, <1>2
<1>4. RowsTyped /\ IsTable(notes)
  BY DEF ReadInv, EndpointsInv, Tables
<1> HIDE DEF row
<1>5. \A k \in DOMAIN notes' : {notes'[k].target, notes'[k].author} \subseteq Users
  BY <1>1, <1>3, <1>4, TableAppended DEF RowsTyped
<1> QED
  BY <1>1, <1>4, <1>5 DEF RowsTyped, TablesExtend, Extends

LEMMA ArrivedRows ==
  ASSUME ReadInv, NEW s \in NewSightings, ReportArrives(s)
  PROVE  RowsTyped' /\ TablesExtend
<1>1. /\ sightings' = Append(sightings, s) /\ s.location \in DOMAIN locations
      /\ UNCHANGED <<server, locations, flags, notes>> /\ s \in Sighting
  BY EndpointsAssumption DEF ReportArrives
<1>2. RowsTyped
  BY DEF ReadInv
<1>3. /\ sightings' \in Seq(Sighting)
      /\ Extends(sightings, sightings')
      /\ \A k \in DOMAIN sightings' : sightings'[k].location \in DOMAIN locations
  BY <1>1, <1>2, Appended, AppendExtends DEF RowsTyped
<1> QED
  BY <1>1, <1>2, <1>3 DEF RowsTyped, TablesExtend, Extends

-----------------------------------------------------------------------------
(* Every step keeps the answers true.                                      *)

ReadsHold == RowsTyped /\ \A j \in DOMAIN requests : Reads(requests[j])

LEMMA HandleReads ==
  ASSUME ReadInv, NEW i \in DOMAIN requests, Handle(i)
  PROVE  ReadsHold'
<1>a. /\ UNCHANGED <<locations, sightings, flags, notes, server>> => RowsTyped' /\ TablesExtend
  BY KeptRows DEF ReadInv, RowsTyped
<1>b. Len(flags) \in Nat
  BY DEF ReadInv, RowsTyped
<1>1. CASE SetUserCalled(i)
  <2>1. /\ requests[i].handler = "handleUpdateMe" /\ requests[i].phase # "done"
        /\ Finish(i, 200, {}) /\ UNCHANGED <<server, locations, sightings, flags, notes>>
    BY <1>1 DEF SetUserCalled, AtStore
  <2>2. \A r : r = Answered(requests[i], 200, {}) => Told(r)
    BY <1>b, <2>1, WritersToldNothing, AnsweredFields, UnderWay DEF Reads
  <2> QED
    BY <1>a, <2>1, <2>2, FinishReads DEF ReadsHold
<1>2. CASE InsertCanonical(i)
  BY <1>2, InsertedLocation, FinishReads DEF ReadsHold, InsertCanonical, AtStore
<1>3. CASE SetInsincere(i)
  <2>1. /\ requests[i].handler \in {"handleSetFlags", "handleFlagInsincere"}
        /\ requests[i].phase # "done" /\ Finish(i, 200, {})
    BY <1>3 DEF SetInsincere, AtStore
  <2>2. \A r : r = Answered(requests[i], 200, {}) => Told(r)
    BY <1>b, <2>1, WritersToldNothing, AnsweredFields, UnderWay DEF Reads
  <2> QED
    BY <1>3, <2>1, <2>2, InsertedFlag, FinishReads DEF ReadsHold
<1>4. CASE AddNote(i)
  BY <1>4, InsertedNote, FinishReads DEF ReadsHold, AddNote, AtStore
<1>5. CASE UnknownUser(i)
  BY <1>5, <1>a, FinishReads DEF ReadsHold, UnknownUser, AtStore, tables
<1>6. CASE ReadList(i)
  <2>1. /\ requests[i].handler \in Lists /\ requests[i].phase # "done"
        /\ Finish(i, 200, ListOf(requests[i]))
        /\ UNCHANGED <<locations, sightings, flags, notes, server>>
    BY <1>6 DEF ReadList, AtStore, Lists, tables
  <2>2. \A r : r = Answered(requests[i], 200, ListOf(requests[i])) => Told(r)
    BY <2>1, ListTold
  <2> QED
    BY <1>a, <2>1, <2>2, FinishReads DEF ReadsHold
<1>7. CASE GetLocation(i)
  <2>1. PICK s \in LatestRows(sightings, LocationAsked(requests[i])) :
          requests' = [requests EXCEPT ![i] = [@ EXCEPT !.phase = "located", !.header = s]]
    BY <1>7 DEF GetLocation
  <2>2. /\ UNCHANGED <<locations, sightings, flags, notes, server>>
        /\ requests[i].phase = "store"
    BY <1>7 DEF GetLocation, AtStore, tables
  <2>3. PICK r : r = [requests[i] EXCEPT !.phase = "located", !.header = s]
    OBVIOUS
  <2>4. /\ r.by = requests[i].by /\ r.handler = requests[i].handler
        /\ r.seen = requests[i].seen /\ r.flagged = requests[i].flagged
        /\ r.input = requests[i].input
        /\ r.status = Unanswered /\ r.phase = "located" /\ r.header = s
    BY <2>2, <2>3, UnderWay DEF Typed
  <2>5. /\ s \in DOMAIN sightings /\ sightings[s].location = LocationAsked(r)
        /\ \A k \in DOMAIN sightings :
             sightings[k].location = LocationAsked(r) => sightings[k].at <= sightings[s].at
    BY <2>4 DEF LatestRows, LocationAsked
  <2>6. /\ 1 .. r.seen \subseteq DOMAIN sightings /\ s \in Nat
    BY <2>4, <2>5, UnderWay DEF Reads, ReadInv, RowsTyped
  <2>7. r.handler = "handleLocationHistory" => Headed(r)
    BY <2>4, <2>5, <2>6 DEF Headed, LocationAsked
  <2>8. Decoded(r)
    BY <2>2, <2>4, UnderWay DEF Decoded
  <2>9. Reads(r)
    BY <2>4, <2>6, <2>7, <2>8, UnderWay DEF Reads, Unanswered
  <2>10. /\ requests'[i] = r /\ DOMAIN requests' = DOMAIN requests
         /\ \A j \in DOMAIN requests : j # i => requests'[j] = requests[j]
    BY <2>1, <2>3
  <2> QED
    BY <1>a, <2>2, <2>9, <2>10, OneChanged DEF ReadsHold
<1>8. CASE GetNoLocation(i)
  BY <1>8, <1>a, FinishReads DEF ReadsHold, GetNoLocation, AtStore, tables
<1>9. CASE ListHistory(i)
  <2> DEFINE rows == HistoryRows(sightings, flags, requests[i].input.id,
                       ParseSince(requests[i].input.window, 365, Now),
                       requests[i].input.includeInsincere)
  <2>1. /\ requests[i].phase = "located" /\ requests[i].handler = "handleLocationHistory"
        /\ Finish(i, 200, rows)
        /\ UNCHANGED <<locations, sightings, flags, notes, server>>
    BY <1>9 DEF ListHistory, tables
  <2>2. \A r : r = Answered(requests[i], 200, rows) => Told(r)
    BY <2>1, HistoryTold
  <2> HIDE DEF rows
  <2> QED
    BY <1>a, <2>1, <2>2, FinishReads DEF ReadsHold
<1>10. CASE FailReconciliation(i)
  BY <1>10, <1>a, FinishReads DEF ReadsHold, FailReconciliation, tables
<1>11. CASE Fail(i)
  BY <1>11, <1>a, FinishReads DEF ReadsHold, Fail, tables
<1> QED
  BY <1>1, <1>2, <1>3, <1>4, <1>5, <1>6, <1>7, <1>8, <1>9, <1>10, <1>11 DEF Handle

\* A request that comes holds what its checks let through.
LEMMA AcceptReads ==
  ASSUME ReadInv, NEW u \in Users, NEW h \in DOMAIN Permission, Accept(u, h)
  PROVE  ReadsHold'
<1>1. PICK q, r :
        /\ q \in Inputs[h]
        /\ requests' = Append(requests, r)
        /\ r = [by |-> u, handler |-> h,
                input |-> IF Verdict(u, h, q) = Unanswered THEN q ELSE Absent,
                seen |-> Len(sightings), flagged |-> Len(flags),
                phase |-> IF Verdict(u, h, q) = Unanswered THEN "store" ELSE "done",
                status |-> Verdict(u, h, q), header |-> 0, answer |-> {}]
  BY DEF Accept
<1>2. /\ UNCHANGED <<locations, sightings, flags, notes, server>>
      /\ RowsTyped /\ IsTable(requests)
  BY DEF Accept, tables, ReadInv, EndpointsInv, Tables
<1>3. RowsTyped' /\ TablesExtend
  BY <1>2, KeptRows DEF RowsTyped
<1>4. /\ DOMAIN requests' = DOMAIN requests \cup {Len(requests) + 1}
      /\ requests'[Len(requests) + 1] = r
      /\ \A j \in DOMAIN requests : requests'[j] = requests[j]
  BY <1>1, <1>2, TableAppended
<1>5. Verdict(u, h, q) \in {Unanswered, 200, 400, 403, 500}
      /\ (Verdict(u, h, q) = 200 => h \in {"handleMe", "handlePing"})
  BY DEF Verdict, Unanswered
<1>6. Verdict(u, h, q) = Unanswered =>
        ~BadRequest(h, q) /\ ~(h = "handleMap" /\ BoxRefused(q.box))
  BY DEF Verdict, Unanswered
<1>7. Verdict(u, h, q) = Unanswered => Decoded(r)
  <2> SUFFICES ASSUME Verdict(u, h, q) = Unanswered PROVE Decoded(r)
    OBVIOUS
  <2>1. r.handler = h /\ r.input = q
    BY <1>1
  <2>2. CASE h = "handleCreateLocation"
    <3>1. q.body \in NoBody \cup Positions
      BY <1>1, <2>2 DEF Inputs
    <3>2. Parsed(q.body) /\ ValidLatLon(q.body)
      BY <1>6, <2>2 DEF BadRequest
    <3> QED
      BY <2>1, <2>2, <3>1, <3>2 DEF Decoded, NoBody, Parsed
  <2>3. CASE h = "handleLocationHistory"
    <3>1. q \in HistoryQueries
      BY <1>1, <2>3 DEF Inputs
    <3> QED
      BY <2>1, <2>3, <3>1 DEF Decoded
  <2>4. CASE h = "handleMap"
    <3>1. q \in MapQueries
      BY <1>1, <2>4 DEF Inputs
    <3> QED
      BY <1>6, <2>1, <2>4, <3>1 DEF Decoded
  <2> QED
    BY <2>1, <2>2, <2>3, <2>4 DEF Decoded
<1>a. Len(flags) \in 0 .. Len(flags) /\ r.flagged = Len(flags)
  BY <1>1, <1>2 DEF RowsTyped
<1>8. r.handler \in {"handleMe", "handlePing"} => Told(r)
  BY <1>2, <1>a, WritersToldNothing DEF RowsTyped
<1>9. Reads(r)
  <2>1. /\ r.by = u /\ r.seen = Len(sightings) /\ r.header = 0 /\ r.handler = h
        /\ r.status = Verdict(u, h, q) /\ r.phase \in {"store", "done"}
        /\ r.phase = "store" => Verdict(u, h, q) = Unanswered
    BY <1>1
  <2>2. Len(sightings) \in 0 .. Len(sightings)
    BY <1>2 DEF RowsTyped
  <2> QED
    BY <1>5, <1>7, <1>8, <1>a, <2>1, <2>2 DEF Reads, Unanswered
<1>10. ASSUME NEW j \in DOMAIN requests' PROVE Reads(requests[j])'
  <2>1. PICK p : p = requests'[j]
    OBVIOUS
  <2>2. Reads(p)
    BY <1>4, <1>9, <2>1 DEF ReadInv
  <2>3. Reads(p)'
    BY <1>2, <1>3, <2>2, ReadsStay
  <2> QED
    BY <2>1, <2>3
<1> QED
  BY <1>3, <1>10 DEF ReadsHold

LEMMA CutReads == ASSUME ReadInv, Cut PROVE ReadsHold'
<1> DEFINE cut(i) == [requests[i] EXCEPT !.phase = "done", !.status = Lost]
<1>1. /\ UNCHANGED <<locations, sightings, flags, notes>> /\ server' = "down"
      /\ requests' = [i \in DOMAIN requests |-> IF requests[i].phase = "done" THEN requests[i]
                                               ELSE cut(i)]
  BY DEF Cut, tables
<1>2. RowsTyped' /\ TablesExtend
  BY <1>1, KeptRows DEF ReadInv
<1>3. ASSUME NEW j \in DOMAIN requests' PROVE Reads(requests[j])'
  <2>1. PICK p : p = requests'[j]
    OBVIOUS
  <2>2. j \in DOMAIN requests /\ (p = requests[j] \/ p = cut(j))
    BY <1>1, <2>1
  <2>3. Reads(requests[j]) /\ Typed(requests[j])
    BY <2>2, UnderWay
  <2>4. ASSUME p = cut(j) PROVE Reads(p)
    <3>a. DOMAIN requests[j] = {"by", "handler", "input", "seen", "flagged", "phase",
                                "status", "header", "answer"}
      BY <2>3 DEF Typed
    <3>1. /\ p.by = requests[j].by /\ p.seen = requests[j].seen
          /\ p.flagged = requests[j].flagged
          /\ p.header = requests[j].header /\ p.phase = "done" /\ p.status = Lost
      BY <2>4, <3>a
    <3> QED
      BY <2>3, <3>1 DEF Reads, Lost
  <2> HIDE DEF cut
  <2>5. Reads(p)
    BY <2>2, <2>3, <2>4
  <2>6. Reads(p)'
    BY <1>2, <2>5, ReadsStay DEF ReadInv
  <2> QED
    BY <2>1, <2>6
<1> QED
  BY <1>2, <1>3 DEF ReadsHold

LEMMA KeptReads ==
  ASSUME ReadInv, requests' = requests, RowsTyped', TablesExtend
  PROVE  ReadsHold'
<1> SUFFICES ASSUME NEW j \in DOMAIN requests' PROVE Reads(requests[j])'
  BY DEF ReadsHold
<1>1. PICK p : p = requests[j] /\ p = requests'[j]
  OBVIOUS
<1>2. Reads(p)'
  BY <1>1, ReadsStay DEF ReadInv
<1> QED
  BY <1>1, <1>2

LEMMA InitReads == Init => ReadsHold
<1> SUFFICES ASSUME Init PROVE ReadsHold
  OBVIOUS
<1>0. /\ server = "up" /\ locations = OldLocations /\ sightings = OldSightings
      /\ flags = OldFlags /\ notes = <<>>
  BY DEF Init
<1>1. RowsTyped
  BY <1>0, Empty, EndpointsAssumption DEF RowsTyped
<1>2. DOMAIN requests = {}
  BY Empty DEF Init
<1> QED
  BY <1>1, <1>2 DEF ReadsHold

LEMMA NextReads ==
  ASSUME ReadInv, [Next]_vars PROVE ReadsHold'
<1>0. RowsTyped
  BY DEF ReadInv
<1>1. ASSUME NEW u \in Users, NEW h \in DOMAIN Permission, Accept(u, h) PROVE ReadsHold'
  BY <1>1, AcceptReads
<1>2. ASSUME NEW i \in DOMAIN requests, Handle(i) PROVE ReadsHold'
  BY <1>2, HandleReads
<1>3. ASSUME NEW s \in NewSightings, ReportArrives(s) PROVE ReadsHold'
  <2>1. RowsTyped' /\ TablesExtend /\ requests' = requests
    BY <1>3, ArrivedRows DEF ReportArrives
  <2> QED
    BY <2>1, KeptReads
<1>4. CASE Signal \/ Drained \/ UNCHANGED vars
  <2>1. UNCHANGED <<locations, sightings, flags, notes, requests>>
        /\ server' \in {"up", "draining", "down"}
    BY <1>0, <1>4 DEF Signal, Drained, vars, tables, RowsTyped
  <2>2. RowsTyped' /\ TablesExtend
    BY <1>0, <2>1, KeptRows
  <2> QED
    BY <2>1, <2>2, KeptReads
<1>5. CASE Cut
  BY <1>5, CutReads
<1> QED
  BY <1>1, <1>2, <1>3, <1>4, <1>5 DEF Next

\* Between its two statements a history knows the newest of what was committed
\* when it came, and every answer goes on being true of the tables it was read
\* from (handlers.go, store.go, mapping.go, auditing.go, locations.go).
THEOREM ReadInvariant == FairSpec => []ReadInv
<1>1. ReadInv <=> EndpointsInv /\ ReadsHold
  BY DEF ReadInv, ReadsHold
<1>2. ReadInv /\ [Next]_vars => ReadsHold'
  BY NextReads
<1>3. EndpointsInv /\ ReadsHold /\ [Next]_vars => ReadsHold'
  BY <1>1, <1>2
<1> QED
  BY <1>1, <1>3, InitReads, EndpointsInvariant, PTL DEF FairSpec

\* Rows refer to rows and users that exist, positions are in range, and requests
\* have the phases and statuses the handlers give them (schema.sql, server.go).
THEOREM TablesAreTyped == FairSpec => []TypeOK
<1>1. ReadInv => TypeOK
  <2> SUFFICES ASSUME ReadInv PROVE TypeOK
    OBVIOUS
  <2>1. \A l \in DOMAIN locations : locations[l].creator \in Users
    BY RowTimes DEF ReadInv, Location
  <2>2. \A k \in DOMAIN flags : flags[k].target \in Users /\ flags[k].value \in {-1, 1}
    <3>1. \A k \in DOMAIN flags : flags[k] \in Flag
      BY SeqElement DEF ReadInv, RowsTyped
    <3> QED
      BY <3>1 DEF Flag
  <2>3. ASSUME NEW i \in DOMAIN requests
        PROVE  [f \in DOMAIN requests[i] \ {"input", "answer"} |-> requests[i][f]] \in Request
    <3> PICK r : r = requests[i]
      OBVIOUS
    <3>1. /\ r.by \in Users /\ r.handler \in DOMAIN Permission
          /\ r.seen \in Nat /\ r.flagged \in Nat
          /\ r.phase \in {"store", "located", "done"} /\ r.header \in Nat
          /\ r.status \in {Unanswered, Lost, 200, 201, 400, 403, 404, 500}
      BY UnderWay DEF Reads, Typed, ReadInv, RowsTyped
    <3>2. DOMAIN r \ {"input", "answer"}
            = {"by", "handler", "seen", "flagged", "phase", "status", "header"}
      BY UnderWay DEF Typed
    <3> QED
      BY <3>1, <3>2 DEF Request
  <2> QED
    BY <2>1, <2>2, <2>3 DEF TypeOK, ReadInv, RowsTyped
<1> QED
  BY <1>1, ReadInvariant, PTL

\* The history, the audit lists short of their limit and the map show what had
\* been committed when they were asked for, whatever was committed meanwhile
\* (store.go:200-228, mapping.go:19-79, auditing.go:9-58, locations.go:10-59).
THEOREM ListsShowWhatWasCommitted == FairSpec => []ListsAreCurrent
<1>1. ReadInv => ListsAreCurrent
  BY DEF ReadInv, Reads, Told, Current, ListsAreCurrent
<1> QED
  BY <1>1, ReadInvariant, PTL

\* The two statements of a history agree, though sightings are committed between
\* them (locations.go:10-59).
THEOREM HistoryAgrees == FairSpec => []HistoryCoversHeader
<1>1. ReadInv => HistoryCoversHeader
  BY DEF ReadInv, Reads, Told, Covers, HistoryCoversHeader
<1> QED
  BY <1>1, ReadInvariant, PTL

\* Every answer judges the users it names by the flags of one moment since it was
\* asked for, whatever is flagged or cleared meanwhile, by each of the statements
\* that derive who is insincere (auditing.go:17 and 34, mapping.go:30,
\* locations.go:21, store.go:209).
THEOREM FlagsAreOfOneMoment == FairSpec => []FlagsOfOneMoment
<1>1. ReadInv => FlagsOfOneMoment
  BY DEF ReadInv, Reads, Told, Judged, FlagsOfOneMoment
<1> QED
  BY <1>1, ReadInvariant, PTL
=============================================================================
