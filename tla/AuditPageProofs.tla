-------------------------- MODULE AuditPageProofs --------------------------
(***************************************************************************)
(* The event list composed with Moderation: the composition takes only     *)
(* steps of Moderation, so what holds there holds here; the selection; and *)
(* that an untroubled list shows one moment of the tables.                 *)
(***************************************************************************)
EXTENDS AuditPage, ModerationProofs

\* A step that only fetches, writes or opens a dialog leaves the drawing alone.
LEMMA DrawingKept ==
  ASSUME OnlySelectionHighlighted, UNCHANGED <<list, selected, highlighted>>
  PROVE  OnlySelectionHighlighted'
BY DEF OnlySelectionHighlighted

LEMMA SelectionStep ==
  ASSUME OnlySelectionHighlighted, [AuditNext]_auditVars
  PROVE  OnlySelectionHighlighted'
<1>1. CASE OtherStep
  BY <1>1, DrawingKept DEF OtherStep, pageVars
<1>2. CASE ClickAndLoad \/ ControlChanges
  BY <1>2, DrawingKept DEF ClickAndLoad, ControlChanges, LoadEvents
<1>3. ASSUME NEW i \in DOMAIN loads, ServeLoad(i) \/ FailLoad(i)
      PROVE  OnlySelectionHighlighted'
  BY <1>3, DrawingKept DEF ServeLoad, FailLoad
<1>4. ASSUME NEW i \in DOMAIN loads, RenderList(i)
      PROVE  OnlySelectionHighlighted'
  BY <1>4 DEF RenderList, OnlySelectionHighlighted
<1>5. ASSUME NEW e \in list, ToggleSelect(Key(e))
      PROVE  OnlySelectionHighlighted'
  \* Nothing but the selection was highlighted, so what stays is what is chosen.
  <2>1. highlighted \ {selected} = {}
    BY DEF OnlySelectionHighlighted
  <2>2. CASE selected = Key(e)
    BY <1>5, <2>1, <2>2 DEF ToggleSelect, OnlySelectionHighlighted
  <2>3. CASE selected # Key(e)
    <3>1. selected' = Key(e) /\ highlighted' = {Key(e)} /\ list' = list
      BY <1>5, <2>1, <2>3 DEF ToggleSelect
    <3>2. Key(e) \in {Key(d) : d \in list}
      OBVIOUS
    <3> QED  BY <3>1, <3>2 DEF OnlySelectionHighlighted, Key
  <2> QED  BY <2>2, <2>3
<1>6. ASSUME NEW s \in NewSightings, ReportArrives(s)
      PROVE  OnlySelectionHighlighted'
  BY <1>6, DrawingKept DEF ReportArrives
<1>7. CASE UNCHANGED auditVars
  BY <1>7, DrawingKept DEF auditVars, pageVars
<1> QED  BY <1>1, <1>2, <1>3, <1>4, <1>5, <1>6, <1>7 DEF AuditNext

\* audit_sightings.html:207-226: for any users, reports, limit and order of
\* answers, only the selected row is drawn as selected, and only while drawn.
THEOREM SelectionIsHighlighted == AuditSpec => []OnlySelectionHighlighted
<1>1. AuditInit => OnlySelectionHighlighted
  BY DEF AuditInit, OnlySelectionHighlighted
<1>2. OnlySelectionHighlighted /\ [AuditNext]_auditVars => OnlySelectionHighlighted'
  BY SelectionStep
<1> QED  BY <1>1, <1>2, PTL DEF AuditSpec

-----------------------------------------------------------------------------
(* Moderation under the list.                                              *)

\* What the list adds to a step of Moderation changes none of its variables,
\* and every other step of the page leaves them alone.
LEMMA ListStepIsModeration ==
  ASSUME [AuditNext]_auditVars PROVE [Next]_vars
<1>1. Page \in Moderators
  BY PageAssumption
<1> QED
  BY <1>1 DEF AuditNext, auditVars, OtherStep, ClickAndLoad, ControlChanges, ServeLoad,
              RenderList, FailLoad, ToggleSelect, ReportArrives, Next

\* audit_sightings.html: a page that lists events moderates as one that does
\* not, so the sum and the newest row agree under it as well.
THEOREM ListImplementsModeration == AuditSpec => Spec
<1>1. AuditInit => Init
  BY DEF AuditInit
<1>2. [AuditNext]_auditVars => [Next]_vars
  BY ListStepIsModeration
<1> QED  BY <1>1, <1>2, PTL DEF AuditSpec, Spec

-----------------------------------------------------------------------------
(* The list and the tables.                                                *)

\* The rows are those of a moment since the list was last asked for.
Current(rows) ==
  \E n \in owed.sightings .. Len(sightings), f \in owed.flags .. Len(flags),
     t \in owed.now .. now : rows = Events(n, f, t)

\* Without trouble one fetch at most is under way; what it read, or what was
\* drawn once it was answered, is current.
LoadInv ==
  /\ sightings \in Seq(Report)
  /\ {owed.sightings, owed.flags, owed.now} \subseteq Nat
  /\ owed.sightings <= Len(sightings) /\ owed.flags <= Len(flags) /\ owed.now <= now
  /\ ~troubled => \/ loads = <<>> /\ Current(list)
                  \/ /\ loads = <<loads[1]>>
                     /\ loads[1].phase = "read" => Current(loads[1].rows)

\* A table that stays, or has a row more at the end.
LEMMA Grown ==
  ASSUME NEW T, NEW s \in Seq(T), NEW t, t = s \/ \E e \in T : t = Append(s, e)
  PROVE  /\ t \in Seq(T) /\ Len(s) \in Nat /\ Len(t) \in Nat /\ Len(s) <= Len(t)
         /\ \A n \in 0 .. Len(s) : SubSeq(t, 1, n) = SubSeq(s, 1, n)
<1>1. CASE t = s
  BY <1>1
<1>2. ASSUME NEW e \in T, t = Append(s, e)
      PROVE  /\ t \in Seq(T) /\ Len(s) \in Nat /\ Len(t) \in Nat /\ Len(s) <= Len(t)
             /\ \A n \in 0 .. Len(s) : SubSeq(t, 1, n) = SubSeq(s, 1, n)
  <2>1. /\ t \in Seq(T) /\ Len(s) \in Nat /\ Len(t) = Len(s) + 1
        /\ \A k \in 1 .. Len(s) : t[k] = s[k]
    BY <1>2
  <2>2. ASSUME NEW n \in 0 .. Len(s) PROVE SubSeq(t, 1, n) = SubSeq(s, 1, n)
    BY <2>1
  <2> QED  BY <2>1, <2>2
<1> QED  BY <1>1, <1>2

\* What the two tables and the clock may do in a step.
TablesGrow ==
  /\ sightings' = sightings \/ \E e \in Report : sightings' = Append(sightings, e)
  /\ flags' = flags \/ \E e \in Flag : flags' = Append(flags, e)
  /\ now' \in Nat /\ now <= now'

\* While the list is not asked for again, what was current stays it.
LEMMA StaysCurrent ==
  ASSUME LoadInv, FlagsTyped, TablesGrow, owed' = owed
  PROVE  /\ sightings' \in Seq(Report)
         /\ {owed'.sightings, owed'.flags, owed'.now} \subseteq Nat
         /\ owed'.sightings <= Len(sightings') /\ owed'.flags <= Len(flags')
         /\ owed'.now <= now'
         /\ \A rows : Current(rows) => Current(rows)'
<1>1. /\ sightings' \in Seq(Report) /\ Len(sightings) \in Nat /\ Len(sightings') \in Nat
      /\ Len(sightings) <= Len(sightings')
      /\ \A n \in 0 .. Len(sightings) : SubSeq(sightings', 1, n) = SubSeq(sightings, 1, n)
  BY Grown DEF LoadInv, TablesGrow
<1>2. /\ Len(flags) \in Nat /\ Len(flags') \in Nat /\ Len(flags) <= Len(flags')
      /\ \A f \in 0 .. Len(flags) : SubSeq(flags', 1, f) = SubSeq(flags, 1, f)
  BY Grown DEF FlagsTyped, TablesGrow
<1>3. /\ now \in Nat /\ now' \in Nat /\ now <= now'
      /\ {owed.sightings, owed.flags, owed.now} \subseteq Nat
      /\ owed.sightings <= Len(sightings) /\ owed.flags <= Len(flags) /\ owed.now <= now
  BY DEF LoadInv, FlagsTyped, TablesGrow
<1>4. ASSUME NEW rows, Current(rows) PROVE Current(rows)'
  <2>1. PICK n \in owed.sightings .. Len(sightings), f \in owed.flags .. Len(flags),
             t \in owed.now .. now : rows = Events(n, f, t)
    BY <1>4 DEF Current
  <2>2. /\ n \in owed.sightings .. Len(sightings') /\ n \in 0 .. Len(sightings)
        /\ f \in owed.flags .. Len(flags') /\ f \in 0 .. Len(flags)
        /\ t \in owed.now .. now'
    BY <1>1, <1>2, <1>3
  <2>3. rows = Events(n, f, t)'
    BY <1>1, <1>2, <2>1, <2>2 DEF Events
  <2> QED  BY <2>2, <2>3 DEF Current
<1>5. /\ owed.sightings <= Len(sightings') /\ owed.flags <= Len(flags') /\ owed.now <= now'
  BY <1>1, <1>2, <1>3
<1> QED  BY <1>1, <1>3, <1>4, <1>5

\* A step that neither asks for the list nor has to do with an answer.
LEMMA PageLeftAlone ==
  ASSUME LoadInv, FlagsTyped, TablesGrow, UNCHANGED <<loads, list, owed, troubled>>
  PROVE  LoadInv'
<1>1. loads' = loads /\ list' = list /\ owed' = owed /\ troubled' = troubled
  OBVIOUS
<1>2. \A rows : Current(rows) => Current(rows)'
  BY <1>1, StaysCurrent
<1> QED  BY <1>1, <1>2, StaysCurrent DEF LoadInv

LEMMA LoadEventsKeeps ==
  ASSUME LoadInv, FlagsTyped, FlagsTyped', UNCHANGED <<now, flags>> \/ ClickAction(Page),
         LoadEvents
  PROVE  LoadInv'
<1>1. now' = now /\ flags' = flags
  BY DEF ClickAction
<1>2. /\ owed' = [sightings |-> Len(sightings), flags |-> Len(flags), now |-> now]
      /\ sightings' = sightings /\ list' = list
      /\ loads' = Append(loads, [phase |-> "sent", rows |-> {}])
      /\ troubled' = (loads # <<>>)
  BY DEF LoadEvents, Committed
<1>3. Len(sightings) \in Nat /\ Len(flags) \in Nat /\ now \in Nat
  BY DEF LoadInv, FlagsTyped
<1>4. ~troubled' => loads' = <<loads'[1]>> /\ loads'[1].phase = "sent"
  <2> SUFFICES ASSUME loads = <<>> PROVE loads' = <<[phase |-> "sent", rows |-> {}]>>
    <3>1. ~troubled' => loads = <<>>
      BY <1>2, Zenon
    <3>2. <<[phase |-> "sent", rows |-> {}]>>[1].phase = "sent"
      OBVIOUS
    <3> QED  BY <3>1, <3>2
  <2> QED  BY <1>2
<1> QED  BY <1>1, <1>2, <1>3, <1>4 DEF LoadInv

LEMMA ServeLoadKeeps ==
  ASSUME LoadInv, FlagsTyped, NEW i \in DOMAIN loads, ServeLoad(i)
  PROVE  LoadInv'
<1>1. UNCHANGED <<now, flags, sightings, list, owed, troubled>>
  BY DEF ServeLoad, vars
<1>2. TablesGrow
  BY <1>1 DEF TablesGrow, FlagsTyped
<1>3. ASSUME ~troubled
      PROVE  /\ loads' = <<loads'[1]>>
             /\ Current(loads[1].rows)'
  <2>1. PICK r : loads = <<r>> /\ i = 1
    <3>1. loads # <<>>
      OBVIOUS
    <3> QED  BY <1>3, <3>1 DEF LoadInv
  <2>2. PICK rows : rows = Events(Len(sightings), Len(flags), now)
    OBVIOUS
  <2>3. loads' = <<[phase |-> "read", rows |-> rows]>>
    BY <2>1, <2>2 DEF ServeLoad
  <2>4. Current(rows)
    <3>1. /\ Len(sightings) \in owed.sightings .. Len(sightings)
          /\ Len(flags) \in owed.flags .. Len(flags) /\ now \in owed.now .. now
      BY DEF LoadInv, FlagsTyped
    <3> QED  BY <2>2, <3>1 DEF Current
  <2>5. Current(rows)'
    BY <1>1, <1>2, <2>4, StaysCurrent
  <2> QED  BY <2>3, <2>5 DEF Current
<1> QED  BY <1>1, <1>2, <1>3, StaysCurrent DEF LoadInv

\* An answer was drawn, or the fetch failed.
LEMMA LoadEndsKeeps ==
  ASSUME LoadInv, FlagsTyped, NEW i \in DOMAIN loads, RenderList(i) \/ FailLoad(i)
  PROVE  LoadInv'
<1>1. UNCHANGED <<now, flags, sightings, owed>> /\ loads' = Without(i)
  BY DEF RenderList, FailLoad, vars
<1>2. TablesGrow
  BY <1>1 DEF TablesGrow, FlagsTyped
<1>3. ASSUME ~troubled'
      PROVE  loads' = <<>> /\ Current(list)'
  <2>1. RenderList(i) /\ ~troubled
    BY <1>3 DEF RenderList, FailLoad
  <2>2. PICK r : loads = <<r>> /\ i = 1 /\ (r.phase = "read" => Current(r.rows))
    <3>1. loads # <<>>
      OBVIOUS
    <3> QED  BY <2>1, <3>1 DEF LoadInv
  <2>3. loads' = <<>>
    BY <1>1, <2>2 DEF Without
  <2>4. PICK rows : rows = r.rows
    OBVIOUS
  <2>5. list' = rows /\ Current(rows)
    BY <2>1, <2>2, <2>4 DEF RenderList
  <2>6. Current(rows)'
    BY <1>1, <1>2, <2>5, StaysCurrent
  <2> QED  BY <2>3, <2>5, <2>6 DEF Current
<1> QED  BY <1>1, <1>2, <1>3, StaysCurrent DEF LoadInv

\* The table of flags and the clock under any step of Moderation.
LEMMA FlagsGrow ==
  ASSUME ToggleInv, ToggleInv', [Next]_vars
  PROVE  /\ flags' = flags \/ \E e \in Flag : flags' = Append(flags, e)
         /\ now' \in Nat /\ now <= now'
<1>1. now \in Nat /\ now' \in Nat /\ flags \in Seq(Flag) /\ flags' \in Seq(Flag)
  BY DEF ToggleInv, FlagsTyped
<1>2. now' = now \/ now' = now + 1
  BY DEF Next, NoClick, vars, Tick, RequestFails, ShowFlagDialog, CallInsincere,
         HideFlagDialog, ListUserFlags, RenderFlagDialog, SetInsincereStamp,
         SetInsincereInsert, PostAnswered, ClickAction
<1>3. flags' = flags \/ \E e : flags' = Append(flags, e)
  BY DEF Next, NoClick, vars, Tick, RequestFails, ShowFlagDialog, CallInsincere,
         HideFlagDialog, ListUserFlags, RenderFlagDialog, SetInsincereStamp,
         SetInsincereInsert, PostAnswered, ClickAction
<1>4. ASSUME NEW e, flags' = Append(flags, e) PROVE e \in Flag
  <2>1. Len(flags) + 1 \in DOMAIN flags' /\ flags'[Len(flags) + 1] = e
    BY <1>1, <1>4
  <2> QED  BY <1>1, <2>1
<1> QED  BY <1>1, <1>2, <1>3, <1>4

LEMMA LoadStep ==
  ASSUME LoadInv, ToggleInv, ToggleInv', [AuditNext]_auditVars
  PROVE  LoadInv'
<1>1. FlagsTyped /\ FlagsTyped'
  BY DEF ToggleInv
<1>2. /\ flags' = flags \/ \E e \in Flag : flags' = Append(flags, e)
      /\ now' \in Nat /\ now <= now'
  BY ListStepIsModeration, FlagsGrow
<1>3. CASE OtherStep \/ UNCHANGED auditVars
  <2>1. UNCHANGED pageVars
    BY <1>3 DEF OtherStep, auditVars
  <2> QED  BY <1>1, <1>2, <2>1, PageLeftAlone DEF pageVars, TablesGrow
<1>4. CASE ClickAndLoad
  BY <1>1, <1>4, LoadEventsKeeps DEF ClickAndLoad
<1>5. CASE ControlChanges
  BY <1>1, <1>5, LoadEventsKeeps DEF ControlChanges, vars
<1>6. ASSUME NEW i \in DOMAIN loads, ServeLoad(i) \/ RenderList(i) \/ FailLoad(i)
      PROVE  LoadInv'
  BY <1>1, <1>6, ServeLoadKeeps, LoadEndsKeeps
<1>7. ASSUME NEW e \in list, ToggleSelect(Key(e)) PROVE LoadInv'
  BY <1>1, <1>2, <1>7, PageLeftAlone DEF ToggleSelect, TablesGrow
<1>8. ASSUME NEW s \in NewSightings, ReportArrives(s) PROVE LoadInv'
  BY <1>1, <1>2, <1>8, PageLeftAlone, PageAssumption DEF ReportArrives, TablesGrow
<1> QED  BY <1>3, <1>4, <1>5, <1>6, <1>7, <1>8 DEF AuditNext

\* audit_sightings.html:228-245: for any users, reports, horizon,
\* limit and number of fetches, the list of a page at rest whose last fetch
\* neither failed nor overlapped another shows one moment of the tables since
\* that fetch (UntroubledListIsCurrent).
THEOREM QuietListIsCurrent == AuditSpec => []UntroubledListIsCurrent
<1>1. AuditInit => LoadInv
  <2>1. Len(OldSightings) \in Nat /\ Len(<<>>) = 0
    BY PageAssumption
  <2> QED  BY <2>1, PageAssumption DEF AuditInit, Init, LoadInv
<1>2. LoadInv /\ ToggleInv /\ ToggleInv' /\ [AuditNext]_auditVars => LoadInv'
  BY LoadStep
<1>3. LoadInv => UntroubledListIsCurrent
  <2>1. \A r : <<>> # <<r>>
    OBVIOUS
  <2> QED  BY <2>1 DEF LoadInv, UntroubledListIsCurrent, Current
<1>4. AuditSpec => []ToggleInv
  BY ListImplementsModeration, TogglesInvariant, PTL
<1> QED  BY <1>1, <1>2, <1>3, <1>4, PTL DEF AuditSpec
=============================================================================
