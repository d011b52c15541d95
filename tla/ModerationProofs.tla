-------------------------- MODULE ModerationProofs --------------------------
(***************************************************************************)
(* Theorems about Moderation: whatever dialogs, requests and direct calls  *)
(* overlap, the derivations of insincerity agree for every user who was    *)
(* only ever flagged and cleared by those who had seen all their rows.     *)
(***************************************************************************)
EXTENDS Moderation, FiniteSetTheorems, TLAPS

Seen(u) == Cardinality(RowsOf(u))

\* What is in flight has seen some of its target's rows, and, when it has seen
\* all of them, holds what the newest row says, or a button's opposite of it.
Truthful(g) ==
  /\ DOMAIN g = {"id", "by", "target", "phase", "insincere", "seen"}
  /\ g.target \in Targets /\ g.insincere \in BOOLEAN /\ g.seen \in Nat
  /\ g.phase = "read" =>
       /\ g.seen <= Seen(g.target)
       /\ g.seen = Seen(g.target) => (g.insincere <=> NewestSaysInsincere(g.target))

Opposite(o) == /\ o.target \in Targets /\ o.insincere \in BOOLEAN
               /\ o.seen \in Int /\ o.seen <= Seen(o.target)
               /\ o.seen = Seen(o.target)
                    => (o.insincere <=> ~NewestSaysInsincere(o.target))

OffersOpposite ==
  /\ button \in [Moderators -> Offer \cup {None}]
  /\ \A m \in Moderators : button[m] # None => Opposite(button[m])

\* The stamp of a request is no older than what it saw.
Stamped(p) == /\ p.at \in Nat /\ p.at <= now
              /\ p.seen = Seen(p.target) => \A k \in RowsOf(p.target) : flags[k].at <= p.at

PostOpposite(p) ==
  /\ DOMAIN p = {"id", "by", "target", "insincere", "seen", "phase", "at"}
  /\ p.phase # "stored" => Opposite(p)
  /\ p.phase = "stamped" => Stamped(p)

FlagsTyped == /\ now \in Nat /\ flags \in Seq(Flag)
              /\ \A k \in DOMAIN flags : flags[k].at <= now

\* A user's sum is 1 while the newest of their rows flags them, and 0 otherwise.
Agree(u) == /\ FlagSum(flags, u) \in {0, 1}
            /\ FlagSum(flags, u) = 1 <=> NewestSaysInsincere(u)

ToggleInv == /\ FlagsTyped /\ OffersOpposite
             /\ \A g \in gets : Truthful(g)
             /\ \A p \in posts : PostOpposite(p)
             /\ \A u \in Targets \ blind : Agree(u)

-----------------------------------------------------------------------------
(* The rows of a user.                                                     *)

LEMMA RowsFinite ==
  ASSUME FlagsTyped, NEW u
  PROVE  /\ IsFiniteSet(RowsOf(u)) /\ Seen(u) \in Nat
         /\ \A v : IsFiniteSet(Rows(flags, u, v)) /\ Cardinality(Rows(flags, u, v)) \in Nat
<1>1. IsFiniteSet(DOMAIN flags)
  <2>1. DOMAIN flags = 1 .. Len(flags) /\ Len(flags) \in Nat
    BY DEF FlagsTyped
  <2> QED  BY <2>1, FS_Interval
<1>2. RowsOf(u) \in SUBSET DOMAIN flags
  BY DEF RowsOf
<1>3. ASSUME NEW v PROVE Rows(flags, u, v) \in SUBSET DOMAIN flags
  BY DEF Rows
<1> QED  BY <1>1, <1>2, <1>3, FS_Subset, FS_CardinalityType DEF Seen

\* Nothing about a user's rows changes while the table stays.
LEMMA SameRows ==
  ASSUME UNCHANGED flags, NEW u
  PROVE  /\ RowsOf(u)' = RowsOf(u) /\ Seen(u)' = Seen(u)
         /\ NewestSaysInsincere(u)' <=> NewestSaysInsincere(u)
         /\ Agree(u)' <=> Agree(u)
BY DEF RowsOf, Seen, NewestSaysInsincere, Newest, Agree

\* While the table stays, only what is new in flight needs a look.
LEMMA Quiet ==
  ASSUME ToggleInv, UNCHANGED <<flags, blind>>, now' \in Nat, now <= now',
         button' = button \/ OffersOpposite',
         \A g \in gets' \ gets : Truthful(g)',
         \A p \in posts' \ posts : PostOpposite(p)'
  PROVE  ToggleInv'
<1>1. ASSUME NEW o, Opposite(o) PROVE Opposite(o)'
  BY <1>1, SameRows DEF Opposite
<1>2. ASSUME NEW g, Truthful(g) PROVE Truthful(g)'
  BY <1>2, SameRows DEF Truthful
<1>3. ASSUME NEW p, PostOpposite(p) PROVE PostOpposite(p)'
  <2>1. Stamped(p) => Stamped(p)'
    BY SameRows DEF Stamped, ToggleInv, FlagsTyped
  <2> QED  BY <1>1, <1>3, <2>1 DEF PostOpposite
<1>4. FlagsTyped'
  <2>1. \A k \in DOMAIN flags : flags[k].at \in Nat
    <3>1. \A k \in DOMAIN flags : flags[k] \in Flag
      BY DEF ToggleInv, FlagsTyped
    <3> QED  BY <3>1 DEF Flag
  <2> QED  BY <2>1 DEF ToggleInv, FlagsTyped
<1>5. button' = button => OffersOpposite'
  BY <1>1 DEF ToggleInv, OffersOpposite
<1>6. \A u \in Targets \ blind' : Agree(u)'
  BY SameRows DEF ToggleInv
<1> QED  BY <1>2, <1>3, <1>4, <1>5, <1>6 DEF ToggleInv

LEMMA TickKeeps == ASSUME ToggleInv, Tick PROVE ToggleInv'
<1>1. now \in Nat
  BY DEF ToggleInv, FlagsTyped
<1> QED  BY <1>1, Quiet DEF Tick

LEMMA RequestFailsKeeps == ASSUME ToggleInv, RequestFails PROVE ToggleInv'
<1>1. now \in Nat
  BY DEF ToggleInv, FlagsTyped
<1>2. gets' \subseteq gets /\ posts' \subseteq posts
  BY DEF RequestFails
<1> QED  BY <1>1, <1>2, Quiet DEF RequestFails

LEMMA ShowFlagDialogKeeps ==
  ASSUME ToggleInv, NEW m \in Moderators, NEW u \in Targets, ShowFlagDialog(m, u)
  PROVE  ToggleInv'
<1>1. now \in Nat
  BY DEF ToggleInv, FlagsTyped
<1>2. ASSUME NEW g \in gets' \ gets PROVE Truthful(g)'
  <2> DEFINE n == FreeId(gets, m)
  <2>1. g = [id |-> n, by |-> m, target |-> u, phase |-> "sent",
             insincere |-> FALSE, seen |-> 0]
    BY <1>2 DEF ShowFlagDialog
  <2> HIDE DEF n
  <2> QED  BY <2>1 DEF Truthful
<1>3. OffersOpposite'
  BY SameRows DEF ShowFlagDialog, ToggleInv, OffersOpposite, Opposite
<1> QED  BY <1>1, <1>2, <1>3, Quiet DEF ShowFlagDialog

LEMMA HideFlagDialogKeeps ==
  ASSUME ToggleInv, NEW m \in Moderators, HideFlagDialog(m)
  PROVE  ToggleInv'
<1>1. now \in Nat
  BY DEF ToggleInv, FlagsTyped
<1> QED  BY <1>1, Quiet DEF HideFlagDialog

LEMMA CallInsincereKeeps ==
  ASSUME ToggleInv, NEW m \in Moderators, NEW u \in Targets, CallInsincere(m, u)
  PROVE  ToggleInv'
<1>1. now \in Nat /\ Seen(u)' \in Nat
  BY RowsFinite, SameRows DEF ToggleInv, FlagsTyped, CallInsincere
<1>2. ASSUME NEW p \in posts' \ posts PROVE PostOpposite(p)'
  <2> DEFINE n == FreeId(posts, m)
  <2>1. PICK insincere \in BOOLEAN :
          p = [id |-> n, by |-> m, target |-> u, insincere |-> insincere,
               seen |-> -1, phase |-> "sent", at |-> 0]
    BY <1>2 DEF CallInsincere
  <2> HIDE DEF n
  <2> QED  BY <1>1, <2>1 DEF PostOpposite, Opposite
<1> QED  BY <1>1, <1>2, Quiet DEF CallInsincere

LEMMA ListUserFlagsKeeps ==
  ASSUME ToggleInv, NEW g \in gets, ListUserFlags(g)
  PROVE  ToggleInv'
<1>1. now \in Nat
  BY DEF ToggleInv, FlagsTyped
<1> PICK r : r = [g EXCEPT !.phase = "read",
                           !.insincere = NewestSaysInsincere(g.target),
                           !.seen = Cardinality(RowsOf(g.target))]
  OBVIOUS
<1>2. Truthful(g) /\ Seen(g.target) \in Nat
  BY RowsFinite DEF ToggleInv
<1>3. NewestSaysInsincere(g.target) \in BOOLEAN
  BY DEF NewestSaysInsincere
<1>4. /\ DOMAIN r = DOMAIN g /\ r.target = g.target
      /\ r.insincere = NewestSaysInsincere(g.target) /\ r.seen = Seen(g.target)
  BY <1>2 DEF Truthful, Seen
<1>5. gets' \ gets \subseteq {r} /\ UNCHANGED <<now, flags, button, posts, blind>>
  BY DEF ListUserFlags
<1>6. Truthful(r)
  BY <1>2, <1>3, <1>4 DEF Truthful
<1>7. Truthful(r)'
  BY <1>5, <1>6, SameRows DEF Truthful
<1> QED  BY <1>1, <1>5, <1>7, Quiet

LEMMA RenderFlagDialogKeeps ==
  ASSUME ToggleInv, NEW g \in gets, RenderFlagDialog(g)
  PROVE  ToggleInv'
<1>1. now \in Nat
  BY DEF ToggleInv, FlagsTyped
<1>2. Truthful(g) /\ g.phase = "read"
  BY DEF ToggleInv, RenderFlagDialog
<1> DEFINE o == [target |-> g.target, insincere |-> ~g.insincere, seen |-> g.seen]
<1>3. o.target = g.target /\ o.insincere = (~g.insincere) /\ o.seen = g.seen
  OBVIOUS
<1>4. o \in Offer
  BY <1>2 DEF Truthful, Offer
<1>5. /\ button' = [button EXCEPT ![g.by] = o]
      /\ UNCHANGED <<now, flags, posts, blind>> /\ gets' \subseteq gets
  <2>1. button' = [button EXCEPT ![g.by] = o]
    BY Zenon DEF RenderFlagDialog
  <2> QED  BY <2>1 DEF RenderFlagDialog
<1> HIDE DEF o
<1>6. Opposite(o)
  <2>1. o.insincere \in BOOLEAN /\ (o.insincere <=> ~g.insincere)
    BY <1>3, Zenon
  <2>2. g.seen = Seen(g.target) => (g.insincere <=> NewestSaysInsincere(g.target))
    BY <1>2 DEF Truthful
  <2>3. o.seen = Seen(o.target) => (o.insincere <=> ~NewestSaysInsincere(o.target))
    BY <1>3, <2>1, <2>2
  <2> QED  BY <1>2, <1>3, <2>1, <2>3 DEF Truthful, Opposite
<1>7. OffersOpposite'
  <2>1. ASSUME NEW p, Opposite(p) PROVE Opposite(p)'
    BY <1>5, <2>1, SameRows DEF Opposite
  <2>2. button' \in [Moderators -> Offer \cup {None}]
    BY <1>4, <1>5 DEF ToggleInv, OffersOpposite
  <2>3. \A m \in Moderators : button'[m] \in {button[m], o}
    BY <1>5 DEF ToggleInv, OffersOpposite
  <2>4. \A m \in Moderators : button'[m] # None => Opposite(button'[m])
    BY <1>6, <2>3 DEF ToggleInv, OffersOpposite
  <2> QED  BY <2>1, <2>2, <2>4 DEF OffersOpposite
<1> QED  BY <1>1, <1>5, <1>7, Quiet

LEMMA ClickActionKeeps ==
  ASSUME ToggleInv, NEW m \in Moderators, ClickAction(m)
  PROVE  ToggleInv'
<1>1. now \in Nat /\ UNCHANGED <<now, flags, gets, blind>>
  BY DEF ToggleInv, FlagsTyped, ClickAction
<1>2. Opposite(button[m])
  BY DEF ToggleInv, OffersOpposite, ClickAction
<1>3. OffersOpposite'
  <2>1. ASSUME NEW o, Opposite(o) PROVE Opposite(o)'
    BY <1>1, <2>1, SameRows DEF Opposite
  <2>2. /\ button' \in [Moderators -> Offer \cup {None}]
        /\ \A k \in Moderators : button'[k] # None => Opposite(button'[k])
    BY DEF ToggleInv, OffersOpposite, ClickAction
  <2> QED  BY <2>1, <2>2 DEF OffersOpposite
<1>4. ASSUME NEW p \in posts' \ posts PROVE PostOpposite(p)'
  <2> DEFINE n == FreeId(posts, m)
  <2>1. p = [id |-> n, by |-> m, target |-> button[m].target,
             insincere |-> button[m].insincere, seen |-> button[m].seen,
             phase |-> "sent", at |-> 0]
    BY <1>4 DEF ClickAction
  <2> HIDE DEF n
  <2>2. /\ p.target = button[m].target /\ p.insincere = button[m].insincere
        /\ p.seen = button[m].seen /\ p.phase = "sent"
        /\ DOMAIN p = {"id", "by", "target", "insincere", "seen", "phase", "at"}
    BY <2>1
  <2>3. Opposite(p)
    BY <1>2, <2>2 DEF Opposite
  <2>4. Opposite(p)'
    BY <1>1, <2>3, SameRows DEF Opposite
  <2> QED  BY <2>2, <2>4 DEF PostOpposite
<1> QED  BY <1>1, <1>3, <1>4, Quiet

LEMMA PostAnsweredKeeps ==
  ASSUME ToggleInv, NEW p \in posts, PostAnswered(p)
  PROVE  ToggleInv'
<1>1. now \in Nat
  BY DEF ToggleInv, FlagsTyped
<1> QED  BY <1>1, Quiet DEF PostAnswered

\* The stamp is taken after the request has seen its target's rows.
LEMMA SetInsincereStampKeeps ==
  ASSUME ToggleInv, NEW p \in posts, SetInsincereStamp(p)
  PROVE  ToggleInv'
<1>1. now \in Nat /\ UNCHANGED <<now, flags, button, gets, blind>> /\ p.phase = "sent"
  BY DEF ToggleInv, FlagsTyped, SetInsincereStamp
<1>2. PostOpposite(p) /\ Opposite(p)
  BY <1>1 DEF ToggleInv, PostOpposite
<1> PICK r : r = [p EXCEPT !.phase = "stamped", !.at = now]
  OBVIOUS
<1>3. /\ DOMAIN r = DOMAIN p /\ r.phase = "stamped" /\ r.at = now
      /\ r.target = p.target /\ r.insincere = p.insincere /\ r.seen = p.seen
  BY <1>2 DEF PostOpposite
<1>4. posts' \ posts \subseteq {r}
  BY DEF SetInsincereStamp
<1>5. Opposite(r)
  BY <1>2, <1>3 DEF Opposite
<1>6. Stamped(r)
  <2>1. \A k \in RowsOf(r.target) : flags[k].at <= now
    BY DEF ToggleInv, FlagsTyped, RowsOf
  <2> QED  BY <1>1, <1>3, <2>1 DEF Stamped
<1>7. Opposite(r)' /\ Stamped(r)'
  BY <1>1, <1>5, <1>6, SameRows DEF Opposite, Stamped
<1>8. PostOpposite(r)'
  BY <1>2, <1>3, <1>7 DEF PostOpposite
<1> QED  BY <1>1, <1>4, <1>8, Quiet

-----------------------------------------------------------------------------
(* A row is written.                                                       *)

LEMMA OneMore ==
  ASSUME NEW S, IsFiniteSet(S), NEW x, x \notin S, NEW T, T = S \cup {x}
  PROVE  Cardinality(T) = Cardinality(S) + 1
BY FS_AddElement

LEMMA RowWritten ==
  ASSUME FlagsTyped, NEW row \in Flag, flags' = Append(flags, row), now' = now,
         row.at <= now
  PROVE  /\ FlagsTyped'
         /\ \E n : /\ DOMAIN flags' = DOMAIN flags \cup {n} /\ n \notin DOMAIN flags
                   /\ n \in Nat /\ \A k \in DOMAIN flags : flags'[k] = flags[k] /\ k < n
                   /\ flags'[n] = row
<1>1. /\ flags' \in Seq(Flag) /\ Len(flags) \in Nat
      /\ DOMAIN flags = 1 .. Len(flags) /\ DOMAIN flags' = 1 .. Len(flags) + 1
      /\ \A k \in DOMAIN flags : flags'[k] = flags[k]
      /\ flags'[Len(flags) + 1] = row
  BY DEF FlagsTyped
<1> PICK n : n = Len(flags) + 1
  OBVIOUS
<1>2. /\ DOMAIN flags' = DOMAIN flags \cup {n} /\ n \notin DOMAIN flags
      /\ n \in Nat /\ \A k \in DOMAIN flags : flags'[k] = flags[k] /\ k < n
      /\ flags'[n] = row
  BY <1>1
<1>3. \A k \in DOMAIN flags' : flags'[k].at <= now'
  BY <1>2 DEF FlagsTyped
<1> QED  BY <1>1, <1>2, <1>3 DEF FlagsTyped

LEMMA OtherUsersRows ==
  ASSUME NEW n, NEW row, DOMAIN flags' = DOMAIN flags \cup {n}, n \notin DOMAIN flags,
         \A k \in DOMAIN flags : flags'[k] = flags[k], flags'[n] = row,
         NEW v, row.target # v
  PROVE  /\ RowsOf(v)' = RowsOf(v) /\ Seen(v)' = Seen(v)
         /\ \A k \in RowsOf(v) : flags'[k] = flags[k]
         /\ NewestSaysInsincere(v)' <=> NewestSaysInsincere(v)
         /\ Agree(v)' <=> Agree(v)
<1>1. RowsOf(v)' = RowsOf(v) /\ \A k \in RowsOf(v) : flags'[k] = flags[k]
  BY DEF RowsOf
<1>2. Newest(v)' = Newest(v)
  BY <1>1 DEF Newest
<1>3. NewestSaysInsincere(v)' <=> NewestSaysInsincere(v)
  BY <1>1, <1>2 DEF NewestSaysInsincere, Newest
<1>4. \A value : Rows(flags', v, value) = Rows(flags, v, value)
  BY DEF Rows
<1>5. FlagSum(flags', v) = FlagSum(flags, v)
  BY <1>4 DEF FlagSum
<1> QED  BY <1>1, <1>3, <1>5 DEF Seen, Agree

LEMMA OwnRows ==
  ASSUME FlagsTyped, NEW n \in Nat, NEW row \in Flag,
         DOMAIN flags' = DOMAIN flags \cup {n}, n \notin DOMAIN flags,
         \A k \in DOMAIN flags : flags'[k] = flags[k] /\ k < n, flags'[n] = row,
         NEW u, row.target = u
  PROVE  /\ Seen(u)' = Seen(u) + 1
         /\ (\A k \in RowsOf(u) : flags[k].at <= row.at)
              => (NewestSaysInsincere(u)' <=> row.value = 1)
         /\ FlagSum(flags', u) = FlagSum(flags, u) + row.value
<1>1. RowsOf(u)' = RowsOf(u) \cup {n} /\ n \notin RowsOf(u)
  BY DEF RowsOf
<1>2. Seen(u)' = Seen(u) + 1
  <2>1. IsFiniteSet(RowsOf(u))
    BY RowsFinite
  <2> QED  BY <1>1, <2>1, OneMore DEF Seen
<1>3. ASSUME \A k \in RowsOf(u) : flags[k].at <= row.at
      PROVE  NewestSaysInsincere(u)' <=> row.value = 1
  <2>1. \A k \in RowsOf(u) : /\ k \in Nat /\ k < n /\ flags'[k] = flags[k]
                             /\ flags[k].at \in Nat
    <3>1. \A k \in DOMAIN flags : flags[k] \in Flag /\ k \in Nat
      BY DEF FlagsTyped
    <3> QED  BY <3>1 DEF RowsOf, Flag
  <2>2. row.at \in Nat
    BY DEF Flag
  <2>3. Newest(u)' = {n}
    BY <1>1, <1>3, <2>1, <2>2 DEF Newest
  <2> QED  BY <2>3 DEF NewestSaysInsincere
<1>4. FlagSum(flags', u) = FlagSum(flags, u) + row.value
  <2>1. Rows(flags', u, row.value) = Rows(flags, u, row.value) \cup {n}
        /\ n \notin Rows(flags, u, row.value)
    BY DEF Rows
  <2>2. \A v : v # row.value => Rows(flags', u, v) = Rows(flags, u, v)
    BY DEF Rows
  <2>3. Cardinality(Rows(flags', u, row.value)) = Cardinality(Rows(flags, u, row.value)) + 1
    <3>1. IsFiniteSet(Rows(flags, u, row.value))
      BY RowsFinite
    <3> QED  BY <2>1, <3>1, OneMore
  <2>4. row.value \in {-1, 1}
    BY DEF Flag
  <2>5. \A v : Cardinality(Rows(flags, u, v)) \in Nat
    BY RowsFinite
  <2>6. CASE row.value = 1
    BY <2>2, <2>3, <2>5, <2>6 DEF FlagSum
  <2>7. CASE row.value = -1
    BY <2>2, <2>3, <2>5, <2>7 DEF FlagSum
  <2> QED  BY <2>4, <2>6, <2>7
<1> QED  BY <1>2, <1>3, <1>4

LEMMA SetInsincereInsertKeeps ==
  ASSUME ToggleInv, NEW p \in posts, SetInsincereInsert(p)
  PROVE  ToggleInv'
<1> PICK u : u = p.target
  OBVIOUS
<1> PICK row : row = [target |-> p.target, value |-> IF p.insincere THEN 1 ELSE -1,
                      at |-> p.at]
  OBVIOUS
<1>1. /\ FlagsTyped /\ PostOpposite(p) /\ Opposite(p) /\ Stamped(p)
      /\ p.phase = "stamped" /\ UNCHANGED <<now, button, gets>>
      /\ flags' = Append(flags, row)
      /\ blind' = IF p.seen = Seen(u) THEN blind ELSE blind \cup {u}
  BY DEF ToggleInv, PostOpposite, SetInsincereInsert, Seen
<1>2. /\ row.target = u /\ u \in Targets /\ row.at = p.at /\ row.at <= now
      /\ row \in Flag
      /\ row.value \in {1, -1} /\ (row.value = 1 <=> p.insincere)
  <2>1. p.insincere \in BOOLEAN /\ p.target \in Targets /\ p.at \in Nat /\ p.at <= now
    BY <1>1 DEF Opposite, Stamped
  <2>2. CASE p.insincere
    BY <2>1, <2>2 DEF Flag
  <2>3. CASE ~p.insincere
    BY <2>1, <2>3 DEF Flag
  <2> QED  BY <2>2, <2>3
<1>3. FlagsTyped'
  BY <1>1, <1>2, RowWritten
<1>4. PICK n : /\ DOMAIN flags' = DOMAIN flags \cup {n} /\ n \notin DOMAIN flags
               /\ n \in Nat /\ \A k \in DOMAIN flags : flags'[k] = flags[k] /\ k < n
               /\ flags'[n] = row
  BY <1>1, <1>2, RowWritten
<1>5. ASSUME NEW v, v # u
      PROVE  /\ RowsOf(v)' = RowsOf(v) /\ Seen(v)' = Seen(v)
             /\ \A k \in RowsOf(v) : flags'[k] = flags[k]
             /\ NewestSaysInsincere(v)' <=> NewestSaysInsincere(v)
             /\ Agree(v)' <=> Agree(v)
  BY <1>2, <1>4, <1>5, OtherUsersRows
<1>6. Seen(u) \in Nat /\ Seen(u)' = Seen(u) + 1
  BY <1>1, <1>2, <1>4, OwnRows, RowsFinite
\* Who had seen every row of the user has not seen the new one.
<1>7. ASSUME NEW o, Opposite(o) PROVE Opposite(o)'
  BY <1>5, <1>6, <1>7 DEF Opposite
<1>8. ASSUME NEW g, Truthful(g) PROVE Truthful(g)'
  BY <1>5, <1>6, <1>8 DEF Truthful
<1>9. ASSUME NEW q, PostOpposite(q) PROVE PostOpposite(q)'
  <2>1. ASSUME q.phase = "stamped" PROVE Stamped(q)'
    <3>1. Stamped(q) /\ Opposite(q)
      BY <1>9, <2>1 DEF PostOpposite
    <3>2. CASE q.target = u
      <4>1. q.seen # Seen(u)'
        BY <1>6, <3>1, <3>2 DEF Opposite
      <4> QED  BY <1>1, <3>1, <3>2, <4>1 DEF Stamped
    <3>3. CASE q.target # u
      <4> PICK v : v = q.target
        OBVIOUS
      <4>1. /\ RowsOf(v)' = RowsOf(v) /\ Seen(v)' = Seen(v)
            /\ \A k \in RowsOf(v) : flags'[k] = flags[k]
        BY <1>5, <3>3
      <4> QED  BY <1>1, <3>1, <4>1 DEF Stamped
    <3> QED  BY <3>2, <3>3
  <2> QED  BY <1>7, <1>9, <2>1 DEF PostOpposite
<1>10. OffersOpposite'
  BY <1>1, <1>7 DEF ToggleInv, OffersOpposite
<1>11. \A g \in gets' : Truthful(g)'
  BY <1>1, <1>8 DEF ToggleInv
<1>12. \A q \in posts' : PostOpposite(q)'
  <2> PICK r : r = [p EXCEPT !.phase = "stored", !.seen = 0, !.at = 0]
    OBVIOUS
  <2>1. r.phase = "stored" /\ DOMAIN r = DOMAIN p
    BY <1>1 DEF PostOpposite
  <2>2. PostOpposite(r)'
    BY <1>1, <2>1 DEF PostOpposite
  <2>3. posts' \subseteq posts \cup {r}
    BY DEF SetInsincereInsert
  <2> QED  BY <1>9, <2>2, <2>3 DEF ToggleInv
<1>13. ASSUME NEW v \in Targets \ blind' PROVE Agree(v)'
  <2>1. CASE v # u
    BY <1>1, <1>5, <2>1 DEF ToggleInv
  <2>2. CASE v = u
    <3>1. p.seen = Seen(u) /\ Agree(u)
      BY <1>1, <1>13, <2>2 DEF ToggleInv
    <3>2. p.insincere <=> ~NewestSaysInsincere(u)
      BY <1>1, <3>1 DEF Opposite
    <3>3. \A k \in RowsOf(u) : flags[k].at <= row.at
      BY <1>1, <1>2, <3>1 DEF Stamped
    <3>4. /\ NewestSaysInsincere(u)' <=> row.value = 1
          /\ FlagSum(flags', u) = FlagSum(flags, u) + row.value
      BY <1>1, <1>2, <1>4, <3>3, OwnRows
    <3> QED  BY <1>2, <2>2, <3>1, <3>2, <3>4 DEF Agree
  <2> QED  BY <2>1, <2>2
<1> QED  BY <1>3, <1>10, <1>11, <1>12, <1>13 DEF ToggleInv

LEMMA InitToggles == Init => ToggleInv
<1> SUFFICES ASSUME Init PROVE ToggleInv
  OBVIOUS
<1>1. /\ flags = <<>> /\ DOMAIN flags = {} /\ now = 0
      /\ flags \in Seq(Flag)
  BY DEF Init
<1>2. ASSUME NEW u PROVE Agree(u)
  <2>1. Rows(flags, u, 1) = {} /\ Rows(flags, u, -1) = {}
    BY <1>1 DEF Rows
  <2>2. FlagSum(flags, u) = 0
    BY <2>1, FS_EmptySet DEF FlagSum
  <2>3. ~NewestSaysInsincere(u)
    BY <1>1 DEF NewestSaysInsincere, Newest, RowsOf
  <2> QED  BY <2>2, <2>3 DEF Agree
<1> QED  BY <1>1, <1>2 DEF Init, ToggleInv, FlagsTyped, OffersOpposite

\* Dialogs, requests and rows stay in step, for every user no one wrote about
\* unseen (audit_sightings.html, SetInsincere).
THEOREM TogglesInvariant == Spec => []ToggleInv
<1>1. ToggleInv /\ [Next]_vars => ToggleInv'
  <2> SUFFICES ASSUME ToggleInv, [Next]_vars PROVE ToggleInv'
    OBVIOUS
  <2>1. CASE Tick \/ RequestFails
    BY <2>1, TickKeeps, RequestFailsKeeps
  <2>2. ASSUME NEW m \in Moderators, NEW u \in Targets,
               ShowFlagDialog(m, u) \/ CallInsincere(m, u)
        PROVE  ToggleInv'
    BY <2>2, ShowFlagDialogKeeps, CallInsincereKeeps
  <2>3. ASSUME NEW m \in Moderators, HideFlagDialog(m) \/ ClickAction(m)
        PROVE  ToggleInv'
    BY <2>3, HideFlagDialogKeeps, ClickActionKeeps
  <2>4. ASSUME NEW g \in gets, ListUserFlags(g) \/ RenderFlagDialog(g)
        PROVE  ToggleInv'
    BY <2>4, ListUserFlagsKeeps, RenderFlagDialogKeeps
  <2>5. ASSUME NEW p \in posts,
               SetInsincereStamp(p) \/ SetInsincereInsert(p) \/ PostAnswered(p)
        PROVE  ToggleInv'
    BY <2>5, SetInsincereStampKeeps, SetInsincereInsertKeeps, PostAnsweredKeeps
  <2>6. CASE UNCHANGED vars
    <3>1. now \in Nat
      BY DEF ToggleInv, FlagsTyped
    <3> QED  BY <2>6, <3>1, Quiet DEF vars
  <2> QED  BY <2>1, <2>2, <2>3, <2>4, <2>5, <2>6 DEF Next, NoClick
<1> QED  BY <1>1, InitToggles, PTL DEF Spec

\* The map's sum and the dialog's newest row agree on every user whose rows were
\* each written by someone who had seen those before (SeenTogglesAgree).
THEOREM SumAgreesWithNewest == Spec => []SeenTogglesAgree
<1>1. ToggleInv => SeenTogglesAgree
  BY DEF ToggleInv, Agree, SeenTogglesAgree, SumSaysInsincere
<1> QED  BY <1>1, TogglesInvariant, PTL

\* Such a user's rows alternate (SeenTogglesAlternate).
THEOREM RowsAlternate == Spec => []SeenTogglesAlternate
<1>1. ToggleInv => SeenTogglesAlternate
  BY DEF ToggleInv, Agree, SeenTogglesAlternate
<1> QED  BY <1>1, TogglesInvariant, PTL

-----------------------------------------------------------------------------
(* Types.                                                                  *)

\* Of one number more than there are requests, one is free: FreeId chooses one
\* no request of the page has.
LEMMA FreeIdIsFree ==
  ASSUME NEW R, IsFiniteSet(R), NEW m
  PROVE  FreeId(R, m) \in Nat /\ \A r \in R : r.by = m => r.id # FreeId(R, m)
<1> DEFINE n == Cardinality(R)
<1>1. n \in Nat
  BY FS_CardinalityType
<1>2. \E i \in 1 .. n + 1 : \A r \in R : r.by = m => r.id # i
  <2> SUFFICES ASSUME \A i \in 1 .. n + 1 : \E r \in R : r.id = i
               PROVE  FALSE
    OBVIOUS
  <2> DEFINE f == [i \in 1 .. n + 1 |-> CHOOSE r \in R : r.id = i]
  <2>1. \A i \in 1 .. n + 1 : f[i] \in R /\ f[i].id = i
    OBVIOUS
  <2>2. f \in [1 .. n + 1 -> R]
    BY <2>1
  <2>3. IsFiniteSet(1 .. n + 1) /\ Cardinality(1 .. n + 1) = n + 1
    BY <1>1, FS_Interval
  <2> HIDE DEF f
  <2>4. f \in Injection(1 .. n + 1, R)
    BY <2>1, <2>2 DEF Injection, IsInjective
  <2>5. Cardinality(1 .. n + 1) <= n
    BY <2>4, FS_Injection
  <2> QED  BY <1>1, <2>3, <2>5
<1>3. FreeId(R, m) \in 1 .. n + 1 /\ \A r \in R : r.by = m => r.id # FreeId(R, m)
  BY <1>2, Zenon DEF FreeId
<1> QED  BY <1>1, <1>3

InFlightFinite == IsFiniteSet(gets) /\ IsFiniteSet(posts)

\* A request more or less leaves finitely many.
LEMMA OneRequestFinite ==
  ASSUME NEW R, IsFiniteSet(R), NEW x, NEW y
  PROVE  /\ IsFiniteSet(R \cup {x}) /\ IsFiniteSet(R \ {x})
         /\ IsFiniteSet((R \ {x}) \cup {y})
BY FS_AddElement, FS_RemoveElement

LEMMA PageTyped ==
  ASSUME TypeOK, InFlightFinite, NEW m \in Moderators,
         \/ \E u \in Targets : ShowFlagDialog(m, u) \/ CallInsincere(m, u)
         \/ HideFlagDialog(m) \/ ClickAction(m)
  PROVE  TypeOK' /\ InFlightFinite'
<1>1. FreeId(gets, m) \in Nat /\ FreeId(posts, m) \in Nat
  BY FreeIdIsFree DEF InFlightFinite
<1>2. ASSUME NEW u \in Targets, ShowFlagDialog(m, u) PROVE TypeOK' /\ InFlightFinite'
  <2> PICK g : g = [id |-> FreeId(gets, m), by |-> m, target |-> u, phase |-> "sent",
                    insincere |-> FALSE, seen |-> 0]
    OBVIOUS
  <2>1. g \in Get /\ gets' = gets \cup {g}
    BY <1>1, <1>2 DEF Get, ShowFlagDialog
  <2>2. InFlightFinite'
    <3>1. posts' = posts
      BY <1>2 DEF ShowFlagDialog
    <3> QED  BY <2>1, <3>1, OneRequestFinite, Zenon DEF InFlightFinite
  <2> QED  BY <1>2, <2>1, <2>2 DEF ShowFlagDialog, TypeOK
<1>3. ASSUME NEW u \in Targets, CallInsincere(m, u) PROVE TypeOK' /\ InFlightFinite'
  <2>1. PICK insincere \in BOOLEAN :
          posts' = posts \cup {[id |-> FreeId(posts, m), by |-> m, target |-> u,
                                insincere |-> insincere, seen |-> -1,
                                phase |-> "sent", at |-> 0]}
    BY <1>3 DEF CallInsincere
  <2> PICK p : p = [id |-> FreeId(posts, m), by |-> m, target |-> u,
                    insincere |-> insincere, seen |-> -1, phase |-> "sent", at |-> 0]
    OBVIOUS
  <2>2. p \in Post /\ posts' = posts \cup {p}
    BY <1>1, <2>1 DEF Post
  <2>3. InFlightFinite'
    BY <1>3, <2>2, OneRequestFinite DEF CallInsincere, InFlightFinite
  <2> QED  BY <1>3, <2>2, <2>3 DEF CallInsincere, TypeOK
<1>4. CASE HideFlagDialog(m)
  BY <1>4 DEF HideFlagDialog, TypeOK, InFlightFinite
<1>5. CASE ClickAction(m)
  <2> PICK p : p = [id |-> FreeId(posts, m), by |-> m, target |-> button[m].target,
                    insincere |-> button[m].insincere,
                    seen |-> button[m].seen, phase |-> "sent", at |-> 0]
    OBVIOUS
  <2>1. button[m] \in Offer
    BY <1>5 DEF ClickAction, TypeOK
  <2>2. p \in Post /\ posts' = posts \cup {p}
    BY <1>1, <1>5, <2>1 DEF Post, Offer, ClickAction
  <2>3. InFlightFinite'
    <3>1. gets' = gets
      BY <1>5 DEF ClickAction
    <3> QED  BY <2>2, <3>1, OneRequestFinite, Zenon DEF InFlightFinite
  <2> QED  BY <1>5, <2>2, <2>3 DEF ClickAction, TypeOK
<1> QED  BY <1>2, <1>3, <1>4, <1>5

LEMMA AnswersTyped ==
  ASSUME TypeOK, InFlightFinite, FlagsTyped, NEW g \in gets,
         ListUserFlags(g) \/ RenderFlagDialog(g)
  PROVE  TypeOK' /\ InFlightFinite'
<1>1. g \in Get
  BY DEF TypeOK
<1>2. CASE ListUserFlags(g)
  <2> PICK r : r = [g EXCEPT !.phase = "read",
                             !.insincere = NewestSaysInsincere(g.target),
                             !.seen = Cardinality(RowsOf(g.target))]
    OBVIOUS
  <2>1. Cardinality(RowsOf(g.target)) \in Nat /\ NewestSaysInsincere(g.target) \in BOOLEAN
    BY RowsFinite DEF Seen, NewestSaysInsincere
  <2>2. r \in Get /\ gets' = (gets \ {g}) \cup {r}
    BY <1>1, <1>2, <2>1 DEF Get, ListUserFlags
  <2>3. InFlightFinite'
    <3>1. posts' = posts
      BY <1>2 DEF ListUserFlags
    <3> QED  BY <2>2, <3>1, OneRequestFinite, Zenon DEF InFlightFinite
  <2> QED  BY <1>2, <2>2, <2>3 DEF ListUserFlags, TypeOK
<1>3. CASE RenderFlagDialog(g)
  <2> PICK o : o = [target |-> g.target, insincere |-> ~g.insincere, seen |-> g.seen]
    OBVIOUS
  <2>1. o \in Offer
    BY <1>1 DEF Get, Offer
  <2>2. button' = [button EXCEPT ![g.by] = o]
    BY <1>3, Zenon DEF RenderFlagDialog
  <2>3. InFlightFinite'
    BY <1>3, OneRequestFinite DEF RenderFlagDialog, InFlightFinite
  <2> QED  BY <1>3, <2>1, <2>2, <2>3 DEF RenderFlagDialog, TypeOK
<1> QED  BY <1>2, <1>3

LEMMA WritesTyped ==
  ASSUME TypeOK, InFlightFinite, FlagsTyped', NEW p \in posts,
         SetInsincereStamp(p) \/ SetInsincereInsert(p) \/ PostAnswered(p)
  PROVE  TypeOK' /\ InFlightFinite'
<1>1. p \in Post
  BY DEF TypeOK
<1>2. CASE SetInsincereStamp(p)
  <2> PICK r : r = [p EXCEPT !.phase = "stamped", !.at = now]
    OBVIOUS
  <2>1. r \in Post /\ posts' = (posts \ {p}) \cup {r}
    BY <1>1, <1>2 DEF Post, SetInsincereStamp, TypeOK
  <2>2. InFlightFinite'
    <3>1. gets' = gets
      BY <1>2 DEF SetInsincereStamp
    <3> QED  BY <2>1, <3>1, OneRequestFinite, Zenon DEF InFlightFinite
  <2> QED  BY <1>2, <2>1, <2>2 DEF SetInsincereStamp, TypeOK
<1>3. CASE SetInsincereInsert(p)
  <2> PICK r : r = [p EXCEPT !.phase = "stored", !.seen = 0, !.at = 0]
    OBVIOUS
  <2>1. r \in Post /\ posts' = (posts \ {p}) \cup {r}
    BY <1>1, <1>3 DEF Post, SetInsincereInsert
  <2>2. InFlightFinite'
    <3>1. gets' = gets
      BY <1>3 DEF SetInsincereInsert
    <3> QED  BY <2>1, <3>1, OneRequestFinite, Zenon DEF InFlightFinite
  <2>3. blind' \subseteq Targets
    BY <1>1, <1>3 DEF SetInsincereInsert, TypeOK, Post
  <2> QED  BY <1>3, <2>1, <2>2, <2>3 DEF SetInsincereInsert, TypeOK, FlagsTyped
<1>4. CASE PostAnswered(p)
  <2>1. InFlightFinite'
    BY <1>4, OneRequestFinite DEF PostAnswered, InFlightFinite
  <2> QED  BY <1>4, <2>1 DEF PostAnswered, TypeOK
<1> QED  BY <1>2, <1>3, <1>4

\* Every variable keeps its type, for any pages, users and bounds (TypeOK).
THEOREM ModerationIsTyped == Spec => []TypeOK
<1>1. Init => TypeOK /\ InFlightFinite
  BY FS_EmptySet DEF Init, TypeOK, InFlightFinite
<1>2. TypeOK /\ InFlightFinite /\ ToggleInv /\ ToggleInv' /\ [Next]_vars
        => TypeOK' /\ InFlightFinite'
  <2> SUFFICES ASSUME TypeOK, InFlightFinite, ToggleInv, ToggleInv', [Next]_vars
               PROVE  TypeOK' /\ InFlightFinite'
    OBVIOUS
  <2>1. FlagsTyped /\ FlagsTyped'
    BY DEF ToggleInv
  <2>2. CASE Tick \/ UNCHANGED vars
    BY <2>2 DEF Tick, vars, TypeOK, InFlightFinite
  <2>3. CASE RequestFails
    <3>1. InFlightFinite'
      <4>1. gets' \subseteq gets /\ posts' \subseteq posts
        BY <2>3 DEF RequestFails
      <4> QED  BY <4>1, FS_Subset DEF InFlightFinite
    <3> QED  BY <2>3, <3>1 DEF RequestFails, TypeOK
  <2>4. ASSUME NEW m \in Moderators,
               \/ \E u \in Targets : ShowFlagDialog(m, u) \/ CallInsincere(m, u)
               \/ HideFlagDialog(m) \/ ClickAction(m)
        PROVE  TypeOK' /\ InFlightFinite'
    BY <2>4, PageTyped
  <2>5. ASSUME NEW g \in gets, ListUserFlags(g) \/ RenderFlagDialog(g)
        PROVE  TypeOK' /\ InFlightFinite'
    BY <2>1, <2>5, AnswersTyped
  <2>6. ASSUME NEW p \in posts,
               SetInsincereStamp(p) \/ SetInsincereInsert(p) \/ PostAnswered(p)
        PROVE  TypeOK' /\ InFlightFinite'
    BY <2>1, <2>6, WritesTyped
  <2> QED  BY <2>2, <2>3, <2>4, <2>5, <2>6 DEF Next, NoClick
<1> QED  BY <1>1, <1>2, TogglesInvariant, PTL DEF Spec
=============================================================================
