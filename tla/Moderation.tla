----------------------------- MODULE Moderation -----------------------------
(***************************************************************************)
(* Insincerity flags: the append-only table user_flags, the handlers that  *)
(* write and list it, the flag dialog of audit_sightings.html from which   *)
(* moderators toggle a flag, and the three ways the server derives from    *)
(* the table whether a user is insincere.                                  *)
(*                                                                         *)
(* A dialog offers the opposite of what it fetched.  Between that fetch    *)
(* and the INSERT, other dialogs, the same moderator's earlier request or  *)
(* a direct call may have changed the table.                               *)
(***************************************************************************)
EXTENDS MapQuery

CONSTANTS Moderators,   \* pages of users who hold audit and set-user-flags
          Targets,      \* users whose sincerity is in question
          None,         \* no user; no button
          Direct,       \* whether POST .../insincere is called as well
          MaxFlags,     \* bound on the rows written and being written
          MaxGets, MaxTime   \* bounds on fetches in flight and on the clock

ASSUME ConstantsAssumption ==
  /\ None \notin Targets
  /\ Direct \in BOOLEAN
  /\ MaxFlags \in Nat /\ MaxGets \in Nat /\ MaxTime \in Nat

VARIABLES
  now,        \* the server's clock, in seconds
  flags,      \* table user_flags; the index is the rowid
  open,       \* currentFlagTarget of each page, None when the dialog is hidden
  button,     \* the action button of each page's dialog, None without one
  gets,       \* GET .../flags requests in flight
  posts,      \* POST requests in flight
  blind       \* history: users flagged or cleared over an unseen flag row

vars == <<now, flags, open, button, gets, posts, blind>>

\* One row of user_flags, without flagged_by. The CHECK constraint admits the
\* two values only.
Flag == [target : Targets, value : {-1, 1}, at : Nat]

\* seen counts the rows of the target the button's offer was computed from.
Offer == [target : Targets, insincere : BOOLEAN, seen : Nat]

Get == [id : Nat, by : Moderators, target : Targets,
        phase : {"sent", "read"}, insincere : BOOLEAN, seen : Nat]

\* A direct call has seen nothing: seen = -1.
Post == [id : Nat, by : Moderators, target : Targets, insincere : BOOLEAN,
         seen : Nat \cup {-1}, phase : {"sent", "stamped", "stored"}, at : Nat]

RowsOf(u) == {k \in DOMAIN flags : flags[k].target = u}

\* Mutant of Newest: rows of one second in the order they were inserted.
NewestFirstOfSecond(u) == {k \in RowsOf(u) : \A j \in RowsOf(u) :
                             \/ flags[j].at < flags[k].at
                             \/ flags[j].at = flags[k].at /\ k <= j}

\* ORDER BY created_at DESC, id DESC: the rows nothing comes before.
Newest(u) == {k \in RowsOf(u) : \A j \in RowsOf(u) :
                \/ flags[j].at < flags[k].at
                \/ flags[j].at = flags[k].at /\ j <= k}

Init == /\ now = 0 /\ flags = <<>>
        /\ open = [m \in Moderators |-> None]
        /\ button = [m \in Moderators |-> None]
        /\ gets = {} /\ posts = {} /\ blind = {}

Tick == /\ now < MaxTime
        /\ now' = now + 1
        /\ UNCHANGED <<flags, open, button, gets, posts, blind>>

-----------------------------------------------------------------------------
(* What the three queries derive.                                          *)

\* The newest row's value, as the dialog shows it and as the view
\* current_insincere computes it.
NewestSaysInsincere(u) == \E k \in Newest(u) : flags[k].value = 1

\* MapData and AuditEventsSince: the sum of all rows.
SumSaysInsincere(u) == FlagSum(flags, u) > 0

\* The WHERE clause of LocationHistory, for a sighting of user u.
HistoryShows(u, includeInsincere) == ~includeInsincere \/ RowsOf(u) = {}

-----------------------------------------------------------------------------
(* The page.                                                               *)

\* A page's requests in flight are told apart by a number.
FreeId(requests, m) ==
  CHOOSE i \in 1 .. Cardinality(requests) + 1 :
    \A r \in requests : r.by = m => r.id # i

MayWrite ==
  Len(flags) + Cardinality({p \in posts : p.phase # "stored"}) < MaxFlags

\* showFlagDialog: the dialog opens empty and the fetch is sent.
ShowFlagDialog(m, u) ==
  /\ Cardinality(gets) < MaxGets
  /\ open' = [open EXCEPT ![m] = u]
  /\ button' = [button EXCEPT ![m] = None]
  /\ gets' = gets \cup {[id |-> FreeId(gets, m), by |-> m, target |-> u, phase |-> "sent",
                         insincere |-> FALSE, seen |-> 0]}
  /\ UNCHANGED <<now, flags, posts, blind>>

HideFlagDialog(m) ==
  /\ open[m] # None
  /\ open' = [open EXCEPT ![m] = None]
  /\ UNCHANGED <<now, flags, button, gets, posts, blind>>

\* Mutant of RenderFlagDialog: the button repeats what the table says.
RenderSameFlag(g) ==
  /\ g.phase = "read"
  /\ button' = [button EXCEPT ![g.by] = [target |-> g.target,
                                         insincere |-> g.insincere,
                                         seen |-> g.seen]]
  /\ gets' = gets \ {g}
  /\ UNCHANGED <<now, flags, open, posts, blind>>

\* renderFlagDialog runs when the answer comes, whatever the dialog shows by
\* then: currentFlagTarget is not consulted.
RenderFlagDialog(g) ==
  /\ g.phase = "read"
  /\ button' = [button EXCEPT ![g.by] = [target |-> g.target,
                                         insincere |-> ~g.insincere,
                                         seen |-> g.seen]]
  /\ gets' = gets \ {g}
  /\ UNCHANGED <<now, flags, open, posts, blind>>

\* The button's listener: applyInsincereFlag empties the footer and sends the
\* POST, and the dialog hides without waiting for the answer.
ClickAction(m) ==
  /\ open[m] # None /\ button[m] # None
  /\ MayWrite
  /\ posts' = posts \cup {[id |-> FreeId(posts, m), by |-> m, target |-> button[m].target,
                           insincere |-> button[m].insincere,
                           seen |-> button[m].seen, phase |-> "sent", at |-> 0]}
  /\ button' = [button EXCEPT ![m] = None]
  /\ open' = [open EXCEPT ![m] = None]
  /\ UNCHANGED <<now, flags, gets, blind>>

\* The POST's answer hides whatever dialog is open by then.
PostAnswered(p) ==
  /\ p.phase = "stored"
  /\ posts' = posts \ {p}
  /\ open' = [open EXCEPT ![p.by] = None]
  /\ UNCHANGED <<now, flags, button, gets, blind>>

\* A request fails before it reaches the table or its answer is lost.
RequestFails ==
  /\ \/ \E g \in gets : gets' = gets \ {g} /\ UNCHANGED posts
     \/ \E p \in posts : posts' = posts \ {p} /\ UNCHANGED gets
  /\ UNCHANGED <<now, flags, open, button, blind>>

\* POST /api/users/{opaque}/insincere, sent by a client of the API.
CallInsincere(m, u) ==
  /\ Direct
  /\ MayWrite
  /\ \E insincere \in BOOLEAN :
       posts' = posts \cup {[id |-> FreeId(posts, m), by |-> m, target |-> u,
                             insincere |-> insincere, seen |-> -1,
                             phase |-> "sent", at |-> 0]}
  /\ UNCHANGED <<now, flags, open, button, gets, blind>>

-----------------------------------------------------------------------------
(* The server.                                                             *)

\* handleListFlags: one SELECT.
ListUserFlags(g) ==
  /\ g.phase = "sent"
  /\ gets' = (gets \ {g}) \cup
             {[g EXCEPT !.phase = "read",
                        !.insincere = NewestSaysInsincere(g.target),
                        !.seen = Cardinality(RowsOf(g.target))]}
  /\ UNCHANGED <<now, flags, open, button, posts, blind>>

\* SetInsincere finds the target and stamps the row, then waits its turn to
\* write, up to the busy timeout.
SetInsincereStamp(p) ==
  /\ p.phase = "sent"
  /\ posts' = (posts \ {p}) \cup {[p EXCEPT !.phase = "stamped", !.at = now]}
  /\ UNCHANGED <<now, flags, open, button, gets, blind>>

\* Mutant of SetInsincereInsert: a cleared flag is a 0.
SetInsincereInsertZero(p) ==
  /\ p.phase = "stamped"
  /\ flags' = Append(flags, [target |-> p.target,
                             value |-> IF p.insincere THEN 1 ELSE 0,
                             at |-> p.at])
  /\ posts' = (posts \ {p}) \cup {[p EXCEPT !.phase = "stored", !.seen = 0, !.at = 0]}
  /\ blind' = IF p.seen = Cardinality(RowsOf(p.target)) THEN blind
              ELSE blind \cup {p.target}
  /\ UNCHANGED <<now, open, button, gets>>

SetInsincereInsert(p) ==
  /\ p.phase = "stamped"
  /\ flags' = Append(flags, [target |-> p.target,
                             value |-> IF p.insincere THEN 1 ELSE -1,
                             at |-> p.at])
  /\ posts' = (posts \ {p}) \cup {[p EXCEPT !.phase = "stored", !.seen = 0, !.at = 0]}
  /\ blind' = IF p.seen = Cardinality(RowsOf(p.target)) THEN blind
              ELSE blind \cup {p.target}
  /\ UNCHANGED <<now, open, button, gets>>

-----------------------------------------------------------------------------
\* Every step but a click on the action button.
NoClick == \/ Tick
           \/ RequestFails
           \/ \E m \in Moderators :
                \/ \E u \in Targets : ShowFlagDialog(m, u) \/ CallInsincere(m, u)
                \/ HideFlagDialog(m)
           \/ \E g \in gets : ListUserFlags(g) \/ RenderFlagDialog(g)
           \/ \E p \in posts : \/ SetInsincereStamp(p) \/ SetInsincereInsert(p)
                               \/ PostAnswered(p)

Next == NoClick \/ \E m \in Moderators : ClickAction(m)

Spec == Init /\ [][Next]_vars

-----------------------------------------------------------------------------
(* Properties.                                                             *)

\* Every variable keeps its type.
TypeOK == /\ now \in Nat
          /\ flags \in Seq(Flag)
          /\ open \in [Moderators -> Targets \cup {None}]
          /\ button \in [Moderators -> Offer \cup {None}]
          /\ gets \subseteq Get
          /\ posts \subseteq Post
          /\ blind \subseteq Targets

\* The two derivations agree for every user each of whose flag rows was written
\* by someone who had seen all the rows before it: the map hides exactly the
\* users whose newest row is a flag, whatever requests overlapped or failed.
SeenTogglesAgree ==
  \A u \in Targets \ blind : SumSaysInsincere(u) <=> NewestSaysInsincere(u)

\* Such a user's rows alternate, so one click undoes the last one.
SeenTogglesAlternate ==
  \A u \in Targets \ blind : FlagSum(flags, u) \in {0, 1}

\* index.html:22, the box "show flagged": the history of a location leaves out
\* the sightings of a user the newest row calls insincere unless it is ticked.
HistoryHidesInsincere ==
  \A u \in Targets : NewestSaysInsincere(u) => ~HistoryShows(u, FALSE)
=============================================================================
