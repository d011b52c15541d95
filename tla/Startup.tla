------------------------------ MODULE Startup ------------------------------
(***************************************************************************)
(* Opening the database and finding a user in it.  The server, the command *)
(* user-role and the importer each run db.Open on the same SQLite file, at *)
(* the same time or one after the other, on a fresh file or on one written *)
(* before opaque ids were derived; any of them may stop between two        *)
(* statements.  An open process resolves subjects to rows of table users   *)
(* and changes roles; operators edit role_permissions with SQL.            *)
(*                                                                         *)
(* An opaque id is the pair of the seed and the subject it was derived     *)
(* from: HMAC-SHA256 is taken to be injective.  Seed 0 is no seed; an      *)
(* opaque id with seed 0 is a random id of the older schema.               *)
(***************************************************************************)
EXTENDS Integers, Sequences, FiniteSets

CONSTANTS Processes,   \* processes that open the database
          Subjects,    \* identities oauth2_proxy may send
          Legacy,      \* subjects of an older database, by users.id
          Roles, Default,   \* defaultRolePermissions, as pairs
          MaxOpens     \* bound on the calls of db.Open

ASSUME ConstantsAssumption ==
  /\ Subjects # {} /\ Legacy \in Seq(Subjects)
  /\ \A i, j \in DOMAIN Legacy : Legacy[i] = Legacy[j] => i = j
  /\ "reporter" \in Roles
  /\ MaxOpens \in Nat

VARIABLES
  seed,        \* the row user_id_hash_seed of table config, 0 without one
  users,       \* table users; the index is the id
  identities,  \* table user_identities: pairs of a user id and a subject
  hasTable,    \* whether table user_identities exists
  grants,      \* table role_permissions
  pc,          \* where each process is in Open
  opens,       \* calls of Open so far: the source of fresh candidate seeds
  mine,        \* Open's variable seed: the candidate, then what it read
  pending,     \* what the migration read
  stale,       \* whether something was committed after it read
  cached,      \* Store.seed: 0 before the first use, -1 for a cached error
  session,     \* the last row each open process resolved, with its subject
  assigned,    \* history: the role last given to each subject
  revoked      \* history: the pairs an operator deleted and did not restore

tables == <<seed, users, identities, hasTable, grants>>
process == <<mine, pending, cached, session>>
vars == <<tables, pc, opens, process, stale, assigned, revoked>>

Opaque == [seed : Nat, subject : Subjects]

\* owner is a history field: the subject whose row it is.
User == [opaque : Opaque, role : Roles, owner : Subjects]

NoSession == [user |-> 0, subject |-> CHOOSE s \in Subjects : TRUE]

Derived(k, s) == [seed |-> k, subject |-> s]

Init ==
  /\ seed = 0
  /\ \E old \in {<<>>, Legacy} :
       /\ users = [i \in DOMAIN old |-> [opaque |-> Derived(0, old[i]),
                                         role |-> "reporter", owner |-> old[i]]]
       /\ identities = {<<i, old[i]>> : i \in DOMAIN old}
       /\ hasTable = (old # <<>>)
  /\ grants = {}
  /\ pc = [p \in Processes |-> "closed"]
  /\ opens = 0
  /\ mine = [p \in Processes |-> 0]
  /\ pending = [p \in Processes |-> {}]
  /\ stale = [p \in Processes |-> FALSE]
  /\ cached = [p \in Processes |-> 0]
  /\ session = [p \in Processes |-> NoSession]
  /\ assigned = [s \in Subjects |-> "reporter"]
  /\ revoked = {}

\* A commit that changed a page makes every earlier snapshot stale: SQLite
\* refuses to let a transaction that read before it write (SQLITE_BUSY).
Committed == stale' = [p \in Processes |-> TRUE]

Goto(p, from, to) == pc[p] = from /\ pc' = [pc EXCEPT ![p] = to]

-----------------------------------------------------------------------------
(* db.Open.                                                                *)

\* Ping, applySchema (every statement is idempotent) and identity.NewSeed.
Open(p) ==
  /\ Goto(p, "closed", "seed")
  /\ opens < MaxOpens
  /\ opens' = opens + 1
  /\ mine' = [mine EXCEPT ![p] = opens + 1]
  /\ UNCHANGED <<tables, pending, stale, cached, session, assigned, revoked>>

\* Mutant of InsertSeed: the candidate replaces the row.
ReplaceSeed(p) ==
  /\ Goto(p, "seed", "read")
  /\ seed' = mine[p]
  /\ Committed
  /\ UNCHANGED <<users, identities, hasTable, grants, opens, process,
                 assigned, revoked>>

\* INSERT OR IGNORE of the candidate.
InsertSeed(p) ==
  /\ Goto(p, "seed", "read")
  /\ seed' = IF seed = 0 THEN mine[p] ELSE seed
  /\ IF seed = 0 THEN Committed ELSE UNCHANGED stale
  /\ UNCHANGED <<users, identities, hasTable, grants, opens, process,
                 assigned, revoked>>

\* Mutant of ReadSeed: the process goes on with its candidate.
KeepCandidate(p) ==
  /\ Goto(p, "read", "look")
  /\ UNCHANGED <<tables, opens, process, stale, assigned, revoked>>

ReadSeed(p) ==
  /\ Goto(p, "read", "look")
  /\ mine' = [mine EXCEPT ![p] = seed]
  /\ UNCHANGED <<tables, opens, pending, cached, session, stale, assigned,
                 revoked>>

\* dropUserIdentities asks sqlite_master for the table.
LookForIdentities(p) ==
  /\ Goto(p, "look", IF hasTable THEN "rehash" ELSE "grants")
  /\ UNCHANGED <<tables, opens, process, stale, assigned, revoked>>

\* Its transaction reads the table. Without it ("no such table") Open fails.
ReadIdentities(p) ==
  /\ Goto(p, "rehash", "drop")
  /\ hasTable
  /\ pending' = [pending EXCEPT ![p] = identities]
  /\ stale' = [stale EXCEPT ![p] = FALSE]
  /\ UNCHANGED <<tables, opens, mine, cached, session, assigned, revoked>>

Rehashed(p) ==
  [i \in DOMAIN users |->
     IF \E s \in Subjects : <<i, s>> \in pending[p]
     THEN [users[i] EXCEPT !.opaque =
             Derived(mine[p], CHOOSE s \in Subjects : <<i, s>> \in pending[p])]
     ELSE users[i]]

\* Mutant of DropUserIdentities: the rows keep their random ids.
DropWithoutRehash(p) ==
  /\ Goto(p, "drop", "grants")
  /\ ~stale[p]
  /\ users' = users
  /\ identities' = {}
  /\ hasTable' = FALSE
  /\ pending' = [pending EXCEPT ![p] = {}]
  /\ Committed
  /\ UNCHANGED <<seed, grants, opens, mine, cached, session, assigned, revoked>>

\* The updates, the DROP TABLE and the COMMIT, refused on a stale snapshot.
DropUserIdentities(p) ==
  /\ Goto(p, "drop", "grants")
  /\ ~stale[p]
  /\ users' = Rehashed(p)
  /\ identities' = {}
  /\ hasTable' = FALSE
  /\ pending' = [pending EXCEPT ![p] = {}]
  /\ Committed
  /\ UNCHANGED <<seed, grants, opens, mine, cached, session, assigned, revoked>>

\* One transaction of INSERT OR IGNORE statements; store.New follows.
SeedRolePermissions(p) ==
  /\ Goto(p, "grants", "open")
  /\ grants' = grants \cup Default
  /\ IF Default \subseteq grants THEN UNCHANGED stale ELSE Committed
  /\ UNCHANGED <<seed, users, identities, hasTable, opens, process, assigned,
                 revoked>>

\* Open returns an error and the process logs it and exits, the process
\* crashes, or it is done. An open transaction is rolled back.
Exit(p) ==
  /\ pc[p] # "closed"
  /\ pc' = [pc EXCEPT ![p] = "closed"]
  /\ mine' = [mine EXCEPT ![p] = 0]
  /\ pending' = [pending EXCEPT ![p] = {}]
  /\ cached' = [cached EXCEPT ![p] = 0]
  /\ session' = [session EXCEPT ![p] = NoSession]
  /\ UNCHANGED <<tables, opens, stale, assigned, revoked>>

-----------------------------------------------------------------------------
(* The open database.                                                      *)

\* hashSeed: sync.Once keeps the first outcome, an error included.
HashSeed(p) ==
  /\ pc[p] = "open" /\ cached[p] = 0
  /\ \E outcome \in {-1, IF seed = 0 THEN -1 ELSE seed} :
       cached' = [cached EXCEPT ![p] = outcome]
  /\ UNCHANGED <<tables, pc, opens, mine, pending, session, stale, assigned,
                 revoked>>

RowOf(opaque) == {i \in DOMAIN users : users[i].opaque = opaque}

\* Mutant of ResolveUser: the conflict clause resets the role too.
ResolveUserResetting(p, s) ==
  LET opaque == Derived(cached[p], s)
      known == RowOf(opaque)
  IN  /\ pc[p] = "open" /\ cached[p] > 0
      /\ users' = IF known = {}
                  THEN Append(users, [opaque |-> opaque, role |-> "reporter",
                                      owner |-> s])
                  ELSE [i \in DOMAIN users |->
                          IF i \in known
                          THEN [users[i] EXCEPT !.role = "reporter"]
                          ELSE users[i]]
      /\ session' = [session EXCEPT ![p] =
                       [user |-> IF known = {} THEN Len(users) + 1
                                 ELSE CHOOSE i \in known : TRUE,
                        subject |-> s]]
      /\ Committed
      /\ UNCHANGED <<seed, identities, hasTable, grants, pc, opens, mine,
                     pending, cached, assigned, revoked>>

\* Mutant of ResolveUser: the id is the last insert's, not the one RETURNING.
ResolveUserLastId(p, s) ==
  LET opaque == Derived(cached[p], s)
  IN  /\ pc[p] = "open" /\ cached[p] > 0
      /\ users' = IF RowOf(opaque) = {}
                  THEN Append(users, [opaque |-> opaque, role |-> "reporter",
                                      owner |-> s])
                  ELSE users
      /\ session' = [session EXCEPT ![p] = [user |-> Len(users) + 1,
                                            subject |-> s]]
      /\ Committed
      /\ UNCHANGED <<seed, identities, hasTable, grants, pc, opens, mine,
                     pending, cached, assigned, revoked>>

\* One upsert: a subject without a row is registered as a reporter; a row
\* that is there only gets its heartbeat, which is left out.
ResolveUser(p, s) ==
  LET opaque == Derived(cached[p], s)
      known == RowOf(opaque)
  IN  /\ pc[p] = "open" /\ cached[p] > 0
      /\ users' = IF known = {}
                  THEN Append(users, [opaque |-> opaque, role |-> "reporter",
                                      owner |-> s])
                  ELSE users
      /\ session' = [session EXCEPT ![p] =
                       [user |-> IF known = {} THEN Len(users) + 1
                                 ELSE CHOOSE i \in known : TRUE,
                        subject |-> s]]
      /\ Committed
      /\ UNCHANGED <<seed, identities, hasTable, grants, pc, opens, mine,
                     pending, cached, assigned, revoked>>

\* user-role set <opaque> <role>: one UPDATE by opaque id.
SetUserRole(p, opaque, role) ==
  /\ pc[p] = "open"
  /\ RowOf(opaque) # {}
  /\ users' = [i \in DOMAIN users |->
                 IF i \in RowOf(opaque) THEN [users[i] EXCEPT !.role = role]
                 ELSE users[i]]
  /\ assigned' = [s \in Subjects |->
                    IF \E i \in RowOf(opaque) : users[i].owner = s THEN role
                    ELSE assigned[s]]
  /\ Committed
  /\ UNCHANGED <<seed, identities, hasTable, grants, pc, opens, process,
                 revoked>>

\* An operator edits role_permissions, once a first run has filled it.
EditGrants ==
  /\ grants \cup revoked # {}
  /\ \E g \in Default :
       \/ g \in grants /\ grants' = grants \ {g} /\ revoked' = revoked \cup {g}
       \/ g \notin grants /\ grants' = grants \cup {g} /\ revoked' = revoked \ {g}
  /\ Committed
  /\ UNCHANGED <<seed, users, identities, hasTable, pc, opens, process,
                 assigned>>

-----------------------------------------------------------------------------
Next ==
  \/ EditGrants
  \/ \E p \in Processes :
       \/ Open(p) \/ InsertSeed(p) \/ ReadSeed(p) \/ LookForIdentities(p)
       \/ ReadIdentities(p) \/ DropUserIdentities(p) \/ SeedRolePermissions(p)
       \/ Exit(p) \/ HashSeed(p)
       \/ \E s \in Subjects : ResolveUser(p, s)
       \/ \E i \in DOMAIN users, r \in Roles : SetUserRole(p, users[i].opaque, r)

Spec == Init /\ [][Next]_vars

-----------------------------------------------------------------------------
(* Properties.                                                             *)

Phases == {"closed", "seed", "read", "look", "rehash", "drop", "grants", "open"}

\* Every variable keeps its type.
TypeOK ==
  /\ seed \in Nat
  /\ users \in Seq(User)
  /\ identities \subseteq (DOMAIN users) \X Subjects
  /\ hasTable \in BOOLEAN
  /\ grants \subseteq Default
  /\ pc \in [Processes -> Phases]
  /\ opens \in Nat
  /\ mine \in [Processes -> Nat]
  /\ pending \in [Processes -> SUBSET ((DOMAIN users) \X Subjects)]
  /\ stale \in [Processes -> BOOLEAN]
  /\ cached \in [Processes -> Nat \cup {-1}]
  /\ session \in [Processes -> [user : {0} \cup DOMAIN users, subject : Subjects]]
  /\ assigned \in [Subjects -> Roles]
  /\ revoked \subseteq Default

\* db.go:80-82: whichever process inserts first, no later Open, no crash between
\* INSERT and SELECT and no restart changes the seed.
SeedNeverRotates == [][seed # 0 => seed' = seed]_seed

\* Once a process has the database open the older table of subjects is gone and
\* every opaque id is derived from the one seed: no crash or overlap of two
\* Opens leaves a user behind whom ResolveUser could not reach.
OpenMeansMigrated ==
  (\E p \in Processes : pc[p] = "open") =>
     /\ ~hasTable
     /\ seed # 0
     /\ \A i \in DOMAIN users : users[i].opaque = Derived(seed, users[i].owner)

\* identity.go:9: a returning user, one of the older database included, resolves
\* to their existing row, and no two rows belong to one subject.
SubjectKeepsRow ==
  /\ \A p \in Processes :
       session[p].user # 0 => users[session[p].user].owner = session[p].subject
  /\ \A i, j \in DOMAIN users : users[i].owner = users[j].owner => i = j

\* A role an administrator gave holds until another is given, across logins,
\* migrations and restarts.
RoleIsLastAssigned ==
  \A i \in DOMAIN users : users[i].role = assigned[users[i].owner]

-----------------------------------------------------------------------------
(* Refinement.                                                             *)

\* The rows a subject gets to: those the older table names until it is dropped,
\* then those with the id derived from the seed.
RowsFor(s) == IF hasTable THEN {i \in DOMAIN users : <<i, s>> \in identities}
              ELSE RowOf(Derived(seed, s))

Accounts == [s \in Subjects |-> {[id |-> i, role |-> users[i].role] : i \in RowsFor(s)}]

Dir == INSTANCE Directory WITH accounts <- Accounts

\* identity.go:9 and db.go:106-111: through every step of every process, seeding,
\* rehashing, crashes and restarts included, what the stored tables say of a
\* subject changes only when the subject is enrolled or given a role.
ImplementsDirectory == Dir!Spec
=============================================================================
