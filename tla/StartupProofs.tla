--------------------------- MODULE StartupProofs ----------------------------
(***************************************************************************)
(* Theorems about Startup and Access: any number of processes open the     *)
(* database, crash and open it again, on a fresh file or an older one.     *)
(***************************************************************************)
EXTENDS Access, FiniteSetTheorems, TLAPS

\* What each process knows of the seed: it has a candidate to insert, there is a
\* seed once it has, and what it read is that seed.
SeedKnown ==
  \A p \in Processes :
    /\ pc[p] = "seed" => mine[p] # 0
    /\ pc[p] \notin {"closed", "seed"} => seed # 0
    /\ pc[p] \notin {"closed", "seed", "read"} => mine[p] = seed
    /\ cached[p] > 0 => cached[p] = seed

\* The older table names the owner of every row until it is dropped; then every
\* opaque id is derived. A process past the migration has no table, and one that
\* may still commit it read what is there.
Migration ==
  /\ hasTable => identities = {<<i, users[i].owner>> : i \in DOMAIN users}
  /\ ~hasTable => \A i \in DOMAIN users : users[i].opaque = Derived(seed, users[i].owner)
  /\ ~hasTable /\ seed = 0 => users = <<>>
  /\ \A p \in Processes :
       /\ pc[p] \in {"grants", "open"} => ~hasTable
       /\ pc[p] = "drop" /\ ~stale[p] => hasTable /\ pending[p] = identities

\* Whoever has no row yet was given no role.
UnknownAreReporters ==
  \A s \in Subjects :
    (\A i \in DOMAIN users : users[i].owner # s) => assigned[s] = "reporter"

StartupInv == /\ TypeOK /\ SeedKnown /\ Migration
              /\ SubjectKeepsRow /\ RoleIsLastAssigned /\ UnknownAreReporters

-----------------------------------------------------------------------------
(* Tables as sequences.                                                    *)

LEMMA Tabled == ASSUME NEW S, NEW n \in Nat, NEW f \in [1 .. n -> S]
                PROVE  f \in Seq(S) /\ Len(f) = n /\ DOMAIN f = 1 .. n
OBVIOUS

LEMMA EmptyTable == ASSUME NEW S
                    PROVE  /\ <<>> \in Seq(S) /\ Len(<<>>) = 0
                           /\ \A t \in Seq(S) : Len(t) = 0 => t = <<>>
OBVIOUS

LEMMA RowOfUsers ==
  ASSUME TypeOK
  PROVE  /\ Len(users) \in Nat /\ DOMAIN users = 1 .. Len(users)
         /\ \A i \in DOMAIN users : users[i] \in User
BY DEF TypeOK

LEMMA AppendedUser ==
  ASSUME TypeOK, NEW u \in User
  PROVE  /\ Append(users, u) \in Seq(User)
         /\ DOMAIN Append(users, u) = DOMAIN users \cup {Len(users) + 1}
         /\ Len(users) + 1 \notin DOMAIN users
         /\ \A i \in DOMAIN users : Append(users, u)[i] = users[i]
         /\ Append(users, u)[Len(users) + 1] = u
BY DEF TypeOK

\* HMAC-SHA256 under one seed is taken to be injective.
LEMMA DerivedIsInjective ==
  ASSUME NEW k, NEW s, NEW t, Derived(k, s) = Derived(k, t)
  PROVE  s = t
<1>1. Derived(k, s).subject = s /\ Derived(k, t).subject = t
  BY DEF Derived
<1> QED  BY <1>1

LEMMA NoSessionTyped == NoSession.user = 0 /\ NoSession.subject \in Subjects
BY ConstantsAssumption DEF NoSession

-----------------------------------------------------------------------------
(* Steps that leave the rows of users alone.                               *)

LEMMA RowsKept ==
  ASSUME StartupInv, UNCHANGED <<users, assigned>>,
         session' \in [Processes -> [user : {0} \cup DOMAIN users, subject : Subjects]],
         \A p \in Processes : session'[p] = session[p] \/ session'[p] = NoSession
  PROVE  SubjectKeepsRow' /\ RoleIsLastAssigned' /\ UnknownAreReporters'
BY NoSessionTyped
   DEF StartupInv, SubjectKeepsRow, RoleIsLastAssigned, UnknownAreReporters

LEMMA OpenKeeps ==
  ASSUME StartupInv, NEW p \in Processes, Open(p)
  PROVE  StartupInv'
<1> USE DEF StartupInv
<1>1. TypeOK'
  BY DEF Open, Goto, TypeOK, tables, Phases
<1>2. SeedKnown'
  BY DEF Open, Goto, TypeOK, tables, SeedKnown
<1>3. Migration'
  BY DEF Open, Goto, TypeOK, tables, Migration
<1>4. SubjectKeepsRow' /\ RoleIsLastAssigned' /\ UnknownAreReporters'
  BY RowsKept DEF Open, tables, TypeOK
<1> QED  BY <1>1, <1>2, <1>3, <1>4

LEMMA InsertSeedKeeps ==
  ASSUME StartupInv, NEW p \in Processes, InsertSeed(p)
  PROVE  StartupInv'
<1> USE DEF StartupInv
<1>1. TypeOK'
  BY DEF InsertSeed, Goto, Committed, TypeOK, process, Phases
<1>2. SeedKnown'
  BY DEF InsertSeed, Goto, TypeOK, process, SeedKnown
<1>3. Migration'
  BY DEF InsertSeed, Goto, Committed, TypeOK, process, Migration
<1>4. SubjectKeepsRow' /\ RoleIsLastAssigned' /\ UnknownAreReporters'
  BY RowsKept DEF InsertSeed, process, TypeOK
<1> QED  BY <1>1, <1>2, <1>3, <1>4

LEMMA ReadSeedKeeps ==
  ASSUME StartupInv, NEW p \in Processes, ReadSeed(p)
  PROVE  StartupInv'
<1> USE DEF StartupInv
<1>1. TypeOK'
  BY DEF ReadSeed, Goto, TypeOK, tables, Phases
<1>2. SeedKnown'
  BY DEF ReadSeed, Goto, TypeOK, tables, SeedKnown
<1>3. Migration'
  BY DEF ReadSeed, Goto, TypeOK, tables, Migration
<1>4. SubjectKeepsRow' /\ RoleIsLastAssigned' /\ UnknownAreReporters'
  BY RowsKept DEF ReadSeed, tables, TypeOK
<1> QED  BY <1>1, <1>2, <1>3, <1>4

LEMMA LookKeeps ==
  ASSUME StartupInv, NEW p \in Processes, LookForIdentities(p)
  PROVE  StartupInv'
<1> USE DEF StartupInv
<1>1. TypeOK'
  BY DEF LookForIdentities, Goto, TypeOK, tables, process, Phases
<1>2. SeedKnown'
  BY DEF LookForIdentities, Goto, TypeOK, tables, process, SeedKnown
<1>3. Migration'
  BY DEF LookForIdentities, Goto, TypeOK, tables, process, Migration
<1>4. SubjectKeepsRow' /\ RoleIsLastAssigned' /\ UnknownAreReporters'
  BY RowsKept DEF LookForIdentities, tables, process, TypeOK
<1> QED  BY <1>1, <1>2, <1>3, <1>4

LEMMA ReadIdentitiesKeeps ==
  ASSUME StartupInv, NEW p \in Processes, ReadIdentities(p)
  PROVE  StartupInv'
<1> USE DEF StartupInv
<1>1. TypeOK'
  BY DEF ReadIdentities, Goto, TypeOK, tables, Phases
<1>2. SeedKnown'
  BY DEF ReadIdentities, Goto, TypeOK, tables, SeedKnown
<1>3. Migration'
  BY DEF ReadIdentities, Goto, TypeOK, tables, Migration
<1>4. SubjectKeepsRow' /\ RoleIsLastAssigned' /\ UnknownAreReporters'
  BY RowsKept DEF ReadIdentities, tables, TypeOK
<1> QED  BY <1>1, <1>2, <1>3, <1>4

LEMMA SeedRolePermissionsKeeps ==
  ASSUME StartupInv, NEW p \in Processes, SeedRolePermissions(p)
  PROVE  StartupInv'
<1> USE DEF StartupInv
<1>1. TypeOK'
  BY DEF SeedRolePermissions, Goto, Committed, TypeOK, process, Phases
<1>2. SeedKnown'
  BY DEF SeedRolePermissions, Goto, TypeOK, process, SeedKnown
<1>3. Migration'
  BY DEF SeedRolePermissions, Goto, Committed, TypeOK, process, Migration
<1>4. SubjectKeepsRow' /\ RoleIsLastAssigned' /\ UnknownAreReporters'
  BY RowsKept DEF SeedRolePermissions, process, TypeOK
<1> QED  BY <1>1, <1>2, <1>3, <1>4

LEMMA ExitKeeps ==
  ASSUME StartupInv, NEW p \in Processes, Exit(p)
  PROVE  StartupInv'
<1> USE DEF StartupInv
<1> NoSession \in [user : {0} \cup DOMAIN users, subject : Subjects]
  BY ConstantsAssumption DEF NoSession
<1>1. TypeOK'
  BY DEF Exit, TypeOK, tables, Phases
<1>2. SeedKnown'
  BY DEF Exit, TypeOK, tables, SeedKnown
<1>3. Migration'
  BY DEF Exit, TypeOK, tables, Migration
<1>4. SubjectKeepsRow' /\ RoleIsLastAssigned' /\ UnknownAreReporters'
  BY RowsKept DEF Exit, tables, TypeOK
<1> QED  BY <1>1, <1>2, <1>3, <1>4

LEMMA HashSeedKeeps ==
  ASSUME StartupInv, NEW p \in Processes, HashSeed(p)
  PROVE  StartupInv'
<1> USE DEF StartupInv
<1>1. TypeOK'
  BY DEF HashSeed, TypeOK, tables
<1>2. SeedKnown'
  BY DEF HashSeed, TypeOK, tables, SeedKnown
<1>3. Migration'
  BY DEF HashSeed, TypeOK, tables, Migration
<1>4. SubjectKeepsRow' /\ RoleIsLastAssigned' /\ UnknownAreReporters'
  BY RowsKept DEF HashSeed, tables, TypeOK
<1> QED  BY <1>1, <1>2, <1>3, <1>4

LEMMA EditGrantsKeeps ==
  ASSUME StartupInv, EditGrants
  PROVE  StartupInv'
<1> USE DEF StartupInv
<1>1. TypeOK'
  BY DEF EditGrants, Committed, TypeOK, process
<1>2. SeedKnown'
  BY DEF EditGrants, TypeOK, process, SeedKnown
<1>3. Migration'
  BY DEF EditGrants, Committed, TypeOK, process, Migration
<1>4. SubjectKeepsRow' /\ RoleIsLastAssigned' /\ UnknownAreReporters'
  BY RowsKept DEF EditGrants, process, TypeOK
<1> QED  BY <1>1, <1>2, <1>3, <1>4

-----------------------------------------------------------------------------
(* The migration, logins and roles.                                        *)

\* A transaction that may commit derives every id from the seed it read, and
\* from the owner the older table names.
LEMMA DropRehashes ==
  ASSUME StartupInv, NEW p \in Processes, DropUserIdentities(p)
  PROVE  /\ seed # 0 /\ users' \in Seq(User) /\ DOMAIN users' = DOMAIN users
         /\ \A i \in DOMAIN users :
              /\ users'[i].opaque = Derived(seed, users[i].owner)
              /\ users'[i].role = users[i].role /\ users'[i].owner = users[i].owner
<1>1. /\ pending[p] = {<<i, users[i].owner>> : i \in DOMAIN users}
      /\ seed # 0 /\ mine[p] = seed
  BY DEF StartupInv, Migration, SeedKnown, DropUserIdentities, Goto
<1>2. ASSUME NEW i \in DOMAIN users
      PROVE  /\ users'[i] = [users[i] EXCEPT !.opaque = Derived(seed, users[i].owner)]
             /\ users'[i] \in User
  <2>1. users[i] \in User
    BY RowOfUsers DEF StartupInv
  <2>2. \A s \in Subjects : <<i, s>> \in pending[p] <=> s = users[i].owner
    BY <1>1
  <2>3. users[i].owner \in Subjects
    BY <2>1 DEF User
  <2>4. users'[i] = [users[i] EXCEPT !.opaque = Derived(seed, users[i].owner)]
    BY <1>1, <2>2, <2>3 DEF DropUserIdentities, Rehashed
  <2>5. Derived(seed, users[i].owner) \in Opaque
    BY <2>3 DEF StartupInv, TypeOK, Derived, Opaque
  <2> QED  BY <2>1, <2>4, <2>5 DEF User
<1>3. DOMAIN users' = DOMAIN users
  BY DEF DropUserIdentities, Rehashed
<1>4. users' \in [1 .. Len(users) -> User]
  BY <1>2, <1>3, RowOfUsers DEF StartupInv, DropUserIdentities, Rehashed
<1>5. users' \in Seq(User)
  BY <1>4, Tabled, RowOfUsers DEF StartupInv
<1> QED  BY <1>1, <1>2, <1>3, <1>5, RowOfUsers DEF StartupInv, User

LEMMA DropKeeps ==
  ASSUME StartupInv, NEW p \in Processes, DropUserIdentities(p)
  PROVE  StartupInv'
<1>1. TypeOK'
  BY DropRehashes DEF StartupInv, DropUserIdentities, Goto, Committed, TypeOK, Phases
<1>2. SeedKnown'
  BY DEF StartupInv, DropUserIdentities, Goto, TypeOK, SeedKnown
<1>3. Migration'
  BY DropRehashes DEF StartupInv, DropUserIdentities, Goto, Committed, TypeOK, Migration
<1>4. SubjectKeepsRow'
  BY DropRehashes DEF StartupInv, DropUserIdentities, TypeOK, SubjectKeepsRow
<1>5. RoleIsLastAssigned' /\ UnknownAreReporters'
  BY DropRehashes DEF StartupInv, DropUserIdentities, RoleIsLastAssigned, UnknownAreReporters
<1> QED  BY <1>1, <1>2, <1>3, <1>4, <1>5 DEF StartupInv

\* On an open database a subject's opaque id finds their row, and no other's.
LEMMA RowIsOwn ==
  ASSUME StartupInv, NEW p \in Processes, pc[p] = "open", cached[p] > 0,
         NEW s \in Subjects
  PROVE  /\ ~hasTable /\ cached[p] = seed /\ seed # 0
         /\ RowOf(Derived(cached[p], s)) = {i \in DOMAIN users : users[i].owner = s}
<1>1. ~hasTable /\ cached[p] = seed /\ seed # 0
  BY DEF StartupInv, Migration, SeedKnown
<1>2. \A i \in DOMAIN users : users[i].opaque = Derived(seed, users[i].owner)
  BY <1>1 DEF StartupInv, Migration
<1>3. \A i \in DOMAIN users : users[i].opaque = Derived(seed, s) <=> users[i].owner = s
  BY <1>2, DerivedIsInjective
<1> QED  BY <1>1, <1>3 DEF RowOf

\* What a login does to the table: nothing to a subject with a row, and a
\* reporter's row for one without; the session is on that row.
LEMMA LoginFinds ==
  ASSUME StartupInv, NEW p \in Processes, NEW s \in Subjects, ResolveUser(p, s)
  PROVE  /\ users' \in Seq(User) /\ DOMAIN users \subseteq DOMAIN users'
         /\ \A i \in DOMAIN users : users'[i] = users[i]
         /\ \A i \in DOMAIN users' \ DOMAIN users :
              /\ i = Len(users) + 1
              /\ users'[i] = [opaque |-> Derived(seed, s), role |-> "reporter", owner |-> s]
              /\ \A j \in DOMAIN users : users[j].owner # s
         /\ session'[p].user \in DOMAIN users'
         /\ users'[session'[p].user].owner = s /\ session'[p].subject = s
         /\ session' \in [Processes -> [user : {0} \cup DOMAIN users', subject : Subjects]]
         /\ \A q \in Processes : q # p => session'[q] = session[q]
<1> DEFINE known == RowOf(Derived(cached[p], s))
           row == [opaque |-> Derived(cached[p], s), role |-> "reporter", owner |-> s]
<1>1. /\ cached[p] = seed
      /\ known = {i \in DOMAIN users : users[i].owner = s}
  BY RowIsOwn DEF ResolveUser
<1>2. row \in User
  <2>1. seed \in Nat /\ "reporter" \in Roles
    BY ConstantsAssumption DEF StartupInv, TypeOK
  <2>2. Derived(seed, s) \in Opaque
    BY <2>1 DEF Opaque, Derived
  <2>3. cached[p] = seed
    BY <1>1
  <2> QED  BY <2>1, <2>2, <2>3 DEF User
<1>3. session' = [session EXCEPT ![p] = [user |-> IF known = {} THEN Len(users) + 1
                                                  ELSE CHOOSE i \in known : TRUE,
                                         subject |-> s]]
  BY DEF ResolveUser
<1>4. session \in [Processes -> [user : {0} \cup DOMAIN users, subject : Subjects]]
  BY DEF StartupInv, TypeOK
<1>5. CASE known = {}
  <2>1. users' = Append(users, row)
    BY <1>5 DEF ResolveUser
  <2>2. \A j \in DOMAIN users : users[j].owner # s
    BY <1>1, <1>5
  <2>3. session' = [session EXCEPT ![p] = [user |-> Len(users) + 1, subject |-> s]]
    BY <1>3, <1>5
  <2> HIDE DEF known, row
  <2>4. /\ users' \in Seq(User)
        /\ DOMAIN users' = DOMAIN users \cup {Len(users) + 1}
        /\ \A i \in DOMAIN users : users'[i] = users[i]
        /\ users'[Len(users) + 1] = row
    BY <1>2, <2>1, AppendedUser DEF StartupInv
  <2>5. row = [opaque |-> Derived(seed, s), role |-> "reporter", owner |-> s]
    BY <1>1 DEF row
  <2> QED  BY <1>4, <2>2, <2>3, <2>4, <2>5
<1>6. CASE known # {}
  <2>1. users' = users
    BY <1>6 DEF ResolveUser
  <2>2. PICK i \in DOMAIN users : /\ users[i].owner = s
                                  /\ session' = [session EXCEPT ![p] = [user |-> i, subject |-> s]]
    BY <1>1, <1>3, <1>6
  <2> QED  BY <1>4, <2>1, <2>2 DEF StartupInv, TypeOK
<1> QED  BY <1>5, <1>6

LEMMA LoginKeeps ==
  ASSUME StartupInv, NEW p \in Processes, NEW s \in Subjects, ResolveUser(p, s)
  PROVE  StartupInv'
<1>1. ~hasTable /\ seed # 0
  BY RowIsOwn DEF ResolveUser
<1>2. UNCHANGED <<seed, identities, hasTable, grants, pc, opens, mine, pending, cached,
                  assigned, revoked>> /\ stale' = [q \in Processes |-> TRUE]
  BY DEF ResolveUser, Committed
<1>3. TypeOK'
  BY <1>2, LoginFinds DEF StartupInv, TypeOK
<1>4. SeedKnown'
  BY <1>2 DEF StartupInv, SeedKnown
<1>5. Migration'
  <2>1. \A i \in DOMAIN users' : users'[i].opaque = Derived(seed, users'[i].owner)
    BY <1>1, LoginFinds DEF StartupInv, Migration
  <2> QED  BY <1>1, <1>2, <2>1 DEF StartupInv, Migration
<1>6. SubjectKeepsRow'
  <2>1. \A q \in Processes : session'[q].user # 0
                               => users'[session'[q].user].owner = session'[q].subject
    BY LoginFinds DEF StartupInv, SubjectKeepsRow, TypeOK
  <2>2. \A i, j \in DOMAIN users' : users'[i].owner = users'[j].owner => i = j
    BY LoginFinds DEF StartupInv, SubjectKeepsRow
  <2> QED  BY <2>1, <2>2 DEF SubjectKeepsRow
<1>7. RoleIsLastAssigned' /\ UnknownAreReporters'
  BY <1>2, LoginFinds DEF StartupInv, RoleIsLastAssigned, UnknownAreReporters
<1> QED  BY <1>3, <1>4, <1>5, <1>6, <1>7 DEF StartupInv

LEMMA SetUserRoleKeeps ==
  ASSUME StartupInv, NEW p \in Processes, NEW opaque, NEW role \in Roles,
         SetUserRole(p, opaque, role)
  PROVE  StartupInv'
<1> DEFINE given == RowOf(opaque)
<1>1. /\ UNCHANGED <<seed, identities, hasTable, grants, pc, opens, mine, pending, cached,
                     session, revoked>>
      /\ stale' = [q \in Processes |-> TRUE]
  BY DEF SetUserRole, Committed, process
<1>2. ASSUME NEW i \in DOMAIN users
      PROVE  /\ users'[i] \in User
             /\ users'[i].opaque = users[i].opaque /\ users'[i].owner = users[i].owner
             /\ users'[i].role = IF i \in given THEN role ELSE users[i].role
  BY RowOfUsers DEF SetUserRole, StartupInv, User
<1>3. DOMAIN users' = DOMAIN users
  BY DEF SetUserRole
<1>4. users' \in Seq(User)
  <2>1. users' \in [1 .. Len(users) -> User]
    BY <1>2, <1>3, RowOfUsers DEF SetUserRole, StartupInv
  <2> QED  BY <2>1, Tabled, RowOfUsers DEF StartupInv
<1>5. \A s \in Subjects : assigned'[s] = IF \E i \in given : users[i].owner = s THEN role
                                         ELSE assigned[s]
  BY DEF SetUserRole
<1>6. given \subseteq DOMAIN users
  BY DEF RowOf
<1> HIDE DEF given
<1>7. TypeOK'
  <2>1. assigned' \in [Subjects -> Roles]
    BY DEF SetUserRole, StartupInv, TypeOK
  <2> QED  BY <1>1, <1>3, <1>4, <2>1 DEF StartupInv, TypeOK
<1>8. SeedKnown'
  BY <1>1 DEF StartupInv, SeedKnown
<1>9. Migration'
  <2>1. users = <<>> => users' = <<>>
    BY <1>3, <1>4 DEF StartupInv, TypeOK
  <2>2. ~\E q \in Processes : pc'[q] = "drop" /\ ~stale'[q]
    BY <1>1
  <2> QED  BY <1>1, <1>2, <1>3, <2>1, <2>2 DEF StartupInv, Migration
<1>10. SubjectKeepsRow'
  BY <1>1, <1>2, <1>3 DEF StartupInv, SubjectKeepsRow, TypeOK
<1>11. RoleIsLastAssigned'
  \* No other row has the owner of one that is given the role.
  <2>1. ASSUME NEW i \in DOMAIN users PROVE users'[i].role = assigned'[users'[i].owner]
    <3>1. users[i].owner \in Subjects
      BY RowOfUsers DEF StartupInv, User
    <3>2. (\E j \in given : users[j].owner = users[i].owner) <=> i \in given
      BY <1>6 DEF StartupInv, SubjectKeepsRow
    <3> QED  BY <1>2, <1>5, <3>1, <3>2 DEF StartupInv, RoleIsLastAssigned
  <2> QED  BY <1>3, <2>1 DEF RoleIsLastAssigned
<1>12. UnknownAreReporters'
  BY <1>2, <1>3, <1>5, <1>6 DEF StartupInv, UnknownAreReporters
<1> QED  BY <1>7, <1>8, <1>9, <1>10, <1>11, <1>12 DEF StartupInv

-----------------------------------------------------------------------------
(* The invariant.                                                          *)

LEMMA InitKeeps == Init => StartupInv
<1> SUFFICES ASSUME Init PROVE StartupInv
  OBVIOUS
<1>1. PICK old \in {<<>>, Legacy} :
         /\ users = [i \in DOMAIN old |-> [opaque |-> Derived(0, old[i]),
                                           role |-> "reporter", owner |-> old[i]]]
         /\ identities = {<<i, old[i]>> : i \in DOMAIN old}
         /\ hasTable = (old # <<>>)
  BY DEF Init
<1>2. /\ old \in Seq(Subjects) /\ Len(old) \in Nat /\ DOMAIN old = 1 .. Len(old)
      /\ \A i, j \in DOMAIN old : old[i] = old[j] => i = j
  <2>1. old \in Seq(Subjects)
    BY ConstantsAssumption, EmptyTable
  <2>2. Len(old) \in Nat /\ DOMAIN old = 1 .. Len(old)
    BY <2>1
  <2>3. old = <<>> => DOMAIN old = {}
    BY <2>2, EmptyTable
  <2>4. \A i, j \in DOMAIN old : old[i] = old[j] => i = j
    BY <2>3, ConstantsAssumption
  <2> QED  BY <2>1, <2>2, <2>4
<1>3. ASSUME NEW i \in DOMAIN old
      PROVE  /\ old[i] \in Subjects
             /\ users[i] = [opaque |-> Derived(0, old[i]), role |-> "reporter",
                            owner |-> old[i]]
             /\ users[i] \in User
  <2>1. old[i] \in Subjects
    BY <1>2
  <2>2. Derived(0, old[i]) \in Opaque
    BY <2>1 DEF Derived, Opaque
  <2>3. users[i] = [opaque |-> Derived(0, old[i]), role |-> "reporter",
                    owner |-> old[i]]
    BY <1>1
  <2> QED  BY <2>1, <2>2, <2>3, ConstantsAssumption DEF User
<1>4. users \in Seq(User) /\ DOMAIN users = DOMAIN old
  <2>1. users \in [1 .. Len(old) -> User]
    BY <1>1, <1>2, <1>3
  <2> QED  BY <1>2, <2>1, Tabled
<1>5. identities = {<<i, users[i].owner>> : i \in DOMAIN users}
  BY <1>1, <1>3, <1>4
<1>6. NoSession \in [user : {0} \cup DOMAIN users, subject : Subjects]
  BY ConstantsAssumption DEF NoSession
<1>7. TypeOK
  <2>1. identities \subseteq (DOMAIN users) \X Subjects
    BY <1>3, <1>4, <1>5
  <2> QED  BY <1>1, <1>4, <1>6, <2>1, ConstantsAssumption DEF Init, TypeOK, Phases
<1>8. SeedKnown
  BY DEF Init, SeedKnown
<1>9. Migration
  <2>1. ASSUME ~hasTable PROVE users = <<>> /\ DOMAIN users = {}
    <3>1. old = <<>> /\ Len(old) = 0
      BY <1>1, <2>1, EmptyTable
    <3>2. DOMAIN users = {}
      BY <1>2, <1>4, <3>1
    <3>3. Len(users) = 0
      BY <1>4, <3>2
    <3> QED  BY <1>4, <3>2, <3>3, EmptyTable
  <2> QED  BY <1>5, <2>1 DEF Init, Migration
<1>10. SubjectKeepsRow
  BY <1>2, <1>3, <1>4, NoSessionTyped DEF Init, SubjectKeepsRow
<1>11. RoleIsLastAssigned /\ UnknownAreReporters
  BY <1>3, <1>4 DEF Init, RoleIsLastAssigned, UnknownAreReporters
<1> QED  BY <1>7, <1>8, <1>9, <1>10, <1>11 DEF StartupInv

LEMMA StutterKeeps == StartupInv /\ UNCHANGED vars => StartupInv'
BY DEF vars, tables, process, StartupInv, TypeOK, SeedKnown, Migration,
       SubjectKeepsRow, RoleIsLastAssigned, UnknownAreReporters

LEMMA StepKeeps == ASSUME StartupInv, Next PROVE StartupInv'
<1>1. CASE EditGrants
  BY <1>1, EditGrantsKeeps
<1>2. ASSUME NEW p \in Processes,
             \/ Open(p) \/ InsertSeed(p) \/ ReadSeed(p) \/ LookForIdentities(p)
             \/ ReadIdentities(p) \/ DropUserIdentities(p) \/ SeedRolePermissions(p)
             \/ Exit(p) \/ HashSeed(p)
      PROVE  StartupInv'
  BY <1>2, OpenKeeps, InsertSeedKeeps, ReadSeedKeeps, LookKeeps, ReadIdentitiesKeeps,
     DropKeeps, SeedRolePermissionsKeeps, ExitKeeps, HashSeedKeeps
<1>3. ASSUME NEW p \in Processes, NEW s \in Subjects, ResolveUser(p, s)
      PROVE  StartupInv'
  BY <1>3, LoginKeeps
<1>4. ASSUME NEW p \in Processes, NEW i \in DOMAIN users, NEW r \in Roles,
             SetUserRole(p, users[i].opaque, r)
      PROVE  StartupInv'
  BY <1>4, SetUserRoleKeeps
<1> QED  BY <1>1, <1>2, <1>3, <1>4 DEF Next

\* Every step of Access is one of Startup's, or leaves its variables alone.
LEMMA AccessSteps == [AccessNext]_accessVars => Next \/ UNCHANGED vars
BY DEF AccessNext, accessVars, StartupStep, Authenticate, Require, Answer, Next

\* However processes interleave, crash and open again, the rows, the seed and the
\* older table stay in step (db.Open, ResolveUser, SetUserRole).
THEOREM StartupInvariant == AccessSpec => []StartupInv
<1>1. AccessInit => StartupInv
  BY InitKeeps DEF AccessInit
<1>2. StartupInv /\ [AccessNext]_accessVars => StartupInv'
  BY AccessSteps, StepKeeps, StutterKeeps
<1> QED  BY <1>1, <1>2, PTL DEF AccessSpec

\* Once a process has the database open, it is migrated (OpenMeansMigrated).
THEOREM OpenedIsMigrated == AccessSpec => []OpenMeansMigrated
<1>1. StartupInv => OpenMeansMigrated
  BY DEF StartupInv, Migration, SeedKnown, OpenMeansMigrated
<1> QED  BY <1>1, StartupInvariant, PTL

\* A subject resolves to their own row, and has no second one (SubjectKeepsRow).
THEOREM RowIsKept == AccessSpec => []SubjectKeepsRow
<1>1. StartupInv => SubjectKeepsRow
  BY DEF StartupInv
<1> QED  BY <1>1, StartupInvariant, PTL

\* A role holds until another is given (RoleIsLastAssigned).
THEOREM RoleIsKept == AccessSpec => []RoleIsLastAssigned
<1>1. StartupInv => RoleIsLastAssigned
  BY DEF StartupInv
<1> QED  BY <1>1, StartupInvariant, PTL

\* Nothing replaces a seed (SeedNeverRotates).
THEOREM SeedIsKept == AccessSpec => SeedNeverRotates
<1>1. ASSUME Next, seed # 0 PROVE seed' = seed
  BY <1>1 DEF Next, EditGrants, Open, InsertSeed, ReadSeed, LookForIdentities,
     ReadIdentities, DropUserIdentities, SeedRolePermissions, Exit, HashSeed,
     ResolveUser, SetUserRole, tables
<1>2. UNCHANGED vars => UNCHANGED seed
  BY DEF vars, tables
<1>3. [AccessNext]_accessVars => [seed # 0 => seed' = seed]_seed
  BY <1>1, <1>2, AccessSteps
<1> QED  BY <1>3, PTL DEF AccessSpec, SeedNeverRotates

-----------------------------------------------------------------------------
(* The requests.                                                           *)

\* A request runs in an open process, as its subject's row, with a role the
\* subject had since it came; every role that has had the permission since then
\* is in its history, so the one it was let through by is.
RequestOK(r) ==
  /\ r \in [id : {r.id}, by : Processes, subject : Subjects, user : DOMAIN users,
            role : Roles, phase : {"resolved", "allowed"},
            held : SUBSET Roles, allowed : SUBSET Roles]
  /\ pc[r.by] = "open"
  /\ users[r.user].owner = r.subject
  /\ r.role \in r.held
  /\ RolesAllowed(grants) \subseteq r.allowed
  /\ r.phase = "allowed" => r.role \in r.allowed

RequestInv == \A r \in requests : RequestOK(r)

\* No step removes a row or gives it to another subject.
LEMMA OwnersStay ==
  ASSUME StartupInv, Next
  PROVE  /\ DOMAIN users \subseteq DOMAIN users'
         /\ \A i \in DOMAIN users : users'[i].owner = users[i].owner
<1>1. CASE EditGrants
  BY <1>1 DEF EditGrants
<1>2. ASSUME NEW p \in Processes,
             \/ Open(p) \/ InsertSeed(p) \/ ReadSeed(p) \/ LookForIdentities(p)
             \/ ReadIdentities(p) \/ SeedRolePermissions(p) \/ Exit(p) \/ HashSeed(p)
      PROVE  UNCHANGED users
  BY <1>2 DEF Open, InsertSeed, ReadSeed, LookForIdentities, ReadIdentities,
     SeedRolePermissions, Exit, HashSeed, tables
<1>3. ASSUME NEW p \in Processes, DropUserIdentities(p)
      PROVE  /\ DOMAIN users \subseteq DOMAIN users'
             /\ \A i \in DOMAIN users : users'[i].owner = users[i].owner
  BY <1>3, DropRehashes
<1>4. ASSUME NEW p \in Processes, NEW s \in Subjects, ResolveUser(p, s)
      PROVE  /\ DOMAIN users \subseteq DOMAIN users'
             /\ \A i \in DOMAIN users : users'[i].owner = users[i].owner
  BY <1>4, LoginFinds
<1>5. ASSUME NEW p \in Processes, NEW i \in DOMAIN users, NEW r \in Roles,
             SetUserRole(p, users[i].opaque, r)
      PROVE  /\ DOMAIN users \subseteq DOMAIN users'
             /\ \A j \in DOMAIN users : users'[j].owner = users[j].owner
  BY <1>5, RowOfUsers DEF SetUserRole, StartupInv, User
<1> QED  BY <1>1, <1>2, <1>3, <1>4, <1>5 DEF Next

\* What a step does to the history of a request.
Later(r) == [r EXCEPT !.held = @ \cup {assigned'[r.subject]},
                      !.allowed = @ \cup RolesAllowed(grants')]

LEMMA ObservedKeeps ==
  ASSUME StartupInv, RequestInv, Next, NEW r \in requests, pc'[r.by] = "open",
         NEW o, o = Later(r)
  PROVE  RequestOK(o)'
<1>1. r \in [id : {r.id}, by : Processes, subject : Subjects, user : DOMAIN users,
             role : Roles, phase : {"resolved", "allowed"},
             held : SUBSET Roles, allowed : SUBSET Roles]
  BY DEF RequestInv, RequestOK
<1>2. /\ o.id = r.id /\ o.by = r.by /\ o.subject = r.subject /\ o.user = r.user
      /\ o.role = r.role /\ o.phase = r.phase
      /\ o.held = r.held \cup {assigned'[r.subject]}
      /\ o.allowed = r.allowed \cup RolesAllowed(grants')
  BY <1>1 DEF Later
<1>3. assigned'[r.subject] \in Roles
  BY <1>1, StepKeeps DEF StartupInv, TypeOK
<1>4. RolesAllowed(grants') \subseteq Roles
  BY DEF RolesAllowed
<1>5. o.user \in DOMAIN users' /\ users'[o.user].owner = o.subject
  BY <1>1, <1>2, OwnersStay DEF RequestInv, RequestOK
<1>6. /\ o.held \in SUBSET Roles /\ o.allowed \in SUBSET Roles
      /\ o.role \in o.held
      /\ o.phase = "allowed" => o.role \in o.allowed
  BY <1>1, <1>2, <1>3, <1>4 DEF RequestInv, RequestOK
<1>7. o \in [id : {o.id}, by : Processes, subject : Subjects,
             user : DOMAIN users', role : Roles, phase : {"resolved", "allowed"},
             held : SUBSET Roles, allowed : SUBSET Roles]
  <2>1. o = [id |-> o.id, by |-> o.by, subject |-> o.subject, user |-> o.user,
             role |-> o.role, phase |-> o.phase, held |-> o.held,
             allowed |-> o.allowed]
    BY <1>1 DEF Later
  <2> QED  BY <1>1, <1>2, <1>5, <1>6, <2>1
<1> QED  BY <1>2, <1>5, <1>6, <1>7 DEF RequestOK, RolesAllowed

LEMMA StartupStepKeeps == ASSUME StartupInv, RequestInv, StartupStep PROVE RequestInv'
<1> SUFFICES ASSUME NEW o \in requests' PROVE RequestOK(o)'
  BY DEF RequestInv
<1>1. PICK r \in requests : pc'[r.by] = "open" /\ o = Later(r)
  BY DEF StartupStep, Observed, Later
<1> QED  BY <1>1, ObservedKeeps DEF StartupStep

LEMMA AuthenticateKeeps ==
  ASSUME StartupInv, RequestInv, NEW p \in Processes, NEW s \in Subjects,
         Authenticate(p, s)
  PROVE  RequestInv'
<1>1. ResolveUser(p, s) /\ Next /\ StartupInv'
  BY StepKeeps DEF Authenticate, Next
<1>2. pc' = pc /\ pc[p] = "open"
  BY <1>1 DEF ResolveUser
<1> DEFINE u == session'[p].user
           new(n) == [id |-> n, by |-> p, subject |-> s, user |-> u,
                      role |-> users'[u].role, phase |-> "resolved",
                      held |-> {assigned'[s]}, allowed |-> RolesAllowed(grants')]
<1>3. /\ u \in DOMAIN users' /\ users'[u].owner = s
      /\ users'[u].role = assigned'[s] /\ users'[u].role \in Roles
  <2>1. u \in DOMAIN users' /\ users'[u].owner = s
    BY <1>1, LoginFinds
  <2>2. users'[u].role = assigned'[s]
    BY <1>1, <2>1 DEF StartupInv, RoleIsLastAssigned
  <2>3. assigned'[s] \in Roles
    BY <1>1 DEF StartupInv, TypeOK
  <2> QED  BY <2>1, <2>2, <2>3
<1>4. PICK n : requests' = Observed(requests) \cup {new(n)}
  BY DEF Authenticate
<1> HIDE DEF u
<1> SUFFICES ASSUME NEW o \in requests' PROVE RequestOK(o)'
  BY DEF RequestInv
<1>5. CASE o = new(n)
  <2>1. RolesAllowed(grants') \subseteq Roles
    BY DEF RolesAllowed
  <2> QED  BY <1>2, <1>3, <1>5, <2>1 DEF RequestOK, RolesAllowed
<1>6. CASE o \in Observed(requests)
  <2>1. PICK r \in requests : o = Later(r)
    BY <1>6 DEF Observed, Later
  <2>2. pc'[r.by] = "open"
    BY <1>2 DEF RequestInv, RequestOK
  <2> QED  BY <1>1, <2>1, <2>2, ObservedKeeps
<1> QED  BY <1>4, <1>5, <1>6

LEMMA RequireKeeps ==
  ASSUME StartupInv, RequestInv, NEW r \in requests, Require(r)
  PROVE  RequestInv'
<1>1. UNCHANGED <<users, grants, pc>>
  BY DEF Require, vars, tables
<1>2. r \in [id : {r.id}, by : Processes, subject : Subjects, user : DOMAIN users,
             role : Roles, phase : {"resolved", "allowed"},
             held : SUBSET Roles, allowed : SUBSET Roles]
  BY DEF RequestInv, RequestOK
<1>3. r.role \in r.allowed
  BY <1>2 DEF Require, RolesAllowed, RequestInv, RequestOK
<1> DEFINE o == [r EXCEPT !.phase = "allowed"]
<1>4. /\ o \in [id : {o.id}, by : Processes, subject : Subjects, user : DOMAIN users,
                role : Roles, phase : {"resolved", "allowed"},
                held : SUBSET Roles, allowed : SUBSET Roles]
      /\ o.by = r.by /\ o.user = r.user /\ o.subject = r.subject /\ o.role = r.role
      /\ o.held = r.held /\ o.allowed = r.allowed
  BY <1>2
<1>5. /\ pc[o.by] = "open" /\ users[o.user].owner = o.subject
      /\ o.role \in o.held /\ RolesAllowed(grants) \subseteq o.allowed
      /\ o.role \in o.allowed
  BY <1>3, <1>4 DEF RequestInv, RequestOK
<1>6. requests' = (requests \ {r}) \cup {o}
  BY DEF Require
<1> HIDE DEF o
<1> QED  BY <1>1, <1>4, <1>5, <1>6 DEF RequestInv, RequestOK, RolesAllowed

LEMMA RequestInvKeeps ==
  ASSUME StartupInv, RequestInv, [AccessNext]_accessVars
  PROVE  RequestInv'
<1>1. CASE StartupStep
  BY <1>1, StartupStepKeeps
<1>2. ASSUME NEW p \in Processes, NEW s \in Subjects, Authenticate(p, s)
      PROVE  RequestInv'
  BY <1>2, AuthenticateKeeps
<1>3. ASSUME NEW r \in requests, Require(r) PROVE RequestInv'
  BY <1>3, RequireKeeps
<1>4. ASSUME NEW r \in requests, Answer(r) PROVE RequestInv'
  BY <1>4 DEF Answer, RequestInv, RequestOK, RolesAllowed, vars, tables
<1>5. CASE UNCHANGED accessVars
  BY <1>5 DEF accessVars, RequestInv, RequestOK, RolesAllowed, vars, tables
<1> QED  BY <1>1, <1>2, <1>3, <1>4, <1>5 DEF AccessNext

\* A request is let through only by a role that its subject had and that the
\* table allowed while it was under way (LetThroughByTheTable).
THEOREM OnlyTheTableLetsThrough == AccessSpec => []LetThroughByTheTable
<1>1. AccessInit => RequestInv
  BY DEF AccessInit, RequestInv
<1>2. StartupInv /\ RequestInv /\ [AccessNext]_accessVars => RequestInv'
  BY RequestInvKeeps
<1>3. RequestInv => LetThroughByTheTable
  BY DEF RequestInv, RequestOK, LetThroughByTheTable
<1> QED  BY <1>1, <1>2, <1>3, StartupInvariant, PTL DEF AccessSpec

-----------------------------------------------------------------------------
(* The types of the requests.                                              *)

\* The requests under way are finitely many, and an id is a number.
RequestsNumbered == IsFiniteSet(requests) /\ \A r \in requests : r.id \in Nat

\* Of MaxRequests ids, fewer requests leave one over.
LEMMA FreeIdIsNumber ==
  ASSUME IsFiniteSet(requests), Cardinality(requests) < MaxRequests
  PROVE  (CHOOSE i \in 1 .. MaxRequests : \A r \in requests : r.id # i) \in Nat
<1>1. MaxRequests \in Nat /\ Cardinality(requests) \in Nat
  BY RequestsAssumption, FS_CardinalityType
<1>2. \E i \in 1 .. MaxRequests : \A r \in requests : r.id # i
  <2> SUFFICES ASSUME \A i \in 1 .. MaxRequests : \E r \in requests : r.id = i
               PROVE  FALSE
    OBVIOUS
  <2> DEFINE f == [i \in 1 .. MaxRequests |-> CHOOSE r \in requests : r.id = i]
  <2>1. \A i \in 1 .. MaxRequests : f[i] \in requests /\ f[i].id = i
    OBVIOUS
  <2>2. f \in [1 .. MaxRequests -> requests]
    BY <2>1
  <2>3. Cardinality(1 .. MaxRequests) = MaxRequests
    BY <1>1, FS_Interval
  <2> HIDE DEF f
  <2>4. f \in Injection(1 .. MaxRequests, requests)
    BY <2>1, <2>2 DEF Injection, IsInjective
  <2>5. Cardinality(1 .. MaxRequests) <= Cardinality(requests)
    BY <2>4, FS_Injection
  <2> QED  BY <1>1, <2>3, <2>5
<1>3. (CHOOSE i \in 1 .. MaxRequests : \A r \in requests : r.id # i) \in 1 .. MaxRequests
  BY <1>2, Zenon
<1> QED  BY <1>1, <1>3

\* What a step observes of a finite set of requests is finite, under the same ids.
LEMMA ObservedIsNumbered ==
  ASSUME RequestInv, RequestsNumbered, NEW rs \in SUBSET requests
  PROVE  IsFiniteSet(Observed(rs)) /\ \A o \in Observed(rs) : o.id \in Nat
<1> DEFINE f == [r \in rs |-> Later(r)]
<1>1. IsFiniteSet(rs)
  BY FS_Subset DEF RequestsNumbered
<1>2. \A o : o \in Observed(rs) <=> \E r \in rs : o = Later(r)
  BY DEF Observed, Later
<1>3. \A r \in rs : Later(r).id = r.id
  BY DEF Later, RequestInv, RequestOK
<1>4. /\ f \in [rs -> Observed(rs)]
      /\ \A o \in Observed(rs) : \E r \in rs : f[r] = o
  <2> HIDE DEF Later
  <2> QED  BY <1>2
<1> HIDE DEF f
<1>5. f \in Surjection(rs, Observed(rs))
  BY <1>4 DEF Surjection
<1>6. IsFiniteSet(Observed(rs))
  BY <1>1, <1>5, FS_Surjection
<1> QED  BY <1>2, <1>3, <1>6 DEF RequestsNumbered

LEMMA NumberedKeeps ==
  ASSUME StartupInv, RequestInv, RequestsNumbered, [AccessNext]_accessVars
  PROVE  RequestsNumbered'
<1>1. CASE StartupStep
  <2>1. {r \in requests : pc'[r.by] = "open"} \in SUBSET requests
    OBVIOUS
  <2> QED  BY <1>1, <2>1, ObservedIsNumbered DEF StartupStep, RequestsNumbered
<1>2. ASSUME NEW p \in Processes, NEW s \in Subjects, Authenticate(p, s)
      PROVE  RequestsNumbered'
  <2> DEFINE i == CHOOSE i \in 1 .. MaxRequests : \A r \in requests : r.id # i
  <2>1. i \in Nat
    BY <1>2, FreeIdIsNumber DEF Authenticate, RequestsNumbered
  <2>2. PICK n : /\ n.id = i
                 /\ requests' = Observed(requests) \cup {n}
    BY <1>2 DEF Authenticate
  <2> HIDE DEF i
  <2>3. IsFiniteSet(requests')
    BY <2>2, ObservedIsNumbered, FS_AddElement
  <2>4. \A o \in requests' : o.id \in Nat
    BY <2>1, <2>2, ObservedIsNumbered
  <2> QED  BY <2>3, <2>4 DEF RequestsNumbered
<1>3. ASSUME NEW r \in requests, Require(r) PROVE RequestsNumbered'
  <2> PICK n : n = [r EXCEPT !.phase = "allowed"]
    OBVIOUS
  <2>1. n.id = r.id /\ requests' = (requests \ {r}) \cup {n}
    BY <1>3 DEF Require, RequestInv, RequestOK
  <2>2. IsFiniteSet(requests')
    BY <2>1, FS_RemoveElement, FS_AddElement DEF RequestsNumbered
  <2> QED  BY <2>1, <2>2 DEF RequestsNumbered
<1>4. ASSUME NEW r \in requests, Answer(r) PROVE RequestsNumbered'
  <2>1. requests' = requests \ {r}
    BY <1>4 DEF Answer
  <2> QED  BY <2>1, FS_RemoveElement DEF RequestsNumbered
<1>5. CASE UNCHANGED accessVars
  BY <1>5 DEF accessVars, RequestsNumbered
<1> QED  BY <1>1, <1>2, <1>3, <1>4, <1>5 DEF AccessNext

\* The tables, the processes and the requests keep their types: a login finds an
\* id no request under way has, and every role it takes from the table is one
\* (AccessTypeOK).
THEOREM RequestsAreTyped == AccessSpec => []AccessTypeOK
<1>1. AccessInit => RequestInv /\ RequestsNumbered
  BY FS_EmptySet DEF AccessInit, RequestInv, RequestsNumbered
<1>2. StartupInv /\ RequestInv /\ RequestsNumbered /\ [AccessNext]_accessVars
        => RequestInv' /\ RequestsNumbered'
  BY RequestInvKeeps, NumberedKeeps
<1>3. StartupInv /\ RequestInv /\ RequestsNumbered => AccessTypeOK
  <2> SUFFICES ASSUME StartupInv, RequestInv, RequestsNumbered, NEW r \in requests
               PROVE  r \in Request
    BY DEF AccessTypeOK, StartupInv
  <2>1. r \in [id : {r.id}, by : Processes, subject : Subjects, user : DOMAIN users,
               role : Roles, phase : {"resolved", "allowed"},
               held : SUBSET Roles, allowed : SUBSET Roles]
    BY DEF RequestInv, RequestOK
  <2>2. r.id \in Nat /\ DOMAIN users \subseteq Nat
    BY RowOfUsers DEF RequestsNumbered, StartupInv
  <2> QED  BY <2>1, <2>2 DEF Request
<1> QED  BY <1>1, <1>2, <1>3, StartupInvariant, PTL DEF AccessSpec

-----------------------------------------------------------------------------
(* The directory.                                                          *)

\* Before the migration and after it, a subject gets to the rows that are theirs.
LEMMA RowsForOwner ==
  ASSUME StartupInv, NEW s \in Subjects
  PROVE  RowsFor(s) = {i \in DOMAIN users : users[i].owner = s}
<1>1. CASE hasTable
  BY <1>1 DEF StartupInv, Migration, RowsFor
<1>2. CASE ~hasTable
  <2>1. \A i \in DOMAIN users : users[i].opaque = Derived(seed, s) <=> users[i].owner = s
    BY <1>2, DerivedIsInjective DEF StartupInv, Migration
  <2> QED  BY <1>2, <2>1 DEF RowsFor, RowOf
<1> QED  BY <1>1, <1>2

\* What the tables say of a subject: nothing, or their one row and its role.
AccountsOfOwners ==
  \A s \in Subjects :
    /\ \A i \in DOMAIN users :
         users[i].owner = s => Accounts[s] = {[id |-> i, role |-> users[i].role]}
    /\ (\A i \in DOMAIN users : users[i].owner # s) => Accounts[s] = {}

LEMMA AccountOf == StartupInv => AccountsOfOwners
<1> SUFFICES ASSUME StartupInv, NEW s \in Subjects
             PROVE  /\ \A i \in DOMAIN users :
                         users[i].owner = s => Accounts[s] = {[id |-> i, role |-> users[i].role]}
                    /\ (\A i \in DOMAIN users : users[i].owner # s) => Accounts[s] = {}
  BY DEF AccountsOfOwners
<1>1. Accounts[s] = {[id |-> i, role |-> users[i].role] : i \in RowsFor(s)}
  BY DEF Accounts
<1>2. RowsFor(s) = {i \in DOMAIN users : users[i].owner = s}
  BY RowsForOwner
<1>3. \A i, j \in DOMAIN users : users[i].owner = users[j].owner => i = j
  BY DEF StartupInv, SubjectKeepsRow
<1>4. \A i \in DOMAIN users : users[i].owner = s => RowsFor(s) = {i}
  BY <1>2, <1>3
<1> QED  BY <1>1, <1>2, <1>4

LEMMA AccountNext == StartupInv' => AccountsOfOwners'
BY AccountOf, PTL

\* Two tables say the same of a subject whose row they agree on.
LEMMA SameAccount ==
  ASSUME StartupInv, StartupInv', NEW s \in Subjects,
         DOMAIN users \subseteq DOMAIN users',
         \A i \in DOMAIN users : users'[i].owner = users[i].owner,
         \A i \in DOMAIN users : users[i].owner = s => users'[i].role = users[i].role,
         \A i \in DOMAIN users' \ DOMAIN users : users'[i].owner # s
  PROVE  Accounts'[s] = Accounts[s]
<1>1. AccountsOfOwners /\ AccountsOfOwners'
  BY AccountOf, AccountNext
<1>2. CASE \E i \in DOMAIN users : users[i].owner = s
  <2>1. PICK i \in DOMAIN users : users[i].owner = s
    BY <1>2
  <2>2. i \in DOMAIN users' /\ users'[i].owner = s /\ users'[i].role = users[i].role
    BY <2>1
  <2>3. Accounts[s] = {[id |-> i, role |-> users[i].role]}
    BY <1>1, <2>1 DEF AccountsOfOwners
  <2>4. Accounts'[s] = {[id |-> i, role |-> users'[i].role]}
    BY <1>1, <2>2 DEF AccountsOfOwners
  <2> QED  BY <2>2, <2>3, <2>4
<1>3. CASE \A i \in DOMAIN users : users[i].owner # s
  <2>1. \A i \in DOMAIN users' : users'[i].owner # s
    BY <1>3
  <2> QED  BY <1>1, <1>3, <2>1 DEF AccountsOfOwners
<1> QED  BY <1>2, <1>3

\* A step after which every row has its owner and role changes no account.
LEMMA SameAccounts ==
  ASSUME StartupInv, StartupInv', DOMAIN users' = DOMAIN users,
         \A i \in DOMAIN users : /\ users'[i].owner = users[i].owner
                                 /\ users'[i].role = users[i].role
  PROVE  Accounts' = Accounts
<1>1. \A s \in Subjects : Accounts'[s] = Accounts[s]
  BY SameAccount
<1> QED  BY <1>1 DEF Accounts

\* A login enrols a subject without a row, and changes nothing for one who has one.
LEMMA LoginEnrols ==
  ASSUME StartupInv, NEW p \in Processes, NEW s \in Subjects, ResolveUser(p, s)
  PROVE  Dir!Enrol(s) \/ Accounts' = Accounts
<1>1. StartupInv' /\ AccountsOfOwners /\ AccountsOfOwners'
  BY LoginKeeps, AccountOf, AccountNext
<1>2. CASE DOMAIN users' = DOMAIN users
  BY <1>1, <1>2, LoginFinds, SameAccounts
<1>3. CASE DOMAIN users' # DOMAIN users
  <2>1. PICK n \in DOMAIN users' : n \notin DOMAIN users
    BY <1>3, LoginFinds
  <2>2. /\ users'[n].owner = s /\ users'[n].role = "reporter"
        /\ \A i \in DOMAIN users : users[i].owner # s
        /\ \A i \in DOMAIN users' \ DOMAIN users : users'[i].owner = s
    BY <2>1, LoginFinds
  <2>3. Accounts[s] = {} /\ Accounts'[s] = {[id |-> n, role |-> "reporter"]}
    BY <1>1, <2>1, <2>2 DEF AccountsOfOwners
  <2>4. \A t \in Subjects : t # s => Accounts'[t] = Accounts[t]
    BY <1>1, <2>2, LoginFinds, SameAccount
  <2>5. Accounts' = [Accounts EXCEPT ![s] = {[id |-> n, role |-> "reporter"]}]
    <3>1. /\ Accounts' = [t \in Subjects |-> Accounts'[t]]
          /\ Accounts = [t \in Subjects |-> Accounts[t]]
      BY DEF Accounts
    <3> QED  BY <2>3, <2>4, <3>1
  <2>6. \A t \in Subjects : n \notin Dir!Numbers(t)
    <3>1. ASSUME NEW t \in Subjects, NEW a \in Accounts[t] PROVE a.id \in DOMAIN users
      <4>1. PICK i \in RowsFor(t) : a = [id |-> i, role |-> users[i].role]
        BY DEF Accounts
      <4>2. i \in DOMAIN users
        BY DEF RowsFor, RowOf
      <4> QED  BY <4>1, <4>2
    <3> QED  BY <2>1, <3>1 DEF Dir!Numbers
  <2> PICK a : a = [id |-> n, role |-> "reporter"]
    OBVIOUS
  <2>7. a \in Accounts'[s] /\ a.id = n /\ a.role = "reporter"
    BY <2>3
  <2> QED  BY <2>3, <2>5, <2>6, <2>7 DEF Dir!Enrol
<1> QED  BY <1>2, <1>3

\* Giving a role changes the account of the row's owner, and no other.
LEMMA RoleAssigns ==
  ASSUME StartupInv, NEW p \in Processes, NEW k \in DOMAIN users, NEW role \in Roles,
         SetUserRole(p, users[k].opaque, role)
  PROVE  \E s \in Subjects : Dir!Assign(s, role)
<1>1. StartupInv' /\ AccountsOfOwners /\ AccountsOfOwners'
  BY SetUserRoleKeeps, AccountOf, AccountNext
<1> PICK s \in Subjects : s = users[k].owner
  BY RowOfUsers DEF StartupInv, User
<1>2. RowOf(users[k].opaque) = {k}
  <2>1. ~hasTable
    BY DEF SetUserRole, StartupInv, Migration
  <2>2. \A i \in DOMAIN users : users[i].opaque = users[k].opaque => users[i].owner = s
    BY <2>1, DerivedIsInjective DEF StartupInv, Migration
  <2> QED  BY <2>2 DEF RowOf, StartupInv, SubjectKeepsRow
<1>3. /\ DOMAIN users' = DOMAIN users
      /\ \A i \in DOMAIN users :
           /\ users'[i].owner = users[i].owner
           /\ users'[i].role = IF i = k THEN role ELSE users[i].role
  BY <1>2, RowOfUsers DEF SetUserRole, StartupInv, User
<1>4. Accounts[s] = {[id |-> k, role |-> users[k].role]}
  BY <1>1 DEF AccountsOfOwners
<1>5. Accounts'[s] = {[id |-> k, role |-> role]}
  <2>1. users'[k].owner = s /\ users'[k].role = role /\ k \in DOMAIN users'
    BY <1>3
  <2> QED  BY <1>1, <2>1 DEF AccountsOfOwners
<1>6. \A t \in Subjects : t # s => Accounts'[t] = Accounts[t]
  BY <1>1, <1>3, SameAccount
<1>7. Accounts' = [Accounts EXCEPT ![s] = {[id |-> k, role |-> role]}]
  <2>1. /\ Accounts' = [t \in Subjects |-> Accounts'[t]]
        /\ Accounts = [t \in Subjects |-> Accounts[t]]
    BY DEF Accounts
  <2> QED  BY <1>5, <1>6, <2>1
<1> PICK a : a = [id |-> k, role |-> users[k].role]
  OBVIOUS
<1>8. a \in Accounts[s] /\ a.id = k
  BY <1>4
<1> QED  BY <1>7, <1>8 DEF Dir!Assign

\* The steps of db.Open and of an operator are none of the directory's.
LEMMA OthersChangeNoAccount ==
  ASSUME StartupInv, Next,
         ~\E p \in Processes, s \in Subjects : ResolveUser(p, s),
         ~\E p \in Processes, i \in DOMAIN users, r \in Roles :
             SetUserRole(p, users[i].opaque, r)
  PROVE  Accounts' = Accounts
<1>1. StartupInv'
  BY StepKeeps
<1>2. CASE UNCHANGED users
  BY <1>1, <1>2, SameAccounts
<1>3. ASSUME NEW p \in Processes, DropUserIdentities(p) PROVE Accounts' = Accounts
  BY <1>1, <1>3, DropRehashes, SameAccounts
<1>4. CASE EditGrants
  BY <1>2, <1>4 DEF EditGrants
<1>5. ASSUME NEW p \in Processes,
             \/ Open(p) \/ InsertSeed(p) \/ ReadSeed(p) \/ LookForIdentities(p)
             \/ ReadIdentities(p) \/ SeedRolePermissions(p) \/ Exit(p) \/ HashSeed(p)
      PROVE  UNCHANGED users
  BY <1>5 DEF Open, InsertSeed, ReadSeed, LookForIdentities, ReadIdentities,
     SeedRolePermissions, Exit, HashSeed, tables
<1> QED  BY <1>2, <1>3, <1>4, <1>5 DEF Next

\* In a database that is opened first every account is a reporter's.
LEMMA DirectoryStarts == Init => Dir!Init
<1> SUFFICES ASSUME Init PROVE Dir!Init
  OBVIOUS
<1>1. StartupInv /\ AccountsOfOwners
  BY InitKeeps, AccountOf
<1>2. \A i \in DOMAIN users : users[i].role = "reporter"
  BY DEF Init
<1>3. ASSUME NEW s \in Subjects, Accounts[s] # {}
      PROVE  \E i \in DOMAIN users :
               users[i].owner = s /\ Accounts[s] = {[id |-> i, role |-> "reporter"]}
  BY <1>1, <1>2, <1>3 DEF AccountsOfOwners
<1>4. \A s \in Subjects :
        Accounts[s] # {} => \E a \in Accounts[s] :
                              Accounts[s] = {[id |-> a.id, role |-> "reporter"]}
  <2> TAKE s \in Subjects
  <2> HAVE Accounts[s] # {}
  <2>1. PICK i : Accounts[s] = {[id |-> i, role |-> "reporter"]}
    BY <1>3
  <2> QED  BY <2>1
<1>5. \A s, t \in Subjects : s # t => Dir!Numbers(s) \cap Dir!Numbers(t) = {}
  <2>1. \A s \in Subjects : \A n \in Dir!Numbers(s) : users[n].owner = s
    <3> TAKE s \in Subjects
    <3> TAKE n \in Dir!Numbers(s)
    <3>1. Accounts[s] # {}
      BY DEF Dir!Numbers
    <3>2. PICK i \in DOMAIN users :
            users[i].owner = s /\ Accounts[s] = {[id |-> i, role |-> "reporter"]}
      BY <1>3, <3>1
    <3>3. n = i
      BY <3>2 DEF Dir!Numbers
    <3> QED  BY <3>2, <3>3
  <2> QED  BY <2>1
<1>6. DOMAIN Accounts = Subjects
  BY DEF Accounts
<1> QED  BY <1>4, <1>5, <1>6 DEF Dir!Init

\* However processes open, migrate, crash and open the file again, the tables
\* serve as a directory: a subject keeps one account, with the role that was given
\* last (ImplementsDirectory).
THEOREM RefinesDirectory == AccessSpec => ImplementsDirectory
<1>1. AccessInit => Dir!Init
  BY DirectoryStarts DEF AccessInit
<1>2. StartupInv /\ [AccessNext]_accessVars => [Dir!Next]_Accounts
  <2> SUFFICES ASSUME StartupInv, [AccessNext]_accessVars
               PROVE  Dir!Next \/ Accounts' = Accounts
    OBVIOUS
  <2>1. CASE UNCHANGED vars
    <3>1. UNCHANGED <<users, hasTable, identities, seed>>
      BY <2>1 DEF vars, tables
    <3> QED  BY <3>1 DEF Accounts, RowsFor, RowOf
  <2>2. ASSUME NEW p \in Processes, NEW s \in Subjects, ResolveUser(p, s)
        PROVE  Dir!Next \/ Accounts' = Accounts
    BY <2>2, LoginEnrols DEF Dir!Next
  <2>3. ASSUME NEW p \in Processes, NEW i \in DOMAIN users, NEW r \in Roles,
               SetUserRole(p, users[i].opaque, r)
        PROVE  Dir!Next
    BY <2>3, RoleAssigns DEF Dir!Next
  <2> QED  BY <2>1, <2>2, <2>3, AccessSteps, OthersChangeNoAccount
<1> QED  BY <1>1, <1>2, StartupInvariant, PTL DEF AccessSpec, ImplementsDirectory, Dir!Spec
=============================================================================
