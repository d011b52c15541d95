--------------------------- MODULE OperatorProofs ---------------------------
(***************************************************************************)
(* Lemmas about the operators the models are built from: least numbers,    *)
(* newest rows and limited lists, and which positions round-trip.          *)
(***************************************************************************)
EXTENDS Coordinates, EventLog, FiniteSetTheorems, WellFoundedInduction, TLAPS

-----------------------------------------------------------------------------
(* Sequences that grow at the end.                                         *)

LEMMA SeqElement == ASSUME NEW S, NEW s \in Seq(S), NEW i \in DOMAIN s
                    PROVE  s[i] \in S
OBVIOUS

LEMMA Appended ==
  ASSUME NEW S, NEW s \in Seq(S), NEW e \in S
  PROVE  /\ Append(s, e) \in Seq(S)
         /\ DOMAIN Append(s, e) = DOMAIN s \cup {Len(s) + 1}
         /\ Len(s) + 1 \notin DOMAIN s
         /\ Len(s) + 1 \in Nat \ {0}
         /\ \A i \in DOMAIN s : Append(s, e)[i] = s[i]
         /\ Append(s, e)[Len(s) + 1] = e
         /\ \A i \in DOMAIN s : i < Len(s) + 1 /\ i \in Nat \ {0}
OBVIOUS

\* t is s with rows added.
Extends(s, t) == /\ DOMAIN s \subseteq DOMAIN t
                 /\ \A i \in DOMAIN s : t[i] = s[i]

LEMMA AppendExtends == ASSUME NEW S, NEW s \in Seq(S), NEW e \in S
                       PROVE  Extends(s, Append(s, e))
BY Appended DEF Extends

LEMMA SameExtends == ASSUME NEW s PROVE Extends(s, s)
BY DEF Extends

-----------------------------------------------------------------------------
(* Numbers and rows.                                                       *)

\* The least-number principle for a set: what stands here for induction.
LEMMA LeastNumber ==
  ASSUME NEW T \in SUBSET Nat, T # {}
  PROVE  \E m \in T : \A k \in T : m <= k
<1> DEFINE R == OpToRel(<, Nat)
<1>1. IsWellFoundedOn(R, Nat)
  BY NatLessThanWellFounded
<1>2. \A k, m \in Nat : k < m => <<k, m>> \in R
  BY DEF OpToRel
<1> HIDE DEF R
<1>3. PICK m \in T : \A k \in T : ~(<<k, m>> \in R)
  BY <1>1, WFMin
<1>4. \A k \in T : m <= k
  <2> TAKE k \in T
  <2>1. ~(k < m)
    BY <1>2, <1>3
  <2> QED  BY <2>1
<1> QED  BY <1>4

\* Step by step from 0 to n: what a recursion on numbers rests on.
LEMMA Reached ==
  ASSUME NEW n \in Nat, NEW S, 0 \in S, \A i \in 0 .. n - 1 : i \in S => i + 1 \in S
  PROVE  0 .. n \subseteq S
<1> DEFINE Missed == {i \in 0 .. n : i \notin S}
<1>1. Missed = {}
  <2> SUFFICES ASSUME Missed # {} PROVE FALSE
    OBVIOUS
  <2>1. PICK m \in Missed : \A k \in Missed : m <= k
    <3>1. Missed \in SUBSET Nat
      OBVIOUS
    <3> HIDE DEF Missed
    <3> QED  BY <3>1, LeastNumber
  <2>2. m \in 0 .. n /\ m \notin S /\ m # 0
    OBVIOUS
  <2>3. m - 1 \in 0 .. n - 1 /\ m - 1 \notin Missed
    <3>1. m - 1 \in 0 .. n - 1 /\ ~(m <= m - 1)
      BY <2>2
    <3> HIDE DEF Missed
    <3> QED  BY <2>1, <3>1
  <2>4. m - 1 \in S
    BY <2>3
  <2> QED  BY <2>2, <2>3, <2>4
<1> QED  BY <1>1

LEMMA OneLonger ==
  ASSUME NEW m \in Nat, m # 0
  PROVE  1 .. m = (1 .. m - 1) \cup {m}
OBVIOUS

\* Some rows, and there is a newest: max(observed_at) of a group has a row.
LEMMA NewestExists ==
  ASSUME NEW n \in Nat, NEW G \in SUBSET (1 .. n), G # {},
         NEW at, \A i \in G : at[i] \in Int
  PROVE  \E i \in G : \A j \in G : at[j] <= at[i]
<1> DEFINE Upto(m) == G \cap (1 .. m)
           Good(m) == Upto(m) = {} \/ \E i \in Upto(m) : \A j \in Upto(m) : at[j] <= at[i]
           Bad == {m \in Nat : ~Good(m)}
<1>1. Bad = {}
  <2> SUFFICES ASSUME Bad # {} PROVE FALSE
    OBVIOUS
  <2>1. PICK m \in Bad : \A k \in Bad : m <= k
    BY LeastNumber
  <2>2. m \in Nat /\ m # 0
    OBVIOUS
  <2>3. m - 1 \in Nat /\ Good(m - 1)
    <3>1. m - 1 \in Nat /\ ~(m <= m - 1)
      BY <2>2
    <3>2. m - 1 \notin Bad
      BY <2>1, <3>1
    <3> HIDE DEF Good
    <3> QED  BY <3>1, <3>2
  <2>4. Upto(m) = Upto(m - 1) \cup ({m} \cap G)
    <3>1. 1 .. m = (1 .. m - 1) \cup {m}
      BY <2>2, OneLonger
    <3> QED  BY <3>1
  <2>5. ~Good(m)
    OBVIOUS
  <2> HIDE DEF Upto, Bad
  <2>6. CASE m \notin G
    BY <2>3, <2>4, <2>5, <2>6
  <2>7. CASE m \in G
    <3>1. Upto(m) = Upto(m - 1) \cup {m} /\ Upto(m - 1) \subseteq G
      BY <2>4, <2>7 DEF Upto
    <3>2. CASE Upto(m - 1) = {}
      BY <2>5, <2>7, <3>1, <3>2
    <3>3. CASE \E i \in Upto(m - 1) : \A j \in Upto(m - 1) : at[j] <= at[i]
      <4>1. PICK i \in Upto(m - 1) : \A j \in Upto(m - 1) : at[j] <= at[i]
        BY <3>3
      <4>2. CASE at[m] <= at[i]
        BY <2>5, <3>1, <4>1, <4>2
      <4>3. CASE ~(at[m] <= at[i])
        <5>1. \A j \in Upto(m) : at[j] <= at[m]
          <6> TAKE j \in Upto(m)
          <6>1. at[j] \in Int /\ at[i] \in Int /\ at[m] \in Int
            BY <2>7, <3>1, <4>1
          <6>2. j = m \/ at[j] <= at[i]
            BY <3>1, <4>1
          <6> QED  BY <4>3, <6>1, <6>2
        <5> QED  BY <2>5, <3>1, <5>1
      <4> QED  BY <4>2, <4>3
    <3> QED  BY <2>3, <3>2, <3>3
  <2> QED  BY <2>6, <2>7
<1>2. Good(n)
  BY <1>1
<1>3. Upto(n) = G
  OBVIOUS
<1> QED  BY <1>2, <1>3

\* Who is not in the table has no flags.
LEMMA NoFlags == ASSUME NEW u PROVE FlagSum(<<>>, u) = 0
<1>1. Rows(<<>>, u, 1) = {} /\ Rows(<<>>, u, -1) = {}
  BY DEF Rows
<1>2. Cardinality(Rows(<<>>, u, 1)) = 0 /\ Cardinality(Rows(<<>>, u, -1)) = 0
  BY <1>1, FS_EmptySet, Zenon
<1> QED
  BY <1>2 DEF FlagSum

LEMMA FlagSumInt ==
  ASSUME NEW T, NEW flags \in Seq(T), NEW u
  PROVE  FlagSum(flags, u) \in Int
<1>1. Len(flags) \in Nat /\ DOMAIN flags = 1 .. Len(flags)
  OBVIOUS
<1>2. IsFiniteSet(DOMAIN flags)
  BY <1>1, FS_Interval
<1>3. \A value : Cardinality(Rows(flags, u, value)) \in Nat
  <2> TAKE value
  <2>1. Rows(flags, u, value) \subseteq DOMAIN flags
    BY DEF Rows
  <2> QED
    BY <1>2, <2>1, FS_Subset, FS_CardinalityType
<1> QED
  BY <1>3 DEF FlagSum

\* A location with a visible sighting has a row for its marker, and all of its
\* rows are as new as any of its visible sightings (store.go:96-127).
LEMMA MarkerOfVisible ==
  ASSUME NEW T, NEW sightings \in Seq(T), \A i \in DOMAIN sightings : sightings[i].at \in Int,
         NEW flags, NEW since, NEW includeInsincere, NEW i \in DOMAIN sightings,
         Visible(sightings[i], flags, since, includeInsincere)
  PROVE  LET rows == MarkerRows(sightings[i].location, sightings, flags, since, includeInsincere)
         IN  rows # {} /\ \A k \in rows : sightings[k].at >= sightings[i].at
<1> DEFINE l == sightings[i].location
           G == Group(l, sightings, flags, since, includeInsincere)
           at == [k \in DOMAIN sightings |-> sightings[k].at]
<1>1. Len(sightings) \in Nat /\ DOMAIN sightings = 1 .. Len(sightings)
  OBVIOUS
<1>2. G \in SUBSET (1 .. Len(sightings)) /\ i \in G
  BY <1>1 DEF Group
<1>3. \A k \in G : at[k] \in Int /\ at[k] = sightings[k].at
  BY <1>1, <1>2
<1> HIDE DEF G, at
<1>4. PICK k \in G : \A j \in G : at[j] <= at[k]
  BY <1>1, <1>2, <1>3, NewestExists
<1>5. k \in MarkerRows(l, sightings, flags, since, includeInsincere)
  BY <1>3, <1>4 DEF MarkerRows, G
<1>6. \A m \in MarkerRows(l, sightings, flags, since, includeInsincere) : at[i] <= at[m]
  BY <1>2, <1>3 DEF MarkerRows, G
<1>7. \A m \in MarkerRows(l, sightings, flags, since, includeInsincere) : m \in G
  BY DEF MarkerRows, G
<1> QED
  BY <1>2, <1>3, <1>5, <1>6, <1>7

-----------------------------------------------------------------------------
(* Lists that end at a limit.                                              *)

IsEvent(e) == /\ e.at \in Int /\ e.id \in Int
              /\ e.type \in {"sighting", "location_created"}

\* Events that a type and an id tell apart, and only those.
Distinct(all) == \A e, f \in all : e.type = f.type /\ e.id = f.id => e = f

\* ORDER BY timestamp, event_type, event_id is a strict total order.
LEMMA AboveOrders ==
  ASSUME NEW e, NEW f, NEW g, IsEvent(e), IsEvent(f), IsEvent(g)
  PROVE  /\ ~Above(e, e)
         /\ Above(e, f) => e.at >= f.at
         /\ Above(e, f) /\ Above(f, g) => Above(e, g)
         /\ ~Above(e, f) /\ ~Above(f, e) => e.type = f.type /\ e.id = f.id
<1> USE DEF IsEvent, Above
<1>1. ~Above(e, e)
  OBVIOUS
<1>2. Above(e, f) => e.at >= f.at
  OBVIOUS
<1>3. Above(e, f) /\ Above(f, g) => Above(e, g)
  OBVIOUS
<1>4. ~Above(e, f) /\ ~Above(f, e) => e.type = f.type /\ e.id = f.id
  OBVIOUS
<1> QED
  BY <1>1, <1>2, <1>3, <1>4

\* Ranks are numbers below the size of the list, and no two rows share one.
LEMMA Ranks ==
  ASSUME NEW all, IsFiniteSet(all), \A e \in all : IsEvent(e), Distinct(all),
         NEW rank, rank = [e \in all |-> Cardinality({f \in all : Above(f, e)})]
  PROVE  rank \in Bijection(all, 0 .. Cardinality(all) - 1)
<1> DEFINE above(e) == {f \in all : Above(f, e)}
           n == Cardinality(all)
<1>1. n \in Nat
  BY FS_CardinalityType
<1>2. ASSUME NEW e \in all
      PROVE  /\ IsFiniteSet(above(e)) /\ Cardinality(above(e)) \in Nat
             /\ e \notin above(e)
             /\ IsFiniteSet(above(e) \cup {e})
             /\ Cardinality(above(e) \cup {e}) = Cardinality(above(e)) + 1
  <2>1. above(e) \subseteq all /\ e \notin above(e)
    BY AboveOrders
  <2>2. IsFiniteSet(above(e))
    BY <2>1, FS_Subset
  <2> HIDE DEF above
  <2> QED
    BY <2>1, <2>2, FS_CardinalityType, FS_AddElement
<1>3. ASSUME NEW e \in all
      PROVE  rank[e] = Cardinality(above(e)) /\ rank[e] \in 0 .. n - 1
  <2>1. above(e) \cup {e} \subseteq all
    OBVIOUS
  <2>2. Cardinality(above(e) \cup {e}) <= n
    BY <2>1, FS_Subset
  <2>3. rank[e] = Cardinality(above(e))
    OBVIOUS
  <2> HIDE DEF above, n
  <2>4. Cardinality(above(e)) + 1 <= n /\ Cardinality(above(e)) \in Nat
    BY <1>2, <2>2
  <2> QED
    BY <1>1, <2>3, <2>4
<1>4. ASSUME NEW e \in all, NEW f \in all, Above(e, f)
      PROVE  rank[e] # rank[f]
  <2>1. above(e) \cup {e} \subseteq above(f)
    BY <1>4, AboveOrders
  <2>2. Cardinality(above(e) \cup {e}) <= Cardinality(above(f))
    BY <1>2, <2>1, FS_Subset
  <2> HIDE DEF above
  <2> QED
    BY <1>2, <1>3, <2>2
<1>5. \A e, f \in all : rank[e] = rank[f] => e = f
  BY <1>4, AboveOrders DEF Distinct
<1> HIDE DEF above
<1>6. rank \in Injection(all, 0 .. n - 1)
  BY <1>3, <1>5 DEF Injection, IsInjective
<1>7. IsFiniteSet(0 .. n - 1) /\ Cardinality(0 .. n - 1) = n
  BY <1>1, FS_Interval
<1>8. rank \in Surjection(all, 0 .. n - 1)
  BY <1>6, <1>7, FS_Injection
<1> QED
  BY <1>6, <1>8 DEF Bijection

\* A list that leaves a row out is as long as the limit, and none of its rows
\* is older than the one left out.
LEMMA LimitedList ==
  ASSUME NEW all, IsFiniteSet(all), \A e \in all : IsEvent(e), Distinct(all),
         NEW limit \in Nat, NEW out \in all,
         NEW top, top = {e \in all : Cardinality({f \in all : Above(f, e)}) < limit},
         out \notin top
  PROVE  Cardinality(top) = limit /\ \A e \in top : e.at >= out.at
<1> DEFINE rank == [e \in all |-> Cardinality({f \in all : Above(f, e)})]
           n == Cardinality(all)
<1>1. n \in Nat
  BY FS_CardinalityType
<1>2. rank \in Bijection(all, 0 .. n - 1)
  BY Ranks
<1>3. top = {e \in all : rank[e] < limit} /\ ~(rank[out] < limit)
  OBVIOUS
<1>4. ASSUME NEW e \in all, NEW f \in all, Above(e, f) PROVE rank[e] <= rank[f]
  <2> DEFINE above(g) == {h \in all : Above(h, g)}
  <2>1. above(e) \subseteq above(f) /\ above(f) \subseteq all
    BY <1>4, AboveOrders
  <2>2. IsFiniteSet(above(f))
    BY <2>1, FS_Subset
  <2>3. Cardinality(above(e)) <= Cardinality(above(f))
    BY <2>1, <2>2, FS_Subset
  <2> QED
    BY <2>3
<1> HIDE DEF rank
<1>5. \A e \in all : rank[e] \in 0 .. n - 1
  BY <1>2 DEF Bijection, Injection
<1>6. limit <= n - 1
  BY <1>1, <1>3, <1>5
<1>7. Cardinality(top) = limit
  <2> DEFINE r == [e \in top |-> rank[e]]
  <2>1. \A e \in top : rank[e] \in 0 .. limit - 1
    BY <1>3, <1>5
  <2>2. \A e, f \in all : rank[e] = rank[f] => e = f
    BY <1>2 DEF Bijection, Injection, IsInjective
  <2>3. \A k \in 0 .. n - 1 : \E e \in all : rank[e] = k
    BY <1>2 DEF Bijection, Surjection
  <2>4. \A k \in 0 .. limit - 1 : \E e \in top : rank[e] = k
    BY <1>1, <1>3, <1>6, <2>3
  <2>5. r \in Injection(top, 0 .. limit - 1)
    BY <1>3, <2>1, <2>2 DEF Injection, IsInjective
  <2>6. r \in Surjection(top, 0 .. limit - 1)
    BY <2>1, <2>4 DEF Surjection
  <2>7. ExistsBijection(top, 0 .. limit - 1)
    BY <2>5, <2>6 DEF ExistsBijection, Bijection
  <2>8. IsFiniteSet(top)
    BY <1>3, FS_Subset
  <2>9. Cardinality(0 .. limit - 1) = limit
    BY FS_Interval
  <2> HIDE DEF r
  <2> QED
    BY <2>7, <2>8, <2>9, FS_Bijection
<1>8. ASSUME NEW e \in top PROVE e.at >= out.at
  <2>1. e \in all /\ e # out /\ ~(rank[out] <= rank[e])
    BY <1>3, <1>5
  <2>2. Above(e, out)
    BY <1>4, <2>1, AboveOrders DEF Distinct
  <2> QED
    BY <2>1, <2>2, AboveOrders
<1> QED
  BY <1>7, <1>8

\* The interleaved list has finitely many rows, one for each location and for
\* each sighting in the window.
LEMMA InterleavedRows ==
  ASSUME NEW S, NEW T, NEW locations \in Seq(S), NEW sightings \in Seq(T), NEW flags, NEW since,
         \A l \in DOMAIN locations : locations[l].at \in Int,
         \A s \in DOMAIN sightings : sightings[s].at \in Int
  PROVE  LET all == Interleaved(locations, sightings, flags, since)
         IN  IsFiniteSet(all) /\ (\A e \in all : IsEvent(e)) /\ Distinct(all)
<1> DEFINE L == {k \in DOMAIN locations : locations[k].at >= since}
           created == [l \in L |-> Event("location_created", l, locations[l].creator, locations[l].at, flags)]
           W == SightingsSince(sightings, since)
           sighted == [s \in W |-> Event("sighting", s, sightings[s].reporter, sightings[s].at, flags)]
           all == Interleaved(locations, sightings, flags, since)
<1>1. all = {created[l] : l \in L} \cup {sighted[s] : s \in W}
  BY DEF Interleaved
<1>2. /\ Len(locations) \in Nat /\ DOMAIN locations = 1 .. Len(locations)
      /\ Len(sightings) \in Nat /\ DOMAIN sightings = 1 .. Len(sightings)
  OBVIOUS
<1>3. L \subseteq DOMAIN locations /\ W \subseteq DOMAIN sightings
  BY DEF SightingsSince
<1>4. IsFiniteSet(L) /\ IsFiniteSet(W)
  <2> HIDE DEF L, W
  <2>1. IsFiniteSet(DOMAIN locations) /\ IsFiniteSet(DOMAIN sightings)
    BY <1>2, FS_Interval
  <2> QED
    BY <1>3, <2>1, FS_Subset
<1>5. ASSUME NEW D, IsFiniteSet(D), NEW f, DOMAIN f = D, f = [x \in D |-> f[x]]
      PROVE  IsFiniteSet({f[x] : x \in D})
  <2>1. f \in Surjection(D, {f[x] : x \in D})
    BY <1>5 DEF Surjection
  <2> QED
    BY <1>5, <2>1, FS_Surjection
<1>6. IsFiniteSet({created[l] : l \in L}) /\ IsFiniteSet({sighted[s] : s \in W})
  <2>1. DOMAIN created = L /\ created = [l \in L |-> created[l]]
    OBVIOUS
  <2>2. DOMAIN sighted = W /\ sighted = [s \in W |-> sighted[s]]
    OBVIOUS
  <2> HIDE DEF created, sighted, L, W
  <2> QED
    BY <1>4, <1>5, <2>1, <2>2
<1>7. \A l \in L : /\ IsEvent(created[l]) /\ created[l].id = l
                   /\ created[l].type = "location_created"
  BY <1>2, <1>3 DEF IsEvent, Event
<1>8. \A s \in W : /\ IsEvent(sighted[s]) /\ sighted[s].id = s
                   /\ sighted[s].type = "sighting"
  BY <1>2, <1>3 DEF IsEvent, Event
<1> HIDE DEF created, sighted, L, W, all
<1>9. IsFiniteSet(all)
  BY <1>1, <1>6, FS_Union
<1>10. (\A e \in all : IsEvent(e)) /\ Distinct(all)
  BY <1>1, <1>7, <1>8 DEF Distinct
<1> QED
  BY <1>9, <1>10 DEF all

-----------------------------------------------------------------------------
(* Which positions round-trip, and what rounding keeps.                    *)

LEMMA TakenBounds ==
  ASSUME NEW x \in Int
  PROVE  /\ Taken(x) \in Int /\ Magnitude(x) \in Nat
         /\ Taken(x) = Magnitude(x) - (IF Magnitude(x) \in TiesDown THEN 1 ELSE 0)
BY DEF Taken, Magnitude

LEMMA RoundInt == ASSUME NEW x \in Int
                  PROVE  Round7(x) \in Int /\ Round6(x) \in Int
<1>1. Taken(x) \in Int
  BY TakenBounds
<1> QED
  BY <1>1 DEF Round7, Round6

LEMMA Round7Bound ==
  ASSUME NEW x \in Int, NEW m \in Nat, m % 100 = 0, -m <= x, x <= m
  PROVE  -m <= Round7(x) /\ Round7(x) <= m
<1>1. Taken(x) \in Int /\ -1 <= Taken(x) /\ Taken(x) <= m
  BY TakenBounds DEF Magnitude
<1>2. PICK k \in Int : m = 10 * k
  <2>1. PICK h \in Int : m = 100 * h
    BY DEF Round7
  <2> QED
    BY <2>1
<1>3. 0 <= 10 * ((Taken(x) + 5) \div 10) /\ 10 * ((Taken(x) + 5) \div 10) <= m
  <2> PICK t \in Int : t = Taken(x)
    BY <1>1
  <2> QED
    BY <1>1, <1>2
<1> QED
  BY <1>1, <1>3 DEF Round7

\* The tie of six decimals in the hundred units a magnitude lies in, and whether
\* seven decimals take the magnitude there from another place.
Tie(m) == 100 * (m \div 100) + 50

GoesDown(m) == m \in TiesDown

\* Whether rounding to seven decimals carries a magnitude across the edge of its
\* cell.  A tie that goes up carries those below it, and one that goes down
\* those above it; 45 and 55 are ties of seven decimals themselves.
Doubtful(m) ==
  IF GoesDown(Tie(m)) THEN \/ m % 100 \in 51 .. 54
                           \/ m % 100 = 55 /\ GoesDown(m)
                      ELSE \/ m % 100 \in 46 .. 49
                           \/ m % 100 = 45 /\ ~GoesDown(m)

LEMMA DivHundred ==
  ASSUME NEW h \in Int, NEW k \in Int
  PROVE  (100 * h + k) \div 100 = h + k \div 100 /\ (100 * h + k) \div 10 = 10 * h + k \div 10
OBVIOUS

\* When both roundings put 100 h + d in one cell: off, if it is a tie that goes
\* down itself, and tie, if the tie of its hundred does.
Agree(d, off, tie) ==
  \/ d \notin 45 .. 55
  \/ d = 45 /\ (off = 1 \/ tie = 1)
  \/ d \in 46 .. 49 /\ tie = 1
  \/ d = 50 /\ off = tie
  \/ d \in 51 .. 54 /\ tie = 0
  \/ d = 55 /\ (off = 0 \/ tie = 0)

LEMMA RoundedTwice ==
  ASSUME NEW d \in 0 .. 99, NEW off \in {0, 1}, NEW e \in Int, e = (d - off + 5) \div 10,
         NEW tie \in {0, 1}, NEW f \in {0, 1}, e = 5 => f = tie
  PROVE  (10 * e - f + 50) \div 100 = (d - off + 50) \div 100 <=> Agree(d, off, tie)
<1>1. e \in 0 .. 10
  OBVIOUS
<1>2. CASE d < 45
  BY <1>1, <1>2 DEF Agree
<1>3. CASE d > 55
  BY <1>1, <1>3 DEF Agree
<1>4. CASE d \in 45 .. 55
  BY <1>1, <1>4 DEF Agree
<1> QED
  BY <1>2, <1>3, <1>4

LEMMA Hundreds ==
  ASSUME NEW m \in Nat
  PROVE  \E h \in Nat, d \in 0 .. 99 : m = 100 * h + d /\ h = m \div 100 /\ d = m % 100
<1>1. m \div 100 \in Nat /\ m % 100 \in 0 .. 99 /\ m = 100 * (m \div 100) + (m % 100)
  OBVIOUS
<1> QED
  BY <1>1

LEMMA RoundTwice ==
  ASSUME NEW x \in Int
  PROVE  Round6(Round7(x)) = Round6(x) <=> ~Doubtful(Magnitude(x))
<1> DEFINE m == Magnitude(x)
           Off(k) == IF GoesDown(k) THEN 1 ELSE 0
<1>0. m \in Nat /\ Taken(x) = m - Off(m)
  BY TakenBounds DEF GoesDown
<1>a. Round6(x) = (IF x >= 0 THEN 100 * ((Taken(x) + 50) \div 100)
                             ELSE -(100 * ((Taken(x) + 50) \div 100)))
  BY DEF Round6
<1> HIDE DEF m
<1>1. PICK h \in Nat, d \in 0 .. 99 : m = 100 * h + d /\ h = m \div 100 /\ d = m % 100
  BY <1>0, Hundreds
<1>2. PICK off \in {0, 1} : off = Off(m)
  OBVIOUS
<1> HIDE DEF Off
<1>b. Taken(x) = 100 * h + d - off
  <2>1. Taken(x) = m - off /\ m \in Int
    BY <1>0, <1>2
  <2>2. m = 100 * h + d
    BY <1>1
  <2> QED
    BY <2>1, <2>2
<1>3. PICK e \in Int : e = (d - off + 5) \div 10 /\ e \in 0 .. 10
  OBVIOUS
<1> DEFINE s == 100 * h + 10 * e
<1>4. s = 10 * ((Taken(x) + 5) \div 10) /\ s \in Nat
  <2>1. Taken(x) + 5 = 100 * h + (d - off + 5)
    BY <1>b
  <2>2. (100 * h + (d - off + 5)) \div 10 = 10 * h + e
    BY <1>3, DivHundred
  <2> QED
    BY <1>3, <2>1, <2>2
<1>5. PICK f \in {0, 1} : f = Off(s)
  BY DEF Off
<1>6. PICK tie \in {0, 1} : tie = Off(Tie(m))
  BY DEF Off
<1>7. Tie(m) = 100 * h + 50
  BY <1>1 DEF Tie
<1>8. e = 5 => f = tie
  BY <1>5, <1>6, <1>7
<1> HIDE DEF s
<1>9. Round7(x) = (IF x >= 0 THEN s ELSE -s)
  BY <1>4 DEF Round7
<1>10. Taken(Round7(x)) = s - f
  BY <1>4, <1>5, <1>9 DEF Taken, Magnitude, GoesDown, Off
<1>11. x < 0 /\ s = 0 => h = 0 /\ e = 0
  BY <1>3 DEF s
<1> DEFINE a == (10 * e - f + 50) \div 100
           b == (d - off + 50) \div 100
<1>12. (s - f + 50) \div 100 = h + a /\ (Taken(x) + 50) \div 100 = h + b
  <2>1. s - f + 50 = 100 * h + (10 * e - f + 50) /\ Taken(x) + 50 = 100 * h + (d - off + 50)
    BY <1>b DEF s
  <2> QED
    BY <2>1, DivHundred
<1>13. a \in Int /\ b \in Int /\ a >= 0
  BY <1>3
<1> HIDE DEF a, b
<1>14. Round6(x) = (IF x >= 0 THEN 100 * (h + b) ELSE -(100 * (h + b)))
  BY <1>12, <1>a
<1>15. Round6(Round7(x)) = (IF x >= 0 THEN 100 * (h + a) ELSE -(100 * (h + a)))
  <2>1. CASE x >= 0
    BY <1>4, <1>9, <1>10, <1>12, <2>1 DEF Round6
  <2>2. CASE x < 0 /\ s # 0
    BY <1>4, <1>9, <1>10, <1>12, <2>2 DEF Round6
  <2>3. CASE x < 0 /\ s = 0
    <3>1. h = 0 /\ a = 0
      BY <1>3, <1>5, <1>11, <2>3 DEF a
    <3> QED
      BY <1>9, <1>10, <1>12, <2>3, <3>1 DEF Round6
  <2> QED
    BY <2>1, <2>2, <2>3
<1>16. Round6(Round7(x)) = Round6(x) <=> a = b
  BY <1>13, <1>14, <1>15
<1>17. a = b <=> Agree(d, off, tie)
  <2>1. e = (d - off + 5) \div 10 /\ (e = 5 => f = tie)
    BY <1>3, <1>8
  <2> QED
    BY <2>1, RoundedTwice DEF a, b
<1>18. d = 50 => off = tie
  BY <1>1, <1>2, <1>6, <1>7
<1>19. Doubtful(m) <=> ~Agree(d, off, tie)
  <2>1. GoesDown(Tie(m)) <=> tie = 1
    BY <1>6 DEF Off
  <2>2. GoesDown(m) <=> off = 1
    BY <1>2 DEF Off
  <2>3. CASE tie = 1
    BY <1>1, <1>18, <2>1, <2>2, <2>3 DEF Doubtful, Agree
  <2>4. CASE tie = 0
    BY <1>1, <1>18, <2>1, <2>2, <2>4 DEF Doubtful, Agree
  <2> QED
    BY <2>3, <2>4
<1> QED
  BY <1>16, <1>17, <1>19 DEF m

\* Which reports find the location they have just stored (store.go:56-60 and
\* 75-82), whichever ties the doubles make go down: those of whose coordinates
\* neither is doubtful.  At each tie of the sixth decimal positions of one side
\* are lost, and never those of both.
THEOREM RoundTripExactly ==
  ASSUME NEW p \in [lat : Int, lon : Int]
  PROVE  RoundTrips(p) <=> ~Doubtful(Magnitude(p.lat)) /\ ~Doubtful(Magnitude(p.lon))
<1>1. p.lat \in Int /\ p.lon \in Int
  OBVIOUS
<1>2. RoundTrips(p) <=> /\ Round6(Round7(p.lat)) = Round6(p.lat)
                        /\ Round6(Round7(p.lon)) = Round6(p.lon)
  BY DEF RoundTrips, SameCell, Cell, Stored
<1> QED
  BY <1>1, <1>2, RoundTwice

\* What InsertSighting stores satisfies the CHECK constraints of table
\* locations whenever the handler accepted the position, so its first
\* statement never fails on them.
THEOREM StoredIsValid ==
  ASSUME NEW p \in [lat : Int, lon : Int], ValidLatLon(p)
  PROVE  Stored(p) \in [lat : Int, lon : Int] /\ ValidLatLon(Stored(p))
<1>1. Round7(p.lat) \in Int /\ Round7(p.lon) \in Int
  BY RoundInt
<1>2. -MaxLat <= Round7(p.lat) /\ Round7(p.lat) <= MaxLat
  BY Round7Bound, BoundsAssumption DEF ValidLatLon
<1>3. -MaxLon <= Round7(p.lon) /\ Round7(p.lon) <= MaxLon
  BY Round7Bound, BoundsAssumption DEF ValidLatLon
<1> QED
  BY <1>1, <1>2, <1>3 DEF Stored, ValidLatLon
=============================================================================
