--------------------------- MODULE ImporterProofs ---------------------------
(***************************************************************************)
(* Theorems about the importer, for any documents: what its loops compute, *)
(* by steps of the recursions that model them; that every placemark of a   *)
(* document is accounted for; that no sign that is gone is imported as     *)
(* existing; and that no run leaves a location behind.                     *)
(***************************************************************************)
EXTENDS Importer, OperatorProofs

-----------------------------------------------------------------------------
(* Counters.                                                               *)

\* The values a counter passes through.
LEMMA TotalSteps ==
  ASSUME NEW counts \in Seq(Int)
  PROVE  \E t \in [0 .. Len(counts) -> Int] :
           /\ t[0] = 0 /\ \A i \in 1 .. Len(counts) : t[i] = t[i - 1] + counts[i]
           /\ Total(counts) = t[Len(counts)]
<1> DEFINE n == Len(counts)
           Steps(m, t) == t = [i \in 0 .. m |-> IF i = 0 THEN 0 ELSE t[i - 1] + counts[i]]
           Typed == {m \in Nat : \E t \in [0 .. m -> Int] : Steps(m, t)}
<1>1. n \in Nat /\ \A i \in 1 .. n : counts[i] \in Int
  OBVIOUS
<1>2. 0 .. n \subseteq Typed
  <2>1. 0 \in Typed
    <3>1. [i \in 0 .. 0 |-> 0] \in [0 .. 0 -> Int] /\ Steps(0, [i \in 0 .. 0 |-> 0])
      OBVIOUS
    <3> QED  BY <3>1
  <2>2. ASSUME NEW m \in 0 .. n - 1, m \in Typed PROVE m + 1 \in Typed
    <3>1. PICK t \in [0 .. m -> Int] : Steps(m, t)
      BY <2>2
    <3>2. m \in Nat /\ m + 1 \in 1 .. n /\ counts[m + 1] \in Int
      BY <1>1
    <3> DEFINE u == [i \in 0 .. m + 1 |-> IF i = m + 1 THEN t[m] + counts[m + 1] ELSE t[i]]
    <3>3. u \in [0 .. m + 1 -> Int]
      BY <3>2
    <3>4. \A i \in 0 .. m : t[i] = IF i = 0 THEN 0 ELSE t[i - 1] + counts[i]
      BY <3>1
    <3>5. \A i \in 0 .. m + 1 : u[i] = IF i = 0 THEN 0 ELSE u[i - 1] + counts[i]
      BY <3>2, <3>4
    <3>6. Steps(m + 1, u)
      <4> HIDE DEF u
      <4> QED  BY <3>3, <3>5
    <3> HIDE DEF u, Steps
    <3> QED  BY <3>2, <3>3, <3>6
  <2> HIDE DEF Typed
  <2> QED  BY <1>1, <2>1, <2>2, Reached
<1>3. PICK t \in [0 .. n -> Int] : Steps(n, t)
  BY <1>1, <1>2
<1>4. \E u : Steps(n, u) /\ Total(counts) = u[n]
  BY <1>3, Zenon DEF Total
<1>5. PICK u : Steps(n, u) /\ Total(counts) = u[n]
  BY <1>4
<1>6. \A i \in 0 .. n : u[i] = IF i = 0 THEN 0 ELSE u[i - 1] + counts[i]
  BY <1>5
<1>7. 0 .. n \subseteq {i \in Nat : u[i] \in Int}
  <2>1. ASSUME NEW m \in 0 .. n - 1, u[m] \in Int PROVE u[m + 1] \in Int
    BY <1>1, <1>6, <2>1
  <2>2. u[0] = 0
    BY <1>1, <1>6
  <2> DEFINE S == {i \in Nat : u[i] \in Int}
  <2>3. 0 \in S /\ \A m \in 0 .. n - 1 : m \in S => m + 1 \in S
    BY <1>1, <2>1, <2>2
  <2> HIDE DEF S
  <2>4. 0 .. n \subseteq S
    BY <1>1, <2>3, Reached
  <2> QED  BY <2>4 DEF S
<1>8. u \in [0 .. n -> Int]
  BY <1>5, <1>7
<1>9. u[0] = 0 /\ \A i \in 1 .. n : u[i] = u[i - 1] + counts[i]
  BY <1>1, <1>6
<1>10. Total(counts) = u[n]
  BY <1>5
<1> HIDE DEF Steps, Typed
<1> QED  BY <1>8, <1>9, <1>10

\* Two counters over the same loop add up to the counter of both.
LEMMA TotalsAdd ==
  ASSUME NEW a \in Seq(Int), NEW b \in Seq(Int), NEW c \in Seq(Int),
         Len(b) = Len(a), Len(c) = Len(a), \A i \in 1 .. Len(a) : c[i] = a[i] + b[i]
  PROVE  Total(a) \in Int /\ Total(b) \in Int /\ Total(c) = Total(a) + Total(b)
<1> PICK n : n = Len(a)
  OBVIOUS
<1>0. n \in Nat /\ \A i \in 1 .. n : a[i] \in Int /\ b[i] \in Int
  OBVIOUS
<1>1. PICK x \in [0 .. n -> Int] : /\ x[0] = 0 /\ \A i \in 1 .. n : x[i] = x[i - 1] + a[i]
                                /\ Total(a) = x[n]
  BY TotalSteps
<1>2. PICK y \in [0 .. n -> Int] : /\ y[0] = 0 /\ \A i \in 1 .. n : y[i] = y[i - 1] + b[i]
                                /\ Total(b) = y[n]
  BY TotalSteps
<1>3. PICK z \in [0 .. n -> Int] : /\ z[0] = 0 /\ \A i \in 1 .. n : z[i] = z[i - 1] + c[i]
                                /\ Total(c) = z[n]
  BY TotalSteps
<1> DEFINE S == {i \in 0 .. n : z[i] = x[i] + y[i]}
<1>4. 0 \in S
  BY <1>0, <1>1, <1>2, <1>3
<1>5. ASSUME NEW i \in 0 .. n - 1, i \in S PROVE i + 1 \in S
  <2>1. i + 1 \in 1 .. n /\ (i + 1) - 1 = i /\ i \in 0 .. n
    BY <1>0
  <2>2. /\ x[i + 1] = x[i] + a[i + 1] /\ y[i + 1] = y[i] + b[i + 1]
        /\ z[i + 1] = z[i] + (a[i + 1] + b[i + 1])
    BY <1>1, <1>2, <1>3, <2>1
  <2>3. x[i] \in Int /\ y[i] \in Int /\ a[i + 1] \in Int /\ b[i + 1] \in Int
    BY <1>0, <2>1
  <2> QED  BY <1>0, <1>5, <2>1, <2>2, <2>3
<1>6. n \in S
  <2> HIDE DEF S
  <2>1. 0 .. n \subseteq S
    BY <1>0, <1>4, <1>5, Reached
  <2> QED  BY <1>0, <2>1
<1> QED  BY <1>0, <1>1, <1>2, <1>3, <1>6

\* Counting each pass counts the passes.
LEMMA TotalOfOnes ==
  ASSUME NEW ones \in Seq(Int), \A i \in 1 .. Len(ones) : ones[i] = 1
  PROVE  Total(ones) = Len(ones)
<1> PICK n : n = Len(ones)
  OBVIOUS
<1>0. n \in Nat
  OBVIOUS
<1>1. PICK x \in [0 .. n -> Int] : /\ x[0] = 0 /\ \A i \in 1 .. n : x[i] = x[i - 1] + 1
                                /\ Total(ones) = x[n]
  BY TotalSteps
<1> DEFINE S == {i \in 0 .. n : x[i] = i}
<1>2. 0 \in S
  BY <1>0, <1>1
<1>3. ASSUME NEW i \in 0 .. n - 1, i \in S PROVE i + 1 \in S
  <2>1. i + 1 \in 1 .. n /\ (i + 1) - 1 = i
    BY <1>0
  <2>2. x[i + 1] = i + 1
    BY <1>1, <1>3, <2>1
  <2> QED  BY <1>0, <2>1, <2>2
<1>4. n \in S
  <2> HIDE DEF S
  <2>1. 0 .. n \subseteq S
    BY <1>0, <1>2, <1>3, Reached
  <2> QED  BY <1>0, <2>1
<1> QED  BY <1>1, <1>4

-----------------------------------------------------------------------------
(* Concatenations.                                                         *)

LEMMA Concatenated ==
  ASSUME NEW T, NEW s \in Seq(T), NEW t \in Seq(T)
  PROVE  /\ s \o t \in Seq(T) /\ Len(s \o t) = Len(s) + Len(t) /\ <<>> \o t = t
         /\ \A i \in 1 .. Len(s) : (s \o t)[i] = s[i]
         /\ \A i \in 1 .. Len(t) : (s \o t)[Len(s) + i] = t[i]
OBVIOUS

\* What has been appended after each of the sequences.
LEMMA FlattenSteps ==
  ASSUME NEW T, NEW seqs \in Seq(Seq(T))
  PROVE  \E g \in [0 .. Len(seqs) -> Seq(T)] :
           /\ g[0] = <<>> /\ \A i \in 1 .. Len(seqs) : g[i] = g[i - 1] \o seqs[i]
           /\ FlattenSeq(seqs) = g[Len(seqs)]
<1> DEFINE n == Len(seqs)
           Steps(m, g) == g = [i \in 1 .. m |-> IF i = 1 THEN seqs[i] ELSE g[i - 1] \o seqs[i]]
           Typed == {m \in Nat : \E g \in [1 .. m -> Seq(T)] : Steps(m, g)}
<1>1. n \in Nat /\ \A i \in 1 .. n : seqs[i] \in Seq(T)
  OBVIOUS
<1>2. 0 .. n \subseteq Typed
  <2>1. 0 \in Typed
    <3>1. <<>> \in [1 .. 0 -> Seq(T)] /\ Steps(0, <<>>)
      OBVIOUS
    <3> QED  BY <3>1
  <2>2. ASSUME NEW m \in 0 .. n - 1, m \in Typed PROVE m + 1 \in Typed
    <3>1. PICK g \in [1 .. m -> Seq(T)] : Steps(m, g)
      BY <2>2
    <3>2. m \in Nat /\ m + 1 \in 1 .. n /\ seqs[m + 1] \in Seq(T)
      BY <1>1
    <3> DEFINE last == IF m = 0 THEN seqs[1] ELSE g[m] \o seqs[m + 1]
               h == [i \in 1 .. m + 1 |-> IF i = m + 1 THEN last ELSE g[i]]
    <3>3. last \in Seq(T)
      BY <3>2
    <3>4. h \in [1 .. m + 1 -> Seq(T)]
      <4> HIDE DEF last
      <4> QED  BY <3>2, <3>3
    <3>5. \A i \in 1 .. m : g[i] = IF i = 1 THEN seqs[i] ELSE g[i - 1] \o seqs[i]
      BY <3>1
    <3>6. ASSUME NEW i \in 1 .. m + 1
          PROVE  h[i] = IF i = 1 THEN seqs[i] ELSE h[i - 1] \o seqs[i]
      <4>1. CASE i = m + 1
        <5>1. h[i] = last /\ (m # 0 => h[m] = g[m])
          BY <3>2, <4>1
        <5> HIDE DEF h
        <5> QED  BY <3>2, <4>1, <5>1
      <4>2. CASE i # m + 1
        <5>1. i \in 1 .. m /\ h[i] = g[i] /\ (i # 1 => h[i - 1] = g[i - 1])
          BY <3>2, <4>2
        <5> HIDE DEF h
        <5> QED  BY <3>5, <5>1
      <4> QED  BY <4>1, <4>2
    <3>7. Steps(m + 1, h)
      <4> HIDE DEF h
      <4> QED  BY <3>4, <3>6
    <3> HIDE DEF h, Steps
    <3> QED  BY <3>2, <3>4, <3>7
  <2> HIDE DEF Typed
  <2> QED  BY <1>1, <2>1, <2>2, Reached
<1>3. PICK g \in [1 .. n -> Seq(T)] : Steps(n, g)
  <2>1. n \in Typed
    <3> HIDE DEF Typed
    <3> QED  BY <1>1, <1>2
  <2> HIDE DEF Steps
  <2> QED  BY <2>1
<1>4. CASE n = 0
  <2>1. FlattenSeq(seqs) = <<>>
    BY <1>4 DEF FlattenSeq
  <2>2. <<>> \in Seq(T)
    OBVIOUS
  <2> DEFINE G == [i \in 0 .. n |-> <<>>]
  <2>3. G \in [0 .. n -> Seq(T)] /\ G[0] = <<>> /\ G[n] = <<>>
    BY <1>4, <2>2
  <2> HIDE DEF G
  <2> QED  BY <1>4, <2>1, <2>3
<1>5. CASE n # 0
  <2>1. \E h : Steps(n, h) /\ FlattenSeq(seqs) = h[n]
    BY <1>3, <1>5, Zenon DEF FlattenSeq
  <2>2. PICK h : Steps(n, h) /\ FlattenSeq(seqs) = h[n]
    BY <2>1
  <2>3. \A i \in 1 .. n : h[i] = IF i = 1 THEN seqs[i] ELSE h[i - 1] \o seqs[i]
    BY <2>2
  <2> DEFINE G == [i \in 0 .. n |-> IF i = 0 THEN <<>> ELSE h[i]]
             S == {i \in 0 .. n : G[i] \in Seq(T)}
  <2>4. G[0] = <<>>
    BY <1>1
  <2>5. ASSUME NEW i \in 1 .. n PROVE G[i] = G[i - 1] \o seqs[i]
    <3>1. CASE i = 1
      <4>1. <<>> \o seqs[1] = seqs[1]
        BY <1>1, <3>1, Concatenated
      <4>2. G[1] = seqs[1]
        BY <1>1, <2>3, <3>1
      <4>3. i - 1 = 0
        BY <3>1
      <4> HIDE DEF G
      <4>4. G[i - 1] = <<>> /\ G[i] = seqs[1] /\ seqs[i] = seqs[1]
        BY <2>4, <3>1, <4>2, <4>3
      <4> QED  BY <4>1, <4>4
    <3>2. CASE i # 1
      <4>1. G[i] = h[i] /\ G[i - 1] = h[i - 1]
        BY <1>1, <3>2
      <4> HIDE DEF G
      <4> QED  BY <2>3, <3>2, <4>1
    <3> QED  BY <3>1, <3>2
  <2>6. FlattenSeq(seqs) = G[n]
    BY <1>1, <1>5, <2>2
  <2>7. 0 \in S
    BY <1>1, <2>4
  <2>8. ASSUME NEW i \in 0 .. n - 1, i \in S PROVE i + 1 \in S
    <3>1. i + 1 \in 1 .. n /\ (i + 1) - 1 = i
      BY <1>1
    <3>2. G[i + 1] = G[i] \o seqs[i + 1]
      BY <2>5, <3>1
    <3>3. G[i + 1] \in Seq(T)
      <4>1. PICK r : r = G[i]
        OBVIOUS
      <4>2. r \in Seq(T) /\ seqs[i + 1] \in Seq(T)
        BY <1>1, <2>8, <3>1, <4>1
      <4>3. r \o seqs[i + 1] \in Seq(T)
        BY <4>2, Concatenated
      <4> HIDE DEF G
      <4> QED  BY <3>2, <4>1, <4>3
    <3> HIDE DEF G
    <3> QED  BY <1>1, <3>1, <3>3
  <2>9. 0 .. n \subseteq S
    <3> HIDE DEF S
    <3> QED  BY <1>1, <2>7, <2>8, Reached
  <2>10. G \in [0 .. n -> Seq(T)]
    BY <2>9
  <2> HIDE DEF G
  <2> QED  BY <2>4, <2>5, <2>6, <2>10
<1> QED  BY <1>4, <1>5

\* The length of a concatenation is counted by its parts.
LEMMA FlattenLength ==
  ASSUME NEW T, NEW seqs \in Seq(Seq(T)), NEW lens \in Seq(Int), Len(lens) = Len(seqs),
         \A i \in 1 .. Len(seqs) : lens[i] = Len(seqs[i])
  PROVE  FlattenSeq(seqs) \in Seq(T) /\ Len(FlattenSeq(seqs)) = Total(lens)
<1> PICK n : n = Len(seqs)
  OBVIOUS
<1>0. n \in Nat /\ \A i \in 1 .. n : seqs[i] \in Seq(T)
  OBVIOUS
<1>1. PICK g \in [0 .. n -> Seq(T)] :
         /\ g[0] = <<>> /\ \A i \in 1 .. n : g[i] = g[i - 1] \o seqs[i]
         /\ FlattenSeq(seqs) = g[n]
  BY FlattenSteps
<1>2. PICK x \in [0 .. n -> Int] :
         /\ x[0] = 0 /\ \A i \in 1 .. n : x[i] = x[i - 1] + lens[i]
         /\ Total(lens) = x[n]
  BY TotalSteps
<1> DEFINE S == {i \in 0 .. n : Len(g[i]) = x[i]}
<1>3. 0 \in S
  BY <1>0, <1>1, <1>2
<1>4. ASSUME NEW i \in 0 .. n - 1, i \in S PROVE i + 1 \in S
  <2>1. i + 1 \in 1 .. n /\ (i + 1) - 1 = i /\ i \in 0 .. n
    BY <1>0
  <2>2. g[i + 1] = g[i] \o seqs[i + 1] /\ x[i + 1] = x[i] + Len(seqs[i + 1])
    BY <1>1, <1>2, <2>1
  <2>3. Len(g[i + 1]) = Len(g[i]) + Len(seqs[i + 1])
    <3>1. g[i] \in Seq(T) /\ seqs[i + 1] \in Seq(T)
      BY <1>0, <1>1, <2>1
    <3> QED  BY <2>2, <3>1, Concatenated
  <2>4. Len(g[i]) = x[i] /\ i + 1 \in 0 .. n
    BY <1>0, <1>4, <2>1
  <2>5. Len(g[i + 1]) = x[i + 1]
    BY <2>2, <2>3, <2>4
  <2> QED  BY <2>4, <2>5
<1>5. n \in S
  <2> HIDE DEF S
  <2>1. 0 .. n \subseteq S
    BY <1>0, <1>3, <1>4, Reached
  <2> QED  BY <1>0, <2>1
<1> QED  BY <1>0, <1>1, <1>2, <1>5

\* Nothing is in a concatenation that is in none of the sequences.
LEMMA FlattenElement ==
  ASSUME NEW T, NEW seqs \in Seq(Seq(T)), NEW e \in ToSet(FlattenSeq(seqs))
  PROVE  \E i \in DOMAIN seqs : e \in ToSet(seqs[i])
<1> PICK n : n = Len(seqs)
  OBVIOUS
<1>0. n \in Nat /\ DOMAIN seqs = 1 .. n /\ \A i \in 1 .. n : seqs[i] \in Seq(T)
  OBVIOUS
<1>1. PICK g \in [0 .. n -> Seq(T)] :
         /\ g[0] = <<>> /\ \A i \in 1 .. n : g[i] = g[i - 1] \o seqs[i]
         /\ FlattenSeq(seqs) = g[n]
  BY FlattenSteps
<1> DEFINE S == {m \in 0 .. n : \A k \in DOMAIN g[m] :
                   \E i \in DOMAIN seqs : g[m][k] \in ToSet(seqs[i])}
<1>2. 0 \in S
  BY <1>0, <1>1
<1>3. ASSUME NEW m \in 0 .. n - 1, m \in S PROVE m + 1 \in S
  <2>1. m + 1 \in 1 .. n /\ (m + 1) - 1 = m /\ m \in 0 .. n /\ m + 1 \in 0 .. n
    BY <1>0
  <2>2. g[m + 1] = g[m] \o seqs[m + 1]
    BY <1>1, <2>1
  <2>3. PICK s \in Seq(T), t \in Seq(T) : s = g[m] /\ t = seqs[m + 1]
    BY <1>0, <1>1, <2>1
  <2>4. ASSUME NEW k \in DOMAIN (s \o t)
        PROVE  \E i \in DOMAIN seqs : (s \o t)[k] \in ToSet(seqs[i])
    <3>1. k \in 1 .. Len(s) + Len(t) /\ Len(s) \in Nat /\ Len(t) \in Nat
      BY <2>4, Concatenated
    <3>2. CASE k <= Len(s)
      <4>1. (s \o t)[k] = s[k] /\ k \in DOMAIN s
        BY <3>1, <3>2
      <4> QED  BY <1>3, <2>3, <4>1
    <3>3. CASE k > Len(s)
      <4>1. PICK j \in 1 .. Len(t) : k = Len(s) + j
        <5>1. k - Len(s) \in 1 .. Len(t) /\ k = Len(s) + (k - Len(s))
          BY <3>1, <3>3
        <5> QED  BY <5>1
      <4>2. (s \o t)[k] = t[j] /\ j \in DOMAIN t
        BY <4>1, Concatenated
      <4>3. (s \o t)[k] \in ToSet(t)
        BY <4>2, Zenon DEF ToSet
      <4> QED  BY <1>0, <2>1, <2>3, <4>3
    <3> QED  BY <3>1, <3>2, <3>3
  <2>5. g[m + 1] = s \o t
    BY <2>2, <2>3
  <2> QED  BY <2>1, <2>4, <2>5
<1>4. n \in S
  <2> HIDE DEF S
  <2>1. 0 .. n \subseteq S
    BY <1>0, <1>2, <1>3, Reached
  <2> QED  BY <1>0, <2>1
<1>5. \E k \in DOMAIN g[n] : e = g[n][k]
  BY <1>1 DEF ToSet
<1> QED  BY <1>4, <1>5

-----------------------------------------------------------------------------
(* What becomes of a document.                                             *)

Document == [folders : Seq(Folder), loose : Seq(Placemark)]

\* The records there can be.
Imports == {ImportRecord(words, p) : words \in SUBSET STRING, p \in {q \in Placemark : Usable(q)}}

LEMMA ImportsMade ==
  ASSUME NEW r \in Imports
  PROVE  \E words \in SUBSET STRING, p \in Placemark : Usable(p) /\ r = ImportRecord(words, p)
BY DEF Imports

LEMMA ObservedSinceMap ==
  ASSUME NEW lines \in Seq(Seq(Int \cup {NotADate}))
  PROVE  ObservationDate(lines) \in Int /\ ObservationDate(lines) >= MapDate
<1> DEFINE dated == {i \in DOMAIN lines : /\ Len(lines) - i < 5
                                         /\ lines[i] # <<>>
                                         /\ Last(lines[i]) # NotADate}
           date == Last(lines[Max(dated)])
<1>1. Len(lines) \in Nat /\ DOMAIN lines = 1 .. Len(lines)
  OBVIOUS
<1>2. MapDate \in Int
  BY ImporterAssumption
<1>3. ASSUME dated # {} PROVE date \in Int
  <2>1. dated \in SUBSET (1 .. Len(lines))
    BY <1>1
  <2> DEFINE at == [i \in 1 .. Len(lines) |-> i]
  <2>2. \A i \in dated : at[i] \in Int /\ at[i] = i
    BY <1>1, <2>1
  <2> HIDE DEF dated, at
  <2>3. PICK i \in dated : \A j \in dated : at[j] <= at[i]
    BY <1>1, <1>3, <2>1, <2>2, NewestExists
  <2>4. \A j \in dated : i >= j
    BY <2>1, <2>2, <2>3
  <2>5. Max(dated) \in dated
    BY <2>3, <2>4, Zenon DEF Max
  <2>6. PICK m \in DOMAIN lines : m = Max(dated) /\ lines[m] # <<>> /\ Last(lines[m]) # NotADate
    BY <2>5 DEF dated
  <2>7. lines[m] \in Seq(Int \cup {NotADate}) /\ lines[m] # <<>>
    BY <2>6
  <2>8. Last(lines[m]) \in Int \cup {NotADate}
    BY <2>7 DEF Last
  <2> QED  BY <2>6, <2>8
<1>4. ObservationDate(lines) = IF dated # {} /\ date > MapDate THEN date ELSE MapDate
  BY DEF ObservationDate
<1> HIDE DEF dated, date
<1> QED  BY <1>2, <1>3, <1>4

\* What a record keeps of its placemark.
LEMMA RecordKeeps ==
  ASSUME NEW words \in SUBSET STRING, NEW p \in Placemark, Usable(p)
  PROVE  LET r == ImportRecord(words, p)
         IN  /\ r.lat \in Int /\ r.lon \in Int /\ ValidLatLon(r) /\ r.when >= MapDate
             /\ p.coordinates = <<r.lon, r.lat>> /\ r.externalID[1] = p.name
             /\ r.exists => Classify(words) = "exists"
<1> DEFINE at == ParseLonLat(p.coordinates)
           when == ObservationDate(p.lines)
           r == ImportRecord(words, p)
<1>1. p.coordinates \in Int \X Int /\ ValidLatLon(at)
  BY DEF Usable, Placemark
<1>2. at.lat = p.coordinates[2] /\ at.lon = p.coordinates[1]
  BY DEF ParseLonLat
<1>3. when >= MapDate
  BY ObservedSinceMap DEF Placemark
<1> HIDE DEF when
<1>4. /\ r.lat = at.lat /\ r.lon = at.lon /\ r.when = when
      /\ r.exists = (Classify(words) = "exists")
      /\ r.externalID = NaturalID(p.name, at)
  BY DEF ImportRecord, when
<1>5. r.externalID[1] = p.name
  BY <1>4 DEF NaturalID
<1>6. p.coordinates = <<r.lon, r.lat>> /\ r.lat \in Int /\ r.lon \in Int
  <2>1. p.coordinates = <<p.coordinates[1], p.coordinates[2]>>
    BY <1>1
  <2> HIDE DEF r, at
  <2> QED  BY <1>1, <1>2, <1>4, <2>1
<1>7. ValidLatLon(r) /\ r.when >= MapDate
  BY <1>1, <1>3, <1>4 DEF ValidLatLon
<1>8. r.exists => Classify(words) = "exists"
  BY <1>4, Zenon
<1> QED  BY <1>5, <1>6, <1>7, <1>8

\* main.go:159-191: a folder yields a record for each of its usable placemarks
\* when it is retained, and counts the others.
LEMMA FolderAccounted ==
  ASSUME NEW f \in Folder
  PROVE  /\ RecordsOf(f) \in Seq(Imports) /\ Len(RecordsOf(f)) \in Nat
         /\ BadCoordsIn(f) \in Int /\ Len(f.placemarks) \in Nat
         /\ Len(RecordsOf(f)) + (IF Retained(f) THEN 0 ELSE Len(f.placemarks)) + BadCoordsIn(f)
              = Len(f.placemarks)
         /\ \A r \in ToSet(RecordsOf(f)) :
              /\ Retained(f)
              /\ \E p \in ToSet(f.placemarks) : Usable(p) /\ r = ImportRecord(f.words, p)
<1> PICK ps \in Seq(Placemark) : ps = f.placemarks
  BY DEF Folder
<1>1. Len(ps) \in Nat /\ DOMAIN ps = 1 .. Len(ps) /\ f.words \in SUBSET STRING
  BY DEF Folder
<1>2. CASE ~Retained(f)
  <2>1. RecordsOf(f) = <<>> /\ BadCoordsIn(f) = 0
    BY <1>2 DEF RecordsOf, BadCoordsIn
  <2> QED  BY <1>1, <1>2, <2>1 DEF ToSet
<1>3. CASE Retained(f)
  <2> DEFINE rec(k) == ImportRecord(f.words, ps[k])
             parts == [k \in DOMAIN ps |-> IF Usable(ps[k]) THEN <<rec(k)>> ELSE <<>>]
             good == [k \in DOMAIN ps |-> IF Usable(ps[k]) THEN 1 ELSE 0]
             bad == [k \in DOMAIN ps |-> IF Usable(ps[k]) THEN 0 ELSE 1]
             ones == [k \in DOMAIN ps |-> 1]
  <2>1. RecordsOf(f) = FlattenSeq(parts) /\ BadCoordsIn(f) = Total(bad)
    BY <1>3 DEF RecordsOf, BadCoordsIn
  <2>2. \A k \in DOMAIN ps : ps[k] \in Placemark /\ (Usable(ps[k]) => rec(k) \in Imports)
    BY <1>1 DEF Imports
  <2> HIDE DEF rec
  <2>3. /\ parts \in Seq(Seq(Imports)) /\ Len(parts) = Len(ps)
        /\ \A k \in 1 .. Len(ps) : good[k] = Len(parts[k])
    BY <1>1, <2>2
  <2>4. /\ good \in Seq(Int) /\ bad \in Seq(Int) /\ ones \in Seq(Int)
        /\ Len(good) = Len(ps) /\ Len(bad) = Len(ps) /\ Len(ones) = Len(ps)
        /\ \A k \in 1 .. Len(ps) : ones[k] = good[k] + bad[k] /\ ones[k] = 1
    BY <1>1
  <2>5. ASSUME NEW r \in ToSet(FlattenSeq(parts))
        PROVE  \E p \in ToSet(ps) : Usable(p) /\ r = ImportRecord(f.words, p)
    <3> HIDE DEF parts
    <3>1. PICK k \in DOMAIN parts : r \in ToSet(parts[k])
      BY <2>3, FlattenElement
    <3>2. k \in DOMAIN ps /\ parts[k] = (IF Usable(ps[k]) THEN <<rec(k)>> ELSE <<>>)
      BY <3>1 DEF parts
    <3>3. Usable(ps[k]) /\ r = rec(k)
      BY <3>1, <3>2 DEF ToSet
    <3> QED  BY <3>2, <3>3 DEF ToSet, rec
  <2> HIDE DEF parts, good, bad, ones
  <2>6. FlattenSeq(parts) \in Seq(Imports) /\ Len(FlattenSeq(parts)) = Total(good)
    BY <2>3, <2>4, FlattenLength
  <2>7. Total(good) \in Int /\ Total(bad) \in Int /\ Total(ones) = Total(good) + Total(bad)
    BY <2>4, TotalsAdd
  <2>8. Total(ones) = Len(ps)
    BY <2>4, TotalOfOnes
  <2>9. Len(RecordsOf(f)) \in Nat
    BY <2>1, <2>6
  <2> QED  BY <1>1, <1>3, <2>1, <2>5, <2>6, <2>7, <2>8, <2>9
<1> QED  BY <1>2, <1>3

LEMMA CountsAreSequence ==
  ASSUME NEW n \in Nat, NEW s \in [1 .. n -> Int] PROVE s \in Seq(Int) /\ Len(s) = n
OBVIOUS

LEMMA DocumentAccounted ==
  ASSUME NEW d \in Document
  PROVE  /\ BuildRecords(d) \in Seq(Imports)
         /\ Len(BuildRecords(d)) + Discarded(d) + BadCoords(d) = Len(AllPlacemarks(d))
         /\ \A r \in ToSet(BuildRecords(d)) :
              \E i \in DOMAIN d.folders : r \in ToSet(RecordsOf(d.folders[i]))
<1> PICK fs \in Seq(Folder), loose \in Seq(Placemark) : fs = d.folders /\ loose = d.loose
  BY DEF Document
<1>1. /\ Len(fs) \in Nat /\ DOMAIN fs = 1 .. Len(fs) /\ Len(loose) \in Nat
      /\ \A i \in DOMAIN fs : fs[i] \in Folder
  OBVIOUS
<1> DEFINE records == [i \in DOMAIN fs |-> RecordsOf(fs[i])]
           marks == [i \in DOMAIN fs |-> fs[i].placemarks]
           made == [i \in DOMAIN fs |-> Len(RecordsOf(fs[i]))]
           left == [i \in DOMAIN fs |-> IF Retained(fs[i]) THEN 0 ELSE Len(fs[i].placemarks)]
           bad == [i \in DOMAIN fs |-> BadCoordsIn(fs[i])]
           some == [i \in DOMAIN fs |-> made[i] + left[i]]
           all == [i \in DOMAIN fs |-> Len(fs[i].placemarks)]
<1>2. \A i \in DOMAIN fs : fs[i].placemarks \in Seq(Placemark)
  BY <1>1 DEF Folder
<1>3. /\ BuildRecords(d) = FlattenSeq(records) /\ BadCoords(d) = Total(bad)
      /\ Discarded(d) = Len(loose) + Total(left)
      /\ AllPlacemarks(d) = FlattenSeq(marks) \o loose
  BY DEF BuildRecords, BadCoords, Discarded, AllPlacemarks
<1>4. /\ records \in Seq(Seq(Imports)) /\ Len(records) = Len(fs) /\ DOMAIN records = DOMAIN fs
      /\ \A i \in DOMAIN fs : records[i] = RecordsOf(fs[i])
      /\ marks \in Seq(Seq(Placemark)) /\ Len(marks) = Len(fs)
  BY <1>1, <1>2, FolderAccounted
<1>5. \A i \in 1 .. Len(fs) :
        /\ made[i] \in Int /\ left[i] \in Int /\ bad[i] \in Int /\ all[i] \in Int
        /\ some[i] = made[i] + left[i] /\ all[i] = some[i] + bad[i]
        /\ made[i] = Len(records[i]) /\ all[i] = Len(marks[i])
  <2> TAKE i \in 1 .. Len(fs)
  <2>1. fs[i] \in Folder /\ i \in DOMAIN fs
    BY <1>1
  <2>2. /\ Len(RecordsOf(fs[i])) \in Nat /\ BadCoordsIn(fs[i]) \in Int
        /\ Len(fs[i].placemarks) \in Nat
        /\ Len(RecordsOf(fs[i])) + left[i] + BadCoordsIn(fs[i]) = Len(fs[i].placemarks)
    BY <2>1, FolderAccounted
  <2>3. /\ made[i] = Len(RecordsOf(fs[i])) /\ bad[i] = BadCoordsIn(fs[i])
        /\ all[i] = Len(fs[i].placemarks) /\ left[i] \in Int
        /\ records[i] = RecordsOf(fs[i]) /\ marks[i] = fs[i].placemarks
    BY <2>1, <2>2
  <2>4. some[i] = made[i] + left[i]
    BY <2>1
  <2> HIDE DEF records, marks, made, left, bad, some, all
  <2> QED  BY <2>2, <2>3, <2>4
<1>13. /\ made \in [1 .. Len(fs) -> Int] /\ left \in [1 .. Len(fs) -> Int]
      /\ bad \in [1 .. Len(fs) -> Int] /\ some \in [1 .. Len(fs) -> Int]
      /\ all \in [1 .. Len(fs) -> Int]
  <2>1. /\ made = [i \in 1 .. Len(fs) |-> made[i]] /\ left = [i \in 1 .. Len(fs) |-> left[i]]
        /\ bad = [i \in 1 .. Len(fs) |-> bad[i]] /\ some = [i \in 1 .. Len(fs) |-> some[i]]
        /\ all = [i \in 1 .. Len(fs) |-> all[i]]
    BY <1>1
  <2>2. \A i \in 1 .. Len(fs) : some[i] \in Int
    BY <1>5
  <2> HIDE DEF records, marks, made, left, bad, some, all
  <2> QED  BY <1>5, <2>1, <2>2
<1> HIDE DEF records, marks, made, left, bad, some, all
<1>6. /\ made \in Seq(Int) /\ left \in Seq(Int) /\ bad \in Seq(Int)
      /\ some \in Seq(Int) /\ all \in Seq(Int)
      /\ Len(made) = Len(fs) /\ Len(left) = Len(fs) /\ Len(bad) = Len(fs)
      /\ Len(some) = Len(fs) /\ Len(all) = Len(fs)
  BY <1>1, <1>13, CountsAreSequence
<1>7. /\ Total(made) \in Int /\ Total(left) \in Int /\ Total(bad) \in Int
      /\ Total(some) = Total(made) + Total(left) /\ Total(all) = Total(some) + Total(bad)
  BY <1>5, <1>6, TotalsAdd
<1>8. /\ FlattenSeq(records) \in Seq(Imports) /\ Len(FlattenSeq(records)) = Total(made)
      /\ FlattenSeq(marks) \in Seq(Placemark) /\ Len(FlattenSeq(marks)) = Total(all)
  <2>1. /\ Len(made) = Len(records) /\ Len(all) = Len(marks)
        /\ \A i \in 1 .. Len(records) : made[i] = Len(records[i])
        /\ \A i \in 1 .. Len(marks) : all[i] = Len(marks[i])
    BY <1>4, <1>5, <1>6
  <2>2. FlattenSeq(records) \in Seq(Imports) /\ Len(FlattenSeq(records)) = Total(made)
    BY <1>4, <1>6, <2>1, FlattenLength
  <2>3. FlattenSeq(marks) \in Seq(Placemark) /\ Len(FlattenSeq(marks)) = Total(all)
    BY <1>4, <1>6, <2>1, FlattenLength
  <2> QED  BY <2>2, <2>3
<1>9. Len(AllPlacemarks(d)) = Total(all) + Len(loose)
  <2> PICK ms \in Seq(Placemark) : ms = FlattenSeq(marks)
    BY <1>8
  <2>1. Len(ms \o loose) = Len(ms) + Len(loose)
    BY Concatenated
  <2> QED  BY <1>3, <1>8, <2>1
<1>10. ASSUME NEW r \in ToSet(BuildRecords(d))
       PROVE  \E i \in DOMAIN d.folders : r \in ToSet(RecordsOf(d.folders[i]))
  BY <1>3, <1>4, FlattenElement
<1> QED  BY <1>1, <1>3, <1>7, <1>8, <1>9, <1>10

-----------------------------------------------------------------------------
(* Runs.                                                                   *)

\* What a run works on is what its document yields.
ImportInv ==
  /\ TypeOK /\ NoStrayLocations
  /\ doc \in Document
  /\ recs \in {<<>>, BuildRecords(doc)}
  /\ pc \in {"loaded", "resolved", "located"} => recs = BuildRecords(doc) /\ recs # <<>>

\* Records are as TypeOK says.
LEMMA RecordsTyped ==
  ASSUME NEW d \in Document, NEW rs \in {<<>>, BuildRecords(d)}
  PROVE  \A i \in DOMAIN rs : /\ rs[i].when >= MapDate /\ ValidLatLon(rs[i])
                              /\ rs[i].lat \in Int /\ rs[i].lon \in Int
<1> TAKE i \in DOMAIN rs
<1>1. rs \in Seq(Imports)
  BY DocumentAccounted
<1>2. rs[i] \in Imports
  BY <1>1
<1>3. PICK words \in SUBSET STRING, p \in Placemark :
        Usable(p) /\ rs[i] = ImportRecord(words, p)
  BY <1>2, ImportsMade
<1> QED  BY <1>3, RecordKeeps

LEMMA LoadKeeps == ASSUME ImportInv, Load PROVE ImportInv'
<1>1. /\ doc' = doc /\ recs' = BuildRecords(doc') /\ pc' \in {"fatal", "loaded"}
      /\ pc' = "loaded" => recs' # <<>>
  BY DEF Load
<1>2. \A i \in DOMAIN recs' : recs'[i].when >= MapDate /\ ValidLatLon(recs'[i])
  <2> PICK d, rs : d = doc /\ rs = recs'
    OBVIOUS
  <2>1. d \in Document /\ rs = BuildRecords(d)
    BY <1>1 DEF ImportInv
  <2> QED  BY <2>1, RecordsTyped
<1> QED  BY <1>1, <1>2 DEF Load, ImportInv, TypeOK, NoStrayLocations, ValidLatLon

LEMMA InsertLocationKeeps == ASSUME ImportInv, InsertLocation PROVE ImportInv'
<1>1. recs \in {<<>>, BuildRecords(doc)} /\ doc \in Document /\ recs # <<>>
  BY DEF ImportInv, InsertLocation
<1>2. recs[1].lat \in Int /\ recs[1].lon \in Int
  <2>1. recs \in Seq(Imports)
    BY <1>1, DocumentAccounted
  <2>2. 1 \in DOMAIN recs
    BY <1>1, <2>1
  <2> QED  BY <1>1, <2>2, RecordsTyped
<1>3. tx' \in Seq(Location)
  <2>1. [lat |-> recs[1].lat, lon |-> recs[1].lon, by |-> "importer"] \in Location
    BY <1>2 DEF Location
  <2> QED  BY <2>1 DEF InsertLocation
<1> QED
  BY <1>3 DEF InsertLocation, ImportInv, TypeOK, NoStrayLocations, Nobody

LEMMA ServerCommitsKeeps ==
  ASSUME ImportInv, NEW p \in ServerSpots, ServerCommits(p) PROVE ImportInv'
<1> PICK row : row = [lat |-> p.lat, lon |-> p.lon, by |-> "server"]
  OBVIOUS
<1>1. row \in Location /\ row.by = "server"
  BY ImporterAssumption DEF Location
<1>2. locations \in Seq(Location) /\ locations' = Append(locations, row)
  BY DEF ServerCommits, ImportInv, TypeOK
<1>3. locations' \in Seq(Location) /\ NoStrayLocations'
  BY <1>1, <1>2, Appended DEF ImportInv, NoStrayLocations
<1> QED  BY <1>3 DEF ServerCommits, ImportInv, TypeOK, Nobody

LEMMA StartKeeps == ASSUME ImportInv, NEW d \in Documents, Start(d) PROVE ImportInv'
<1>1. doc' \in Document /\ recs' = <<>> /\ pc' = "loading" /\ writer # "importer"
  BY ImporterAssumption DEF Start, ImportInv, TypeOK, Document
<1>2. runs' \in 0 .. MaxRuns /\ doc' \in Documents
  BY ImporterAssumption DEF Start, ImportInv, TypeOK
<1>3. DOMAIN recs' = {}
  BY <1>1
<1> QED  BY <1>1, <1>2, <1>3 DEF Start, ImportInv, TypeOK, NoStrayLocations

LEMMA RestKeeps ==
  ASSUME ImportInv,
         ResolveImporter \/ RefuseSighting \/ Fail \/ ServerBegins \/ UNCHANGED vars
  PROVE  ImportInv'
<1>1. CASE ResolveImporter
  BY <1>1 DEF ResolveImporter, ImportInv, TypeOK, NoStrayLocations, Nobody
<1>2. CASE RefuseSighting
  BY <1>2 DEF RefuseSighting, ImportInv, TypeOK, NoStrayLocations, Nobody
<1>3. CASE Fail
  BY <1>3 DEF Fail, ImportInv, TypeOK, NoStrayLocations, Nobody
<1>4. CASE ServerBegins
  BY <1>4 DEF ServerBegins, ImportInv, TypeOK, NoStrayLocations, Nobody
<1>5. CASE UNCHANGED vars
  BY <1>5 DEF vars, ImportInv, TypeOK, NoStrayLocations
<1> QED  BY <1>1, <1>2, <1>3, <1>4, <1>5

\* What the run works on, the types, the lock and the tables (ImportInv), for
\* any documents, reports of the server's users and number of runs.
THEOREM ImportInvariant == FairSpec => []ImportInv
<1>1. Init => ImportInv
  <2> SUFFICES ASSUME Init PROVE ImportInv
    OBVIOUS
  <2>1. /\ doc \in Document /\ DOMAIN recs = {} /\ recs = <<>> /\ DOMAIN locations = {}
        /\ locations \in Seq(Location) /\ tx \in Seq(Location) /\ 0 \in 0 .. MaxRuns
    BY ImporterAssumption DEF Init, Document
  <2> QED  BY <2>1 DEF Init, ImportInv, TypeOK, NoStrayLocations, Nobody
<1>2. ImportInv /\ [Next]_vars => ImportInv'
  <2> SUFFICES ASSUME ImportInv, [Next]_vars PROVE ImportInv'
    OBVIOUS
  <2> QED
    BY LoadKeeps, InsertLocationKeeps, ServerCommitsKeeps, StartKeeps, RestKeeps
    DEF Next, Run, Server
<1> QED  BY <1>1, <1>2, PTL DEF FairSpec

\* The types, the lock and the transaction (TypeOK).
THEOREM ImportsAreTyped == FairSpec => []TypeOK
<1>1. ImportInv => TypeOK
  BY DEF ImportInv
<1> QED  BY <1>1, ImportInvariant, PTL

\* import.go:81-83: for any documents, wherever runs stop and whatever the
\* server commits beside them, every location is a user's (NoStrayLocations).
THEOREM NoLocationLeftBehind == FairSpec => []NoStrayLocations
<1>1. ImportInv => NoStrayLocations
  BY DEF ImportInv
<1> QED  BY <1>1, ImportInvariant, PTL

\* main.go:153-202: for any documents, each placemark is a record, discarded, or
\* skipped for its coordinates, and counted as that once (EveryPlacemarkAccounted).
THEOREM PlacemarksAccounted == FairSpec => []EveryPlacemarkAccounted
<1>1. ImportInv => EveryPlacemarkAccounted
  BY DocumentAccounted DEF ImportInv, EveryPlacemarkAccounted
<1> QED  BY <1>1, ImportInvariant, PTL

\* main.go:7-11 and 204-218: for any documents and names of folders, a record
\* stems from a placemark of a folder none of whose words discards it, and one
\* that says a sign exists from a folder that does not say it is gone
\* (GoneStaysGone).
THEOREM GoneIsNotImported == FairSpec => []GoneStaysGone
<1>1. ASSUME ImportInv, NEW r \in ToSet(recs)
      PROVE  \E i \in DOMAIN doc.folders :
               /\ doc.folders[i].words \cap {"billboard", "questionable legality"} = {}
               /\ r.exists => doc.folders[i].words \cap {"plunder", "removed"} = {}
               /\ \E p \in ToSet(doc.folders[i].placemarks) :
                     p.coordinates = <<r.lon, r.lat>> /\ p.name = r.externalID[1]
  <2>1. recs # <<>> /\ recs = BuildRecords(doc) /\ doc \in Document
    BY <1>1 DEF ImportInv, ToSet
  <2>2. PICK i \in DOMAIN doc.folders : r \in ToSet(RecordsOf(doc.folders[i]))
    BY <2>1, DocumentAccounted
  <2> PICK f \in Folder : f = doc.folders[i]
    BY <2>1, <2>2 DEF Document
  <2>3. Retained(f) /\ f.words \in SUBSET STRING /\ f.placemarks \in Seq(Placemark)
    BY <2>2, FolderAccounted DEF Folder
  <2>4. PICK p \in ToSet(f.placemarks) : Usable(p) /\ r = ImportRecord(f.words, p)
    BY <2>2, FolderAccounted
  <2>5. p \in Placemark
    BY <2>3, <2>4 DEF ToSet
  <2>6. /\ p.coordinates = <<r.lon, r.lat>> /\ r.externalID[1] = p.name
        /\ r.exists => Classify(f.words) = "exists"
    BY <2>3, <2>4, <2>5, RecordKeeps
  <2>7. f.words \cap {"billboard", "questionable legality"} = {}
    BY <2>3 DEF Retained, Classify
  <2>8. Classify(f.words) = "exists" => f.words \cap {"plunder", "removed"} = {}
    BY DEF Classify
  <2> QED  BY <2>4, <2>6, <2>7, <2>8
<1>2. ImportInv => GoneStaysGone
  BY <1>1 DEF GoneStaysGone
<1> QED  BY <1>2, ImportInvariant, PTL
=============================================================================
