------------------------- MODULE DashDownloadProofs -------------------------
(***************************************************************************)
(* Proofs about DashDownload, for any manifest: that the scan of src/dash.c *)
(* picks the representation it should, that its iterators go through the   *)
(* segments in order, and that a download asks for and hands over exactly  *)
(* those.                                                                  *)
(***************************************************************************)
EXTENDS DashDownload, Integers, NaturalsInduction,
        WellFoundedInduction, SequenceTheorems, TLAPS

-----------------------------------------------------------------------------
(* Loops.                                                                  *)

(* The least number of a set, and induction for sets of numbers.           *)
LEMMA NatMin ==
  ASSUME NEW T, T \subseteq Nat, T # {}
  PROVE  \E m \in T : \A n \in T : m <= n
<1> DEFINE R == OpToRel(<, Nat)
<1>1. IsWellFoundedOn(R, Nat)
  BY NatLessThanWellFounded
<1>2. PICK m \in T : \A n \in T : ~(<<n, m>> \in R)
  <2> HIDE DEF R
  <2> QED
    BY <1>1, WFMin, Zenon
<1>3. \A n \in T : m <= n
  <2> TAKE n \in T
  <2>1. ~(n < m)
    BY <1>2 DEF OpToRel
  <2> QED
    BY <2>1
<1> QED
  BY <1>3

LEMMA NatInd ==
  ASSUME NEW S, 0 \in S, \A n \in Nat : n \in S => n + 1 \in S
  PROVE  \A n \in Nat : n \in S
<1> DEFINE T == {n \in Nat : n \notin S}
<1> SUFFICES ASSUME T # {} PROVE FALSE
  OBVIOUS
<1>1. PICK m \in T : \A n \in T : m <= n
  <2> HIDE DEF T
  <2>1. T \subseteq Nat
    BY DEF T
  <2> QED
    BY <2>1, NatMin
<1>2. m # 0 /\ m - 1 \in Nat /\ m - 1 \notin T
  BY <1>1
<1> QED
  BY <1>2

(* A function on 0..N whose value at n depends on n and on its value       *)
(* before.                                                                 *)
Recursion(S, b, N, F) ==
  {g \in [0..N -> S] : g[0] = b /\ \A n \in 1..N : g[n] = F[n][g[n - 1]]}

LEMMA Recursed ==
  ASSUME NEW S, NEW b \in S, NEW N \in Nat, NEW F \in [1..N -> [S -> S]]
  PROVE  Recursion(S, b, N, F) # {}
<1> DEFINE Upto(n) == {g \in [0..n -> S] :
                         g[0] = b /\ \A k \in 1..n : g[k] = F[k][g[k - 1]]}
           I == {n \in Nat : n <= N => Upto(n) # {}}
<1>1. 0 \in I
  <2>1. [k \in 0..0 |-> b] \in Upto(0)
    OBVIOUS
  <2> QED
    BY <2>1
<1>2. ASSUME NEW n \in Nat, n \in I PROVE n + 1 \in I
  <2>1. SUFFICES ASSUME n + 1 <= N PROVE Upto(n + 1) # {}
    OBVIOUS
  <2>2. PICK g \in [0..n -> S] : g[0] = b /\ \A k \in 1..n : g[k] = F[k][g[k - 1]]
    BY <1>2, <2>1
  <2> DEFINE h == [k \in 0..n + 1 |-> IF k <= n THEN g[k] ELSE F[n + 1][g[n]]]
  <2>3. n + 1 \in 1..N /\ F[n + 1] \in [S -> S] /\ g[n] \in S
    BY <2>1, <2>2
  <2>4. h \in [0..n + 1 -> S] /\ h[0] = b
    BY <2>2, <2>3
  <2>5. ASSUME NEW k \in 1..n + 1 PROVE h[k] = F[k][h[k - 1]]
    <3>1. CASE k = n + 1
      <4>1. h[k] = F[n + 1][g[n]] /\ h[k - 1] = g[n]
        BY <3>1
      <4> QED
        BY <3>1, <4>1
    <3>2. CASE k # n + 1
      <4>1. k \in 1..n /\ h[k] = g[k] /\ h[k - 1] = g[k - 1]
        BY <3>2
      <4> QED
        BY <2>2, <4>1
    <3> QED
      BY <3>1, <3>2
  <2>6. h \in Upto(n + 1)
    BY <2>4, <2>5
  <2> QED
    BY <2>6
<1>3. \A n \in Nat : n \in I
  <2> HIDE DEF I
  <2> QED
    BY <1>1, <1>2, NatInd
<1>4. Upto(N) # {}
  <2> HIDE DEF Upto
  <2>1. N \in I
    <3> HIDE DEF I
    <3> QED
      BY <1>3
  <2> QED
    BY <2>1
<1> QED
  BY <1>4 DEF Recursion

-----------------------------------------------------------------------------

(* What was picked from the representations at some positions.             *)
IsPick(r, m, positions) ==
  \/ r = NoRepresentation /\ \A p \in positions : At(m, p).bandwidth <= 0
  \/ \E p \in BestAmong(m, positions) : r = At(m, p)

(* How many segments there are in front of the list.                       *)
Ahead(m, c) == IF initial_segment(m, c) = Null THEN 0 ELSE 1

(* Before its manifest is loaded a stream has asked for nothing, and only  *)
(* the first context is there.                                             *)
Unloaded(c) ==
  /\ asked[c] = <<>> /\ got[c] = <<>> /\ completes[c] = 0
  /\ path[c] = Null /\ next[c] = 1
  /\ ~body[c] /\ ~waiting[c] /\ ~odd[c]

(* Where the iterator stands follows from what it has returned so far.     *)
IteratorInv(c) ==
  completes[c] = 0 =>
    /\ next[c] = IF Len(asked[c]) <= Ahead(mpd, c) THEN 1
                 ELSE Len(asked[c]) - Ahead(mpd, c) + 1
    /\ path[c] = Null <=> asked[c] = <<>>

(* At most the segment asked for last is outstanding, and while one is, or *)
(* the first one or the user's call is awaited, the stream is not complete.*)
RequestInv(c) ==
  /\ reqs[c] # <<>> => asked[c] # <<>> /\ reqs[c] = <<asked[c][Len(asked[c])]>>
  /\ body[c] => reqs[c] # <<>>
  /\ waiting[c] => reqs[c] = <<>>
  /\ net[c] = "connecting" => asked[c] = <<>> /\ reqs[c] = <<>> /\ ~waiting[c]
  /\ reqs[c] # <<>> \/ net[c] = "connecting" \/ waiting[c] => completes[c] = 0

(* What was handed over is what was asked for, but for what is outstanding.*)
HandedInv(c) ==
  ~odd[c] =>
    /\ IsPrefix(got[c], asked[c])
    /\ Len(asked[c]) = Len(got[c]) + IF reqs[c] # <<>> /\ ~body[c] THEN 1 ELSE 0

LoadedInv(c) ==
  /\ IsPrefix(asked[c], Whole(mpd, c))
  /\ next[c] <= Len(segment_list(mpd, c)) + 1
  /\ IteratorInv(c) /\ RequestInv(c) /\ HandedInv(c)
  /\ completes[c] <= 1
  /\ completes[c] = 1 /\ AllMedia(mpd, c) => Len(asked[c]) = Len(Whole(mpd, c))

StreamInv(c) ==
  /\ stage[c] = "manifest" => Unloaded(c)
  /\ stage[c] = "segments" => LoadedInv(c) /\ on_closed[c] # "manifest"

StageInv ==
  /\ stage["audio"] = stage["video"]
  /\ stage["video"] = "manifest" =>
       /\ net["video"] \in {"none", "crashed"} /\ on_closed["video"] = "none"
       /\ reqs["video"] = <<>> /\ shutdown["video"] = "no"

DashInv ==
  /\ TypeOK /\ next \in [Streams -> Nat] /\ StageInv
  /\ \A c \in Streams : StreamInv(c)

-----------------------------------------------------------------------------
(* The scan of the manifest.                                               *)

LEMMA ManifestFacts ==
  ASSUME NEW m \in Manifests
  PROVE  /\ Len(m) \in Nat /\ DOMAIN m = 1..Len(m)
         /\ \A i \in 1..Len(m) :
              /\ m[i].representations \in Seq(Representation)
              /\ Len(m[i].representations) \in Nat
              /\ DOMAIN m[i].representations = 1..Len(m[i].representations)
              /\ \A j \in 1..Len(m[i].representations) :
                   /\ m[i].representations[j] \in Representation
                   /\ At(m, <<i, j>>) = m[i].representations[j]
<1> DEFINE A == [type : Streams \cup {"text"}, representations : Seq(Representation)]
<1>1. m \in Seq(A)
  BY DashAssumption
<1> HIDE DEF A
<1>2. Len(m) \in Nat /\ DOMAIN m = 1..Len(m) /\ \A i \in 1..Len(m) : m[i] \in A
  BY <1>1, LenProperties, ElementOfSeq
<1>3. ASSUME NEW i \in 1..Len(m)
      PROVE  /\ m[i].representations \in Seq(Representation)
             /\ Len(m[i].representations) \in Nat
             /\ DOMAIN m[i].representations = 1..Len(m[i].representations)
             /\ \A j \in 1..Len(m[i].representations) :
                  /\ m[i].representations[j] \in Representation
                  /\ At(m, <<i, j>>) = m[i].representations[j]
  <2>1. m[i].representations \in Seq(Representation)
    BY <1>2 DEF A
  <2> QED
    BY <2>1, LenProperties, ElementOfSeq DEF At
<1> QED
  BY <1>2, <1>3

LEMMA OfferedFacts ==
  ASSUME NEW m \in Manifests, NEW c \in Streams
  PROVE  /\ Offered(m, c) =
              {p \in Nat \X Nat : /\ p[1] \in 1..Len(m) /\ m[p[1]].type = c
                                  /\ p[2] \in 1..Len(m[p[1]].representations)}
         /\ \A p \in Offered(m, c) : At(m, p) \in Representation
<1>1. \A p : p \in Offered(m, c) <=>
        \E i \in 1..Len(m) : \E j \in 1..Len(m[i].representations) :
          m[i].type = c /\ p = <<i, j>>
  BY ManifestFacts DEF Offered
<1>2. Len(m) \in Nat /\ \A i \in 1..Len(m) : Len(m[i].representations) \in Nat
  BY ManifestFacts
<1>3. Offered(m, c) =
        {p \in Nat \X Nat : /\ p[1] \in 1..Len(m) /\ m[p[1]].type = c
                            /\ p[2] \in 1..Len(m[p[1]].representations)}
  BY <1>1, <1>2
<1>4. ASSUME NEW p \in Offered(m, c) PROVE At(m, p) \in Representation
  BY <1>1, <1>4, ManifestFacts
<1> QED
  BY <1>3, <1>4

(* One representation more, behind the others.                             *)
LEMMA BetterIsPick ==
  ASSUME NEW m, NEW P, P \subseteq Nat \X Nat, NEW q \in Nat \X Nat,
         \A p \in P \cup {q} : At(m, p) \in Representation,
         \A p \in P : Earlier(p, q) /\ ~Earlier(q, p),
         NEW r, IsPick(r, m, P)
  PROVE  IsPick(Better(r, At(m, q)), m, P \cup {q})
<1>1. \A p \in P \cup {q} : At(m, p).bandwidth \in Int
  BY DEF Representation, Names, Null
<1>2. CASE r = NoRepresentation /\ \A p \in P : At(m, p).bandwidth <= 0
  <2>1. CASE At(m, q).bandwidth > 0
    <3>1. Better(r, At(m, q)) = At(m, q)
      BY <1>2, <2>1 DEF Better, NoRepresentation
    <3>2. q \in BestAmong(m, P \cup {q})
      BY <1>1, <1>2, <2>1 DEF BestAmong, Earlier
    <3> QED
      BY <3>1, <3>2 DEF IsPick
  <2>2. CASE ~(At(m, q).bandwidth > 0)
    <3>1. Better(r, At(m, q)) = NoRepresentation
      BY <1>2, <2>2 DEF Better, NoRepresentation
    <3> QED
      BY <1>1, <1>2, <2>2, <3>1 DEF IsPick
  <2> QED
    BY <2>1, <2>2
<1>3. ASSUME NEW p \in BestAmong(m, P), r = At(m, p)
      PROVE  IsPick(Better(r, At(m, q)), m, P \cup {q})
  <2>1. p \in P /\ At(m, p).bandwidth > 0
        /\ \A t \in P : /\ At(m, t).bandwidth <= At(m, p).bandwidth
                        /\ At(m, t).bandwidth = At(m, p).bandwidth => Earlier(p, t)
    BY DEF BestAmong
  <2>2. CASE At(m, q).bandwidth > At(m, p).bandwidth
    <3>1. Better(r, At(m, q)) = At(m, q)
      BY <1>3, <2>2 DEF Better
    <3>2. \A t \in P \cup {q} :
            /\ At(m, t).bandwidth <= At(m, q).bandwidth
            /\ At(m, t).bandwidth = At(m, q).bandwidth => Earlier(q, t)
      BY <1>1, <2>1, <2>2 DEF Earlier
    <3>3. q \in BestAmong(m, P \cup {q})
      BY <1>1, <2>1, <2>2, <3>2 DEF BestAmong
    <3> QED
      BY <3>1, <3>3 DEF IsPick
  <2>3. CASE ~(At(m, q).bandwidth > At(m, p).bandwidth)
    <3>1. Better(r, At(m, q)) = At(m, p)
      BY <1>3, <2>3 DEF Better
    <3>2. p \in BestAmong(m, P \cup {q})
      BY <1>1, <2>1, <2>3 DEF BestAmong
    <3> QED
      BY <3>1, <3>2 DEF IsPick
  <2> QED
    BY <2>2, <2>3
<1> QED
  BY <1>2, <1>3 DEF IsPick

(* The positions in the first n sets.                                      *)
Until(m, c, n) == {p \in Offered(m, c) : p[1] <= n}

LEMMA SetIsPicked ==
  ASSUME NEW m \in Manifests, NEW c \in Streams, NEW i \in 1..Len(m),
         NEW r \in Representation
  PROVE  /\ PickFrom(r, m[i], c) \in Representation
         /\ IsPick(r, m, Until(m, c, i - 1)) =>
              IsPick(PickFrom(r, m[i], c), m, Until(m, c, i))
<1> DEFINE H == IsPick(r, m, Until(m, c, i - 1))
<1>1. CASE m[i].type # c
  <2>1. Until(m, c, i) = Until(m, c, i - 1)
    BY <1>1, OfferedFacts, ManifestFacts DEF Until
  <2> QED
    BY <1>1, <2>1 DEF PickFrom
<1>2. CASE m[i].type = c
  <2> DEFINE reps == m[i].representations
             N == Len(reps)
             F == [n \in 1..N |-> [x \in Representation |-> Better(x, reps[n])]]
             after == CHOOSE g : g = [n \in 0..N |-> IF n = 0 THEN r
                                                     ELSE Better(g[n - 1], reps[n])]
  <2>1. N \in Nat /\ \A n \in 1..N : /\ reps[n] \in Representation
                                     /\ At(m, <<i, n>>) = reps[n]
    BY ManifestFacts
  <2>2. PickFrom(r, m[i], c) = after[N]
    BY <1>2 DEF PickFrom, ytdl__dash_representation_pick
  <2> HIDE DEF N, reps
  <2>3. F \in [1..N -> [Representation -> Representation]]
    BY <2>1 DEF Better
  <2>4. after = [n \in 0..N |-> IF n = 0 THEN r ELSE Better(after[n - 1], reps[n])]
    <3>1. PICK g : g \in Recursion(Representation, r, N, F)
      <4> HIDE DEF F
      <4> QED
        BY <2>1, <2>3, Recursed
    <3>2. g \in [0..N -> Representation] /\ g[0] = r
          /\ \A n \in 1..N : g[n] = F[n][g[n - 1]]
      <4> HIDE DEF F
      <4> QED
        BY <3>1 DEF Recursion
    <3>3. ASSUME NEW n \in 0..N
          PROVE  g[n] = IF n = 0 THEN r ELSE Better(g[n - 1], reps[n])
      <4>1. CASE n = 0
        BY <3>2, <4>1
      <4>2. CASE n # 0
        <5>1. n \in 1..N /\ n - 1 \in 0..N
          BY <2>1, <4>2
        <5>2. g[n] = F[n][g[n - 1]] /\ g[n - 1] \in Representation
          <6> HIDE DEF F
          <6> QED
            BY <3>2, <5>1
        <5> QED
          BY <4>2, <5>1, <5>2
      <4> QED
        BY <4>1, <4>2
    <3>4. g = [n \in 0..N |-> IF n = 0 THEN r ELSE Better(g[n - 1], reps[n])]
      <4> HIDE DEF F
      <4> QED
        BY <3>2, <3>3
    <3> QED
      BY <3>4
  <2> HIDE DEF after, F
  <2>5. after[0] = r /\ \A n \in 1..N : after[n] = Better(after[n - 1], reps[n])
    BY <2>1, <2>4
  <2> DEFINE P(n) == Until(m, c, i - 1) \cup {<<i, j>> : j \in 1..n}
             I == {n \in Nat : n <= N => /\ after[n] \in Representation
                                         /\ H => IsPick(after[n], m, P(n))}
  <2>6. 0 \in I
    <3>1. P(0) = Until(m, c, i - 1)
      OBVIOUS
    <3> HIDE DEF P
    <3> QED
      BY <2>5, <3>1
  <2>7. ASSUME NEW n \in Nat, n \in I PROVE n + 1 \in I
    <3>1. SUFFICES ASSUME n + 1 <= N
                   PROVE  /\ after[n + 1] \in Representation
                          /\ H => IsPick(after[n + 1], m, P(n + 1))
      OBVIOUS
    <3> DEFINE q == <<i, n + 1>>
    <3>2. /\ n + 1 \in 1..N /\ n + 1 - 1 = n
          /\ q \in Nat \X Nat /\ At(m, q) = reps[n + 1] /\ At(m, q) \in Representation
      BY <2>1, <3>1
    <3>3. P(n + 1) = P(n) \cup {q}
      OBVIOUS
    <3>4. /\ P(n) \subseteq Nat \X Nat
          /\ \A p \in P(n) \cup {q} : At(m, p) \in Representation
      BY <2>1, <3>1, <3>2, OfferedFacts DEF Until
    <3>5. \A p \in P(n) : Earlier(p, q) /\ ~Earlier(q, p)
      BY <3>4, OfferedFacts DEF Until, Earlier
    <3>6. after[n] \in Representation /\ (H => IsPick(after[n], m, P(n)))
      <4> HIDE DEF P
      <4>1. n <= N
        BY <2>1, <3>1
      <4> QED
        BY <2>7, <4>1
    <3> HIDE DEF P, q
    <3>7. H => IsPick(Better(after[n], At(m, q)), m, P(n) \cup {q})
      BY <3>2, <3>4, <3>5, <3>6, BetterIsPick
    <3>8. after[n + 1] = Better(after[n], At(m, q))
      BY <2>5, <3>2
    <3> QED
      BY <3>2, <3>3, <3>6, <3>7, <3>8 DEF Better
  <2>8. \A n \in Nat : n \in I
    <3> HIDE DEF I
    <3> QED
      BY <2>6, <2>7, NatInd
  <2>9. after[N] \in Representation /\ (H => IsPick(after[N], m, P(N)))
    <3> HIDE DEF P
    <3>1. N \in I
      <4> HIDE DEF I
      <4> QED
        BY <2>1, <2>8
    <3> QED
      BY <2>1, <3>1
  <2>10. P(N) = Until(m, c, i)
    BY <1>2, <2>1, OfferedFacts, ManifestFacts DEF Until, N, reps
  <2> HIDE DEF P
  <2> QED
    BY <2>2, <2>9, <2>10
<1> QED
  BY <1>1, <1>2

(* What the scan ends with is the representation the stream should have.   *)
LEMMA PickedIsBest ==
  ASSUME NEW m \in Manifests, NEW c \in Streams
  PROVE  Picked(m, c) \in Representation /\ Picked(m, c) = Best(m, c)
<1> DEFINE N == Len(m)
           F == [i \in 1..N |-> [x \in Representation |-> PickFrom(x, m[i], c)]]
           after == CHOOSE g : g = [i \in 0..N |-> IF i = 0 THEN NoRepresentation
                                                   ELSE PickFrom(g[i - 1], m[i], c)]
<1>1. N \in Nat
  BY ManifestFacts
<1>2. Picked(m, c) = after[N]
  BY DEF Picked
<1>3. F \in [1..N -> [Representation -> Representation]]
  BY SetIsPicked
<1>4. NoRepresentation \in Representation
  <2>1. <<>> \in Seq(Names)
    BY EmptySeq
  <2> QED
    BY <2>1 DEF NoRepresentation, Representation, Names
<1> HIDE DEF N
<1>5. after = [i \in 0..N |-> IF i = 0 THEN NoRepresentation
                              ELSE PickFrom(after[i - 1], m[i], c)]
  <2>1. PICK g : g \in Recursion(Representation, NoRepresentation, N, F)
    <3> HIDE DEF F
    <3> QED
      BY <1>1, <1>3, <1>4, Recursed
  <2>2. g \in [0..N -> Representation] /\ g[0] = NoRepresentation
        /\ \A i \in 1..N : g[i] = F[i][g[i - 1]]
    <3> HIDE DEF F
    <3> QED
      BY <2>1 DEF Recursion
  <2>3. ASSUME NEW i \in 0..N
        PROVE  g[i] = IF i = 0 THEN NoRepresentation ELSE PickFrom(g[i - 1], m[i], c)
    <3>1. CASE i = 0
      BY <2>2, <3>1
    <3>2. CASE i # 0
      <4>1. i \in 1..N /\ i - 1 \in 0..N
        BY <1>1, <3>2
      <4>2. g[i] = F[i][g[i - 1]] /\ g[i - 1] \in Representation
        <5> HIDE DEF F
        <5> QED
          BY <2>2, <4>1
      <4> QED
        BY <3>2, <4>1, <4>2
    <3> QED
      BY <3>1, <3>2
  <2>4. g = [i \in 0..N |-> IF i = 0 THEN NoRepresentation
                            ELSE PickFrom(g[i - 1], m[i], c)]
    <3> HIDE DEF F
    <3> QED
      BY <2>2, <2>3
  <2> QED
    BY <2>4
<1> HIDE DEF after, F
<1>6. after[0] = NoRepresentation
      /\ \A i \in 1..N : after[i] = PickFrom(after[i - 1], m[i], c)
  BY <1>1, <1>5
<1> DEFINE I == {i \in Nat : i <= N => /\ after[i] \in Representation
                                       /\ IsPick(after[i], m, Until(m, c, i))}
<1>7. 0 \in I
  <2>1. Until(m, c, 0) = {}
    BY OfferedFacts DEF Until
  <2> QED
    BY <1>4, <1>6, <2>1 DEF IsPick
<1>8. ASSUME NEW i \in Nat, i \in I PROVE i + 1 \in I
  <2>1. SUFFICES ASSUME i + 1 <= N
                 PROVE  /\ after[i + 1] \in Representation
                        /\ IsPick(after[i + 1], m, Until(m, c, i + 1))
    OBVIOUS
  <2>2. i + 1 \in 1..Len(m) /\ i + 1 - 1 = i /\ i <= N /\ i + 1 \in 1..N
    BY <1>1, <2>1 DEF N
  <2>3. after[i] \in Representation /\ IsPick(after[i], m, Until(m, c, i))
    BY <1>8, <2>2
  <2>4. after[i + 1] = PickFrom(after[i], m[i + 1], c)
    BY <1>6, <2>2
  <2> DEFINE k == i + 1
             x == after[i]
  <2>5. k \in 1..Len(m) /\ x \in Representation /\ IsPick(x, m, Until(m, c, k - 1))
    BY <2>2, <2>3
  <2> HIDE DEF k, x
  <2>6. PickFrom(x, m[k], c) \in Representation
        /\ IsPick(PickFrom(x, m[k], c), m, Until(m, c, k))
    BY <2>5, SetIsPicked
  <2> QED
    BY <2>4, <2>6 DEF k, x
<1>9. after[N] \in Representation /\ IsPick(after[N], m, Until(m, c, N))
  <2>1. N \in I
    <3> HIDE DEF I
    <3> QED
      BY <1>1, <1>7, <1>8, NatInd
  <2> QED
    BY <1>1, <2>1
<1>10. Until(m, c, N) = Offered(m, c)
  BY <1>1, OfferedFacts DEF Until, N
<1>11. IsPick(Picked(m, c), m, Offered(m, c))
  BY <1>2, <1>9, <1>10
<1> DEFINE best == BestAmong(m, Offered(m, c))
<1>12. \A p, q \in best : p = q
  <2> TAKE p, q \in best
  <2>1. /\ p \in Offered(m, c) /\ q \in Offered(m, c)
        /\ At(m, p).bandwidth \in Int /\ At(m, q).bandwidth \in Int
    BY OfferedFacts DEF BestAmong, Representation, Names, Null
  <2>2. At(m, p).bandwidth = At(m, q).bandwidth
    BY <2>1 DEF BestAmong
  <2>3. Earlier(p, q) /\ Earlier(q, p) /\ p \in Nat \X Nat /\ q \in Nat \X Nat
    BY <2>1, <2>2, OfferedFacts DEF BestAmong
  <2>4. p[1] = q[1] /\ p[2] = q[2]
    BY <2>3 DEF Earlier
  <2> QED
    BY <2>3, <2>4
<1>13. Best(m, c) = IF best = {} THEN NoRepresentation ELSE At(m, CHOOSE p \in best : TRUE)
  BY DEF Best
<1>14. CASE best = {}
  <2>1. Picked(m, c) = NoRepresentation \/ \E p \in best : Picked(m, c) = At(m, p)
    BY <1>11 DEF IsPick
  <2> HIDE DEF best
  <2> QED
    BY <1>2, <1>9, <1>13, <1>14, <2>1
<1>15. CASE best # {}
  <2>1. PICK p \in best : TRUE
    BY <1>15
  <2>2. Picked(m, c) = At(m, p)
    <3>1. ~(\A q \in Offered(m, c) : At(m, q).bandwidth <= 0)
      <4>1. p \in Offered(m, c) /\ At(m, p).bandwidth > 0 /\ At(m, p).bandwidth \in Int
        BY OfferedFacts DEF BestAmong, Representation, Names, Null
      <4> QED
        BY <4>1
    <3>2. PICK q \in best : Picked(m, c) = At(m, q)
      BY <1>11, <3>1 DEF IsPick
    <3> QED
      BY <1>12, <3>2
  <2> HIDE DEF best
  <2>3. (CHOOSE q \in best : TRUE) = p
    BY <1>12, <2>1
  <2> QED
    BY <1>2, <1>9, <1>13, <1>15, <2>2, <2>3
<1> QED
  BY <1>2, <1>9, <1>14, <1>15

-----------------------------------------------------------------------------
(* The iterators.                                                          *)

(* The segments of a stream, as the iterator finds them.                   *)
LEMMA WholeFacts ==
  ASSUME NEW m \in Manifests, NEW c \in Streams
  PROVE  /\ segment_list(m, c) \in Seq(Names) /\ Whole(m, c) \in Seq(Names)
         /\ Len(segment_list(m, c)) \in Nat
         /\ Len(Whole(m, c)) = Len(segment_list(m, c)) + Ahead(m, c)
         /\ Ahead(m, c) = 1 => Whole(m, c)[1] = initial_segment(m, c)
         /\ \A k \in 1..Len(segment_list(m, c)) :
              Whole(m, c)[k + Ahead(m, c)] = segment_list(m, c)[k]
<1> DEFINE L == segment_list(m, c)
           x == initial_segment(m, c)
<1>1. /\ \A d \in Streams : Picked(m, d) = Best(m, d)
      /\ Best(m, c).initial \in Names /\ Best(m, c).list \in Seq(Names)
  BY PickedIsBest DEF Representation
<1>2. <<>> \in Seq(Names) /\ Len(<<>>) = 0
  BY EmptySeq
<1>3. L \in Seq(Names) /\ x \in Names /\ Len(L) \in Nat
  <2>1. L \in Seq(Names) /\ x \in Names
    BY <1>1, <1>2 DEF segment_list, initial_segment, Names
  <2> QED
    BY <2>1, LenProperties
<1>4. Whole(m, c) = (IF x = Null THEN <<>> ELSE <<x>>) \o L
  <2>1. CASE ytdl_dash_get_format(m)
    <3>1. x = Best(m, c).initial /\ L = Best(m, c).list
      BY <1>1, <2>1 DEF initial_segment, segment_list
    <3>2. ~(Unlocated(m) \/ \E d \in Streams : ~Best(m, d).segmented)
      BY <1>1, <2>1 DEF ytdl_dash_get_format, Located, Unlocated
    <3> QED
      BY <3>1, <3>2 DEF Whole
  <2>2. CASE ~ytdl_dash_get_format(m)
    <3>1. x = Null /\ L = <<>>
      BY <2>2 DEF initial_segment, segment_list
    <3>2. Unlocated(m) \/ \E d \in Streams : ~Best(m, d).segmented
      BY <1>1, <2>2 DEF ytdl_dash_get_format, Located, Unlocated
    <3>3. Whole(m, c) = <<>>
      BY <3>2 DEF Whole
    <3> QED
      BY <1>2, <3>1, <3>3, ConcatEmptySeq
  <2> QED
    BY <2>1, <2>2
<1> HIDE DEF L, x
<1>5. CASE x = Null
  <2>1. Whole(m, c) = L /\ Ahead(m, c) = 0
    BY <1>3, <1>4, <1>5, ConcatEmptySeq DEF Ahead, x
  <2> QED
    BY <1>3, <2>1 DEF L
<1>6. CASE x # Null
  <2>1. Whole(m, c) = <<x>> \o L /\ Ahead(m, c) = 1
    BY <1>4, <1>6 DEF Ahead, x
  <2>2. <<x>> \in Seq(Names) /\ Len(<<x>>) = 1 /\ <<x>>[1] = x
    BY <1>3
  <2> QED
    BY <1>3, <2>1, <2>2, ConcatProperties DEF L, x
<1> QED
  BY <1>5, <1>6

LEMMA PrefixOfItself ==
  ASSUME NEW S, NEW s \in Seq(S)
  PROVE  IsPrefix(s, s)
<1> QED
  BY LenProperties DEF IsPrefix

(* The next element of a sequence is appended to what is a prefix of it.   *)
LEMMA PrefixGrows ==
  ASSUME NEW S, NEW s \in Seq(S), NEW t \in Seq(S), IsPrefix(s, t), Len(s) < Len(t)
  PROVE  IsPrefix(Append(s, t[Len(s) + 1]), t)
<1> DEFINE n == Len(s)
<1>1. n \in Nat /\ Len(t) \in Nat /\ n + 1 \in 1..Len(t) /\ t[n + 1] \in S
  BY LenProperties, ElementOfSeq
<1>2. \A i \in 1..n : s[i] = t[i]
  BY <1>1 DEF IsPrefix
<1> DEFINE u == Append(s, t[n + 1])
<1>3. u \in Seq(S) /\ Len(u) = n + 1 /\ \A i \in 1..n + 1 : u[i] = t[i]
  BY <1>1, <1>2, AppendProperties
<1> HIDE DEF u
<1> QED
  BY <1>1, <1>3 DEF IsPrefix, u

LEMMA PrefixStays ==
  ASSUME NEW S, NEW s \in Seq(S), NEW t \in Seq(S), NEW x \in S, IsPrefix(s, t)
  PROVE  IsPrefix(s, Append(t, x))
<1>1. Len(s) \in Nat /\ Len(t) \in Nat /\ Len(s) <= Len(t)
  BY LenProperties DEF IsPrefix
<1>2. \A i \in 1..Len(s) : s[i] = t[i]
  BY <1>1 DEF IsPrefix
<1> DEFINE u == Append(t, x)
<1>3. u \in Seq(S) /\ Len(u) = Len(t) + 1 /\ \A i \in 1..Len(t) : u[i] = t[i]
  BY <1>1, AppendProperties
<1>4. \A i \in 1..Len(s) : s[i] = u[i]
  BY <1>1, <1>2, <1>3
<1> HIDE DEF u
<1> QED
  BY <1>1, <1>3, <1>4 DEF IsPrefix, u

LEMMA PrefixIsAll ==
  ASSUME NEW S, NEW s \in Seq(S), NEW t \in Seq(S), IsPrefix(s, t), Len(s) = Len(t)
  PROVE  s = t
<1>1. Len(s) \in Nat /\ Len(t) \in Nat
  BY LenProperties
<1>2. \A i \in 1..Len(s) : s[i] = t[i]
  BY <1>1 DEF IsPrefix
<1> QED
  BY <1>1, <1>2, SeqEqual

(* The types of what an iterator changes.                                  *)
ChunkTypes ==
  /\ path \in [Streams -> Segments(mpd) \cup {Null}]
  /\ next \in [Streams -> Nat]
  /\ \A c \in Streams : next[c] \in 1..(Len(Whole(mpd, c)) + 1)
  /\ reqs \in [Streams -> Seq(Segments(mpd) \cup {ManifestRequest})]
  /\ asked \in [Streams -> Seq(Segments(mpd))] /\ got \in [Streams -> Seq(Segments(mpd))]
  /\ completes \in [Streams -> Nat]

(* The iterator is asked when nothing is outstanding.                      *)
MayAsk(c) ==
  /\ completes[c] = 0 /\ LoadedInv(c)
  /\ ~odd[c] => Len(asked[c]) = Len(got[c])

Asks(c) ==
  /\ ytdl_dl_dash_ctx_next_chunk(c, <<>>)
  /\ mpd' = mpd /\ got' = got /\ odd' = odd
  /\ ~body'[c] /\ ~waiting'[c] /\ net'[c] # "connecting"

(* Only c is asked.                                                        *)
OthersStay(c) ==
  \A d \in Streams : d # c =>
    /\ path'[d] = path[d] /\ next'[d] = next[d] /\ reqs'[d] = reqs[d]
    /\ asked'[d] = asked[d] /\ completes'[d] = completes[d]

LEMMA SegmentFacts ==
  ASSUME NEW m \in Manifests, NEW c \in Streams
  PROVE  /\ Whole(m, c) \in Seq(Segments(m)) /\ Len(Whole(m, c)) \in Nat
         /\ \A k \in 1..Len(Whole(m, c)) : Whole(m, c)[k] \in Segments(m)
<1> DEFINE W == Whole(m, c)
<1>1. W \in Seq(Names) /\ Len(W) \in Nat /\ DOMAIN W = 1..Len(W)
  BY WholeFacts, LenProperties
<1>2. \A k \in 1..Len(W) : W[k] \in Segments(m)
  BY <1>1 DEF Segments, ToSet
<1> HIDE DEF W
<1>3. W \in Seq(Segments(m))
  BY <1>1, <1>2, IsASeq
<1> QED
  BY <1>1, <1>2, <1>3 DEF W

LEMMA AskKeepsLoaded ==
  ASSUME NEW c \in Streams, ChunkTypes, mpd \in Manifests, MayAsk(c), Asks(c),
         NEW x, Ask(c, <<>>, x), x # Null, next' \in [Streams -> Nat],
         \A d \in Streams : d # c => next'[d] = next[d],
         Len(asked[c]) < Len(Whole(mpd, c)),
         x = Whole(mpd, c)[Len(asked[c]) + 1],
         next'[c] = IF Len(asked[c]) + 1 <= Ahead(mpd, c) THEN 1
                    ELSE Len(asked[c]) + 1 - Ahead(mpd, c) + 1
  PROVE  ChunkTypes' /\ LoadedInv(c)' /\ OthersStay(c)
<1> DEFINE S == Segments(mpd)
           W == Whole(mpd, c)
           a == asked[c]
<1>1. /\ W \in Seq(S) /\ Len(W) \in Nat /\ a \in Seq(S) /\ Len(a) \in Nat
      /\ got[c] \in Seq(S)
  BY SegmentFacts, LenProperties DEF ChunkTypes
<1>2. x \in S
  BY <1>1, SegmentFacts
<1>3. /\ Len(segment_list(mpd, c)) \in Nat /\ Ahead(mpd, c) \in {0, 1}
      /\ Len(W) = Len(segment_list(mpd, c)) + Ahead(mpd, c)
  BY WholeFacts DEF Ahead
<1>4. /\ reqs' = [reqs EXCEPT ![c] = Append(<<>>, x)]
      /\ asked' = [asked EXCEPT ![c] = Append(a, x)]
      /\ path' = [path EXCEPT ![c] = x]
      /\ completes' = completes /\ mpd' = mpd /\ got' = got /\ odd' = odd
  BY DEF Ask, Asks
<1> HIDE DEF S, W, a
<1>5. Append(<<>>, x) = <<x>> /\ <<x>> \in Seq(S \cup {ManifestRequest})
  BY <1>2
<1>6. /\ Append(a, x) \in Seq(S) /\ Len(Append(a, x)) = Len(a) + 1
      /\ Append(a, x)[Len(a) + 1] = x /\ Append(a, x) # <<>>
  BY <1>1, <1>2, AppendProperties
<1>7. next'[c] \in 1..(Len(segment_list(mpd, c)) + 1)
  BY <1>1, <1>3 DEF W, a
<1>8. ChunkTypes'
  <2>1. path' \in [Streams -> S \cup {Null}] /\ completes' \in [Streams -> Nat]
        /\ reqs' \in [Streams -> Seq(S \cup {ManifestRequest})]
        /\ asked' \in [Streams -> Seq(S)] /\ got' \in [Streams -> Seq(S)]
    BY <1>2, <1>4, <1>5, <1>6 DEF ChunkTypes, S
  <2>2. \A d \in Streams : next'[d] \in 1..(Len(Whole(mpd, d)) + 1)
    <3> TAKE d \in Streams
    <3>1. CASE d = c
      BY <1>3, <1>7, <3>1 DEF W
    <3>2. CASE d # c
      BY <3>2 DEF ChunkTypes
    <3> QED
      BY <3>1, <3>2
  <2> QED
    BY <1>4, <2>1, <2>2 DEF ChunkTypes, S
<1>9. /\ reqs'[c] = <<x>> /\ asked'[c] = Append(a, x) /\ path'[c] = x
      /\ completes'[c] = 0 /\ got'[c] = got[c] /\ (odd'[c] <=> odd[c])
  BY <1>4, <1>5 DEF ChunkTypes, MayAsk
<1>10. OthersStay(c)
  BY <1>4 DEF OthersStay, ChunkTypes
<1>11. IsPrefix(asked'[c], W)
  <2>1. IsPrefix(a, W)
    BY DEF MayAsk, LoadedInv, a, W
  <2> QED
    BY <1>1, <1>9, <2>1, PrefixGrows DEF W, a
<1>12. IteratorInv(c)'
  <2>1. next'[c] = IF Len(asked'[c]) <= Ahead(mpd', c) THEN 1
                   ELSE Len(asked'[c]) - Ahead(mpd', c) + 1
    BY <1>1, <1>3, <1>4, <1>6, <1>9 DEF a
  <2>2. path'[c] # Null /\ asked'[c] # <<>>
    BY <1>6, <1>9
  <2> QED
    BY <2>1, <2>2 DEF IteratorInv
<1>13. RequestInv(c)'
  <2>1. ~body'[c] /\ ~waiting'[c] /\ net'[c] # "connecting"
    BY DEF Asks
  <2>2. asked'[c] # <<>> /\ reqs'[c] = <<asked'[c][Len(asked'[c])]>> /\ reqs'[c] # <<>>
    BY <1>6, <1>9
  <2> QED
    BY <1>9, <2>1, <2>2 DEF RequestInv
<1>14. HandedInv(c)'
  <2>1. ~body'[c] /\ reqs'[c] # <<>>
    BY <1>9 DEF Asks
  <2>2. ~odd[c] => IsPrefix(got[c], a) /\ Len(a) = Len(got[c])
    BY DEF MayAsk, LoadedInv, HandedInv, a
  <2>3. ~odd[c] => IsPrefix(got[c], Append(a, x))
    BY <1>1, <1>2, <2>2, PrefixStays
  <2> QED
    BY <1>6, <1>9, <2>1, <2>2, <2>3 DEF HandedInv
<1> QED
  BY <1>4, <1>7, <1>8, <1>9, <1>10, <1>11, <1>12, <1>13, <1>14
  DEF LoadedInv, W

(* One step of an iterator, and the request or the call of on_complete     *)
(* that follows.                                                           *)
LEMMA NextChunkKeepsLoaded ==
  ASSUME NEW c \in Streams, ChunkTypes, mpd \in Manifests, MayAsk(c), Asks(c)
  PROVE  ChunkTypes' /\ LoadedInv(c)' /\ OthersStay(c)
<1> DEFINE L == segment_list(mpd, c)
           W == Whole(mpd, c)
           a == asked[c]
           f == Ahead(mpd, c)
<1>1. /\ Len(W) \in Nat /\ Len(L) \in Nat /\ f \in {0, 1} /\ Len(W) = Len(L) + f
      /\ f = 1 => W[1] = initial_segment(mpd, c)
      /\ f = 0 <=> initial_segment(mpd, c) = Null
      /\ \A k \in 1..Len(L) : W[k + f] = L[k]
  BY WholeFacts DEF Ahead
<1>2. a \in Seq(Segments(mpd)) /\ Len(a) \in Nat /\ Len(a) <= Len(W)
      /\ (Len(a) = 0 <=> a = <<>>)
  BY LenProperties, EmptySeq DEF ChunkTypes, MayAsk, LoadedInv, IsPrefix
<1>3. /\ next[c] = IF Len(a) <= f THEN 1 ELSE Len(a) - f + 1
      /\ path[c] = Null <=> a = <<>>
  BY DEF MayAsk, LoadedInv, IteratorInv
<1> HIDE DEF L, W, a, f
<1>4. CASE AskInitial(c, <<>>)
  <2>1. AtInitial(c) /\ Ask(c, <<>>, initial_segment(mpd, c)) /\ next' = next
    BY <1>4 DEF AskInitial
  <2>2. Len(a) = 0 /\ f = 1 /\ initial_segment(mpd, c) = W[Len(a) + 1]
        /\ initial_segment(mpd, c) # Null /\ Len(a) < Len(W)
    BY <1>1, <1>2, <1>3, <2>1 DEF AtInitial
  <2>3. /\ next' \in [Streams -> Nat] /\ \A d \in Streams : d # c => next'[d] = next[d]
        /\ next'[c] = IF Len(a) + 1 <= f THEN 1 ELSE Len(a) + 1 - f + 1
    BY <1>3, <2>1, <2>2 DEF ChunkTypes
  <2> QED
    BY <2>1, <2>2, <2>3, AskKeepsLoaded DEF a, f, W
<1>5. ASSUME ~AtInitial(c) PROVE next[c] = Len(a) - f + 1 /\ Len(a) >= f
  BY <1>1, <1>2, <1>3, <1>5 DEF AtInitial
<1>6. CASE AskListed(c, <<>>)
  <2>1. /\ next[c] <= Len(L) /\ L[next[c]] # Null /\ Ask(c, <<>>, L[next[c]])
        /\ next' = [next EXCEPT ![c] = next[c] + 1] /\ ~AtInitial(c)
    BY <1>6 DEF AskListed, L, Advanced
  <2>2. next[c] = Len(a) - f + 1 /\ Len(a) >= f
    BY <1>5, <2>1
  <2>3. next[c] \in 1..Len(L) /\ next[c] + f = Len(a) + 1 /\ Len(a) < Len(W)
    BY <1>1, <1>2, <2>1, <2>2
  <2>4. L[next[c]] = W[Len(a) + 1]
    BY <1>1, <2>3
  <2>5. /\ next' \in [Streams -> Nat] /\ \A d \in Streams : d # c => next'[d] = next[d]
        /\ next'[c] = IF Len(a) + 1 <= f THEN 1 ELSE Len(a) + 1 - f + 1
    BY <1>1, <1>2, <2>1, <2>2 DEF ChunkTypes
  <2> QED
    BY <2>1, <2>3, <2>4, <2>5, AskKeepsLoaded DEF a, f, W
<1>7. CASE Complete(c, <<>>)
  <2>1. /\ ~AtInitial(c)
        /\ next[c] <= Len(L) => L[next[c]] = Null
        /\ reqs' = [reqs EXCEPT ![c] = <<>>] /\ path' = [path EXCEPT ![c] = Null]
        /\ next' = [next EXCEPT ![c] = IF next[c] <= Len(L) THEN next[c] + 1 ELSE next[c]]
        /\ completes' = [completes EXCEPT ![c] = completes[c] + 1]
        /\ asked' = asked /\ mpd' = mpd /\ got' = got /\ odd' = odd
    BY <1>7 DEF Complete, L, Advanced, Asks
  <2>2. next[c] = Len(a) - f + 1 /\ Len(a) >= f
    BY <1>5, <2>1
  <2>3. next'[c] \in 1..(Len(L) + 1) /\ next' \in [Streams -> Nat]
        /\ \A d \in Streams : d # c => next'[d] = next[d]
    <3> DEFINE n == IF next[c] <= Len(L) THEN next[c] + 1 ELSE next[c]
    <3>1. next \in [Streams -> Nat] /\ next[c] \in Nat /\ next[c] >= 1
          /\ next[c] <= Len(L) + 1
      BY <1>1, <1>2, <2>2 DEF ChunkTypes
    <3>2. n \in 1..(Len(L) + 1)
      BY <1>1, <3>1
    <3>3. next' = [next EXCEPT ![c] = n]
      BY <2>1
    <3> HIDE DEF n
    <3> QED
      BY <3>1, <3>2, <3>3
  <2>4. ChunkTypes'
    <3>1. <<>> \in Seq(Segments(mpd) \cup {ManifestRequest})
      BY EmptySeq
    <3>2. path' \in [Streams -> Segments(mpd) \cup {Null}]
          /\ reqs' \in [Streams -> Seq(Segments(mpd) \cup {ManifestRequest})]
          /\ completes' \in [Streams -> Nat]
      BY <2>1, <3>1 DEF ChunkTypes
    <3>3. ASSUME NEW d \in Streams PROVE next'[d] \in 1..(Len(Whole(mpd, d)) + 1)
      <4>1. CASE d = c
        BY <1>1, <2>3, <4>1 DEF W
      <4>2. CASE d # c
        BY <2>3, <4>2 DEF ChunkTypes
      <4> QED
        BY <4>1, <4>2
    <3> QED
      BY <2>1, <2>3, <3>2, <3>3 DEF ChunkTypes
  <2>5. /\ reqs'[c] = <<>> /\ completes'[c] = 1 /\ asked'[c] = a /\ got'[c] = got[c]
        /\ (odd'[c] <=> odd[c])
    BY <2>1 DEF ChunkTypes, MayAsk, a
  <2>6. AllMedia(mpd, c) => Len(a) = Len(W)
    <3>1. SUFFICES ASSUME AllMedia(mpd, c), next[c] <= Len(L) PROVE FALSE
      BY <1>1, <1>2, <2>2
    <3>2. next[c] + f \in 1..Len(W) /\ W[next[c] + f] = Null
      BY <1>1, <1>2, <2>1, <2>2, <3>1
    <3>3. W \in Seq(Names) /\ DOMAIN W = 1..Len(W)
      BY WholeFacts, LenProperties DEF W
    <3> QED
      BY <3>1, <3>2, <3>3 DEF AllMedia, ToSet, W
  <2>7. OthersStay(c)
    BY <2>1, <2>3 DEF OthersStay, ChunkTypes
  <2>8. IteratorInv(c)' /\ RequestInv(c)'
    <3>1. ~body'[c] /\ ~waiting'[c] /\ net'[c] # "connecting"
      BY DEF Asks
    <3> QED
      BY <2>5, <3>1 DEF IteratorInv, RequestInv
  <2>9. HandedInv(c)'
    <3>1. ~odd[c] => IsPrefix(got[c], a) /\ Len(a) = Len(got[c])
      BY DEF MayAsk, LoadedInv, HandedInv, a
    <3> QED
      BY <1>2, <2>5, <3>1 DEF HandedInv
  <2>10. IsPrefix(asked'[c], Whole(mpd', c))
    BY <2>1 DEF MayAsk, LoadedInv
  <2> QED
    BY <2>1, <2>3, <2>4, <2>5, <2>6, <2>7, <2>8, <2>9, <2>10 DEF LoadedInv, L, W
<1> QED
  BY <1>4, <1>6, <1>7 DEF Asks, ytdl_dl_dash_ctx_next_chunk

-----------------------------------------------------------------------------
(* The steps of the two contexts.                                          *)

(* The types of the other variables.                                       *)
RestTypes ==
  /\ mpd \in Manifests /\ pause \in [Streams -> BOOLEAN]
  /\ net \in [Streams -> {"none", "new", "connecting", "up", "failed", "lost",
                          "closing", "closed", "crashed"}]
  /\ on_closed \in [Streams -> {"none", "manifest", "final"}]
  /\ stage \in [Streams -> {"manifest", "segments"}]
  /\ manifest \in [Streams -> 0..MaxPieces]
  /\ is_shutdown \in [Streams -> BOOLEAN]
  /\ is_dash_init \in [Streams -> BOOLEAN]
  /\ body \in [Streams -> BOOLEAN] /\ waiting \in [Streams -> BOOLEAN]
  /\ shutdown \in [Streams -> {"no", "requested", "done"}]
  /\ odd \in [Streams -> BOOLEAN] /\ uaf \in BOOLEAN

LEMMA TypesTogether ==
  TypeOK /\ next \in [Streams -> Nat] <=> RestTypes /\ ChunkTypes
<1> QED
  BY DEF TypeOK, RestTypes, ChunkTypes

(* The invariant after a step, from its parts.                             *)
LEMMA DashFromParts ==
  ASSUME RestTypes', ChunkTypes', StageInv', \A d \in Streams : StreamInv(d)'
  PROVE  DashInv'
<1>1. TypeOK' /\ (next \in [Streams -> Nat])'
  BY DEF TypeOK, RestTypes, ChunkTypes
<1> QED
  BY <1>1 DEF DashInv

(* Nothing a stream's invariant is about has changed.                      *)
Stays(c) ==
  /\ mpd' = mpd /\ stage'[c] = stage[c]
  /\ asked'[c] = asked[c] /\ got'[c] = got[c] /\ completes'[c] = completes[c]
  /\ path'[c] = path[c] /\ next'[c] = next[c]
  /\ body'[c] = body[c] /\ waiting'[c] = waiting[c] /\ odd'[c] = odd[c]
  /\ stage[c] = "segments" =>
       /\ reqs'[c] = reqs[c]
       /\ net'[c] = "connecting" => net[c] = "connecting"
       /\ on_closed'[c] = "manifest" => on_closed[c] = "manifest"

LEMMA StreamStays ==
  ASSUME NEW c \in Streams, StreamInv(c), Stays(c)
  PROVE  StreamInv(c)'
<1>1. CASE stage[c] = "manifest"
  BY <1>1 DEF StreamInv, Stays, Unloaded
<1>2. CASE stage[c] = "segments"
  <2>1. LoadedInv(c) /\ on_closed[c] # "manifest"
    BY <1>2 DEF StreamInv
  <2>2. IteratorInv(c)' /\ RequestInv(c)' /\ HandedInv(c)'
    <3>1. IteratorInv(c)'
      BY <2>1 DEF Stays, LoadedInv, IteratorInv
    <3>2. RequestInv(c)'
      BY <1>2, <2>1 DEF Stays, LoadedInv, RequestInv
    <3>3. HandedInv(c)'
      BY <1>2, <2>1 DEF Stays, LoadedInv, HandedInv
    <3> QED
      BY <3>1, <3>2, <3>3
  <2>3. LoadedInv(c)'
    BY <2>1, <2>2 DEF Stays, LoadedInv
  <2> QED
    BY <1>2, <2>1, <2>3 DEF StreamInv, Stays
<1>3. CASE stage[c] \notin {"manifest", "segments"}
  BY <1>3 DEF StreamInv, Stays
<1> QED
  BY <1>1, <1>2, <1>3

LEMMA AllStay ==
  ASSUME DashInv, RestTypes', ChunkTypes', StageInv', \A c \in Streams : Stays(c)
  PROVE  DashInv'
<1>1. \A c \in Streams : StreamInv(c)'
  BY StreamStays DEF DashInv
<1> QED
  BY <1>1, TypesTogether DEF DashInv, TypeOK, RestTypes, ChunkTypes

(* Only the connections and the request for the manifest are changed.      *)
OnlyNet ==
  /\ mpd' = mpd /\ pause' = pause /\ stage' = stage /\ is_dash_init' = is_dash_init
  /\ path' = path /\ next' = next /\ body' = body /\ asked' = asked
  /\ completes' = completes /\ waiting' = waiting /\ got' = got /\ odd' = odd
  /\ uaf' = uaf

LEMMA OnlyNetStays ==
  ASSUME DashInv, OnlyNet, StageInv',
         net' \in [Streams -> {"none", "new", "connecting", "up", "failed", "lost",
                               "closing", "closed", "crashed"}],
         on_closed' \in [Streams -> {"none", "manifest", "final"}],
         manifest' \in [Streams -> 0..MaxPieces],
         is_shutdown' \in [Streams -> BOOLEAN],
         shutdown' \in [Streams -> {"no", "requested", "done"}],
         reqs' \in [Streams -> Seq(Segments(mpd) \cup {ManifestRequest})],
         \A c \in Streams : stage[c] = "segments" =>
           /\ reqs'[c] = reqs[c]
           /\ net'[c] = "connecting" => net[c] = "connecting"
           /\ on_closed'[c] = "manifest" => on_closed[c] = "manifest"
  PROVE  DashInv'
<1>1. RestTypes /\ ChunkTypes
  BY TypesTogether DEF DashInv
<1>2. RestTypes'
  <2>1. /\ mpd' \in Manifests
        /\ stage' \in [Streams -> {"manifest", "segments"}]
    BY <1>1 DEF RestTypes, OnlyNet
  <2>2. /\ pause' \in [Streams -> BOOLEAN] /\ is_dash_init' \in [Streams -> BOOLEAN]
        /\ body' \in [Streams -> BOOLEAN] /\ waiting' \in [Streams -> BOOLEAN]
        /\ odd' \in [Streams -> BOOLEAN]
    BY <1>1 DEF RestTypes, OnlyNet
  <2>3. uaf' \in BOOLEAN
    BY <1>1, Zenon DEF RestTypes, OnlyNet
  <2> QED
    BY <2>1, <2>2, <2>3 DEF RestTypes
<1>3. ChunkTypes'
  BY <1>1 DEF ChunkTypes, OnlyNet
<1>4. \A c \in Streams : Stays(c)
  BY DEF Stays, OnlyNet
<1> QED
  BY <1>2, <1>3, <1>4, AllStay

LEMMA ManifestKeepsDash ==
  ASSUME DashInv, NEW c \in Streams,
         \/ ytdl_dl_dash_ctx_connect
         \/ ytdl__dash_manifest_connected_cb(c)
         \/ ytdl__dash_manifest_cb(c)
         \/ ytdl__dash_manifest_complete_cb(c)
  PROVE  DashInv'
<1>1. RestTypes /\ ChunkTypes /\ StageInv /\ "audio" \in Streams /\ "video" \in Streams
  BY TypesTogether DEF DashInv, Streams
<1>2. /\ net \in [Streams -> {"none", "new", "connecting", "up", "failed", "lost",
                              "closing", "closed", "crashed"}]
      /\ on_closed \in [Streams -> {"none", "manifest", "final"}]
      /\ stage \in [Streams -> {"manifest", "segments"}]
      /\ manifest \in [Streams -> 0..MaxPieces]
      /\ is_shutdown \in [Streams -> BOOLEAN]
      /\ shutdown \in [Streams -> {"no", "requested", "done"}]
      /\ reqs \in [Streams -> Seq(Segments(mpd) \cup {ManifestRequest})]
      /\ MaxPieces \in Nat
  BY <1>1, DashAssumption DEF RestTypes, ChunkTypes
<1>3. stage["audio"] = stage["video"]
      /\ (stage["video"] = "manifest" =>
            /\ net["video"] \in {"none", "crashed"} /\ on_closed["video"] = "none"
            /\ reqs["video"] = <<>> /\ shutdown["video"] = "no")
  BY <1>1 DEF StageInv
<1>4. CASE ytdl_dl_dash_ctx_connect
  <2>1. OnlyNet /\ stage["audio"] = "manifest"
        /\ net' = [net EXCEPT !["audio"] = "connecting"]
        /\ UNCHANGED <<on_closed, manifest, is_shutdown, reqs, shutdown>>
    BY <1>4 DEF ytdl_dl_dash_ctx_connect, OnlyNet, fixedVars, iterVars, requestVars
  <2>2. StageInv'
    BY <1>2, <1>3, <2>1 DEF StageInv, OnlyNet
  <2> QED
    BY <1>2, <1>3, <2>1, <2>2, OnlyNetStays DEF Streams
<1>5. CASE ytdl__dash_manifest_connected_cb(c)
  <2>1. OnlyNet /\ stage[c] = "manifest" /\ net[c] = "connecting"
        /\ net' = [net EXCEPT ![c] = "up"]
        /\ reqs' = [reqs EXCEPT ![c] = Append(reqs[c], ManifestRequest)]
        /\ UNCHANGED <<on_closed, manifest, is_shutdown, shutdown>>
    BY <1>5 DEF ytdl__dash_manifest_connected_cb, OnlyNet, fixedVars, iterVars
  <2>2. c = "audio"
    BY <1>3, <2>1 DEF Streams
  <2>3. StageInv'
    BY <1>2, <1>3, <2>1, <2>2 DEF StageInv, OnlyNet
  <2>4. Append(reqs[c], ManifestRequest) \in Seq(Segments(mpd) \cup {ManifestRequest})
    BY <1>2, AppendProperties
  <2>5. reqs' \in [Streams -> Seq(Segments(mpd) \cup {ManifestRequest})]
    BY <1>2, <2>1, <2>4
  <2>6. \A d \in Streams : stage[d] # "segments"
    BY <1>3, <2>1, <2>2 DEF Streams
  <2> QED
    BY <1>2, <2>1, <2>3, <2>5, <2>6, OnlyNetStays
<1>6. CASE ytdl__dash_manifest_cb(c)
  <2>1. OnlyNet /\ manifest[c] < MaxPieces
        /\ manifest' = [manifest EXCEPT ![c] = manifest[c] + 1]
        /\ UNCHANGED <<net, on_closed, reqs, is_shutdown, shutdown>>
    BY <1>6 DEF ytdl__dash_manifest_cb, OnlyNet, fixedVars, httpVars, iterVars,
                requestVars
  <2>2. StageInv'
    BY <1>3, <2>1 DEF StageInv, OnlyNet
  <2>3. manifest' \in [Streams -> 0..MaxPieces]
    BY <1>2, <2>1
  <2> QED
    BY <1>2, <2>1, <2>2, <2>3, OnlyNetStays
<1>7. CASE ytdl__dash_manifest_complete_cb(c)
  <2>1. OnlyNet /\ stage[c] = "manifest" /\ net[c] = "up"
        /\ is_shutdown' = [is_shutdown EXCEPT ![c] = TRUE]
        /\ net' = [net EXCEPT ![c] = "closing"]
        /\ on_closed' = [on_closed EXCEPT ![c] = "manifest"]
        /\ UNCHANGED <<reqs, manifest, shutdown>>
    BY <1>7 DEF ytdl__dash_manifest_complete_cb, Answering, OnlyNet, fixedVars,
                iterVars, requestVars
  <2>2. c = "audio"
    BY <1>3, <2>1 DEF Streams
  <2>3. StageInv'
    BY <1>2, <1>3, <2>1, <2>2 DEF StageInv, OnlyNet
  <2>4. is_shutdown' \in [Streams -> BOOLEAN]
    BY <1>2, <2>1
  <2>5. \A d \in Streams : stage[d] # "segments"
    BY <1>3, <2>1, <2>2 DEF Streams
  <2> QED
    BY <1>2, <2>1, <2>3, <2>4, <2>5, OnlyNetStays
<1> QED
  BY <1>4, <1>5, <1>6, <1>7

LEMMA TeardownKeepsDash ==
  ASSUME DashInv, NEW c \in Streams,
         \/ ytdl__status_cb(c)
         \/ ytdl_dl_dash_shutdown(c)
         \/ ytdl__dl_dash_shutdown(c)
         \/ ytdl__dash_close_f_cb(c)
  PROVE  DashInv'
<1>1. RestTypes /\ ChunkTypes /\ StageInv /\ "audio" \in Streams /\ "video" \in Streams
  BY TypesTogether DEF DashInv, Streams
<1>2. /\ net \in [Streams -> {"none", "new", "connecting", "up", "failed", "lost",
                              "closing", "closed", "crashed"}]
      /\ on_closed \in [Streams -> {"none", "manifest", "final"}]
      /\ manifest \in [Streams -> 0..MaxPieces]
      /\ is_shutdown \in [Streams -> BOOLEAN]
      /\ shutdown \in [Streams -> {"no", "requested", "done"}]
      /\ reqs \in [Streams -> Seq(Segments(mpd) \cup {ManifestRequest})]
  BY <1>1 DEF RestTypes, ChunkTypes
<1>3. stage["audio"] = stage["video"]
      /\ (stage["video"] = "manifest" =>
            /\ net["video"] \in {"none", "crashed"} /\ on_closed["video"] = "none"
            /\ reqs["video"] = <<>> /\ shutdown["video"] = "no")
  BY <1>1 DEF StageInv
<1>4. OnlyNet /\ UNCHANGED <<manifest, is_shutdown, reqs>>
  BY DEF ytdl__status_cb, ytdl_dl_dash_shutdown, ytdl__dl_dash_shutdown,
         ytdl__dash_close_f_cb, OnlyNet, fixedVars, httpVars, iterVars, requestVars
<1>5. CASE ytdl__status_cb(c) \/ ytdl__dash_close_f_cb(c)
  <2>1. PICK n \in {"failed", "lost", "closed"} : net' = [net EXCEPT ![c] = n]
    BY <1>5 DEF ytdl__status_cb, ytdl__dash_close_f_cb
  <2>2. net[c] \notin {"none", "crashed"} /\ on_closed' = on_closed /\ shutdown' = shutdown
    BY <1>5 DEF ytdl__status_cb, ytdl__dash_close_f_cb
  <2>3. StageInv'
    BY <1>2, <1>3, <1>4, <2>1, <2>2 DEF StageInv, OnlyNet
  <2>4. /\ net' \in [Streams -> {"none", "new", "connecting", "up", "failed", "lost",
                                 "closing", "closed", "crashed"}]
        /\ \A d \in Streams : net'[d] = "connecting" => net[d] = "connecting"
    BY <1>2, <2>1
  <2> QED
    BY <1>2, <1>4, <2>2, <2>3, <2>4, OnlyNetStays
<1>6. CASE ytdl_dl_dash_shutdown(c)
  <2>1. /\ net[c] \notin {"none", "crashed"} /\ shutdown' = [shutdown EXCEPT ![c] = "requested"]
        /\ net' = net /\ on_closed' = on_closed
    BY <1>6 DEF ytdl_dl_dash_shutdown, httpVars
  <2>2. StageInv'
    BY <1>2, <1>3, <1>4, <2>1 DEF StageInv, OnlyNet
  <2> QED
    BY <1>2, <1>4, <2>1, <2>2, OnlyNetStays
<1>7. CASE ytdl__dl_dash_shutdown(c)
  <2>1. /\ shutdown[c] = "requested" /\ shutdown' = [shutdown EXCEPT ![c] = "done"]
        /\ \/ net' = net /\ on_closed' = on_closed
           \/ /\ net' = [net EXCEPT ![c] = "closing"]
              /\ on_closed' = [on_closed EXCEPT ![c] = "final"]
    BY <1>7 DEF ytdl__dl_dash_shutdown
  <2>2. StageInv'
    <3>1. CASE c = "video"
      BY <1>3, <1>4, <2>1, <3>1 DEF StageInv, OnlyNet
    <3>2. CASE c # "video"
      <4>1. /\ net'["video"] = net["video"] /\ shutdown'["video"] = shutdown["video"]
            /\ on_closed'["video"] = on_closed["video"]
        BY <1>1, <1>2, <2>1, <3>2
      <4> QED
        BY <1>3, <1>4, <4>1 DEF StageInv, OnlyNet
    <3> QED
      BY <3>1, <3>2
  <2>3. /\ net' \in [Streams -> {"none", "new", "connecting", "up", "failed", "lost",
                                 "closing", "closed", "crashed"}]
        /\ on_closed' \in [Streams -> {"none", "manifest", "final"}]
        /\ \A d \in Streams : /\ net'[d] = "connecting" => net[d] = "connecting"
                              /\ on_closed'[d] = "manifest" => on_closed[d] = "manifest"
    BY <1>2, <2>1
  <2> QED
    BY <1>2, <1>4, <2>1, <2>2, <2>3, OnlyNetStays
<1> QED
  BY <1>5, <1>6, <1>7

(* Both contexts start from the manifest.                                  *)
LEMMA ForkKeepsDash ==
  ASSUME DashInv, ytdl__dash_close_cb, Located(mpd)
  PROVE  DashInv'
<1>1. RestTypes /\ ChunkTypes /\ StageInv /\ "audio" \in Streams /\ "video" \in Streams
      /\ \A c \in Streams : StreamInv(c)
  BY TypesTogether DEF DashInv, Streams
<1>2. /\ net["audio"] = "closing" /\ on_closed["audio"] = "manifest"
      /\ is_shutdown' = TakenBack /\ reqs' = [reqs EXCEPT !["audio"] = <<>>]
      /\ manifest' = Forked /\ ytdl_dl_dash_load_fork(Streams)
      /\ on_closed' = [on_closed EXCEPT !["audio"] = "none"]
      /\ uaf' = (uaf \/ shutdown["audio"] = "done")
  BY DEF ytdl__dash_close_cb, ForkedOnManifest
<1>3. UNCHANGED <<mpd, pause, body, asked, completes, waiting, shutdown, got, odd>>
  BY DEF ytdl__dash_close_cb, fixedVars
<1>4. /\ is_dash_init' = [c \in Streams |-> c \in Streams \/ is_dash_init[c]]
      /\ path' = [c \in Streams |-> Null] /\ next' = [c \in Streams |-> 1]
      /\ stage' = [c \in Streams |-> "segments"]
  BY <1>2 DEF ytdl_dl_dash_load_fork
<1>5. net' \in [Streams -> {"connecting", "new"}]
  <2>1. PICK parsed \in SUBSET Streams :
          net' = [c \in Streams |-> CASE c \in parsed -> "connecting"
                                      [] c \in Streams \ parsed -> "new"
                                      [] c \notin Streams -> net[c]]
    BY <1>2 DEF ytdl_dl_dash_load_fork
  <2> QED
    BY <2>1
<1>6. \A c \in Streams : stage[c] = "manifest" /\ Unloaded(c)
  BY <1>1, <1>2 DEF StreamInv, StageInv, RestTypes, Streams
<1>7. /\ on_closed["video"] = "none" /\ reqs["video"] = <<>>
  BY <1>1, <1>6 DEF StageInv
<1>8. RestTypes'
  <2>1. uaf' \in BOOLEAN
    BY <1>2, Zenon
  <2>2. is_dash_init' \in [Streams -> BOOLEAN] /\ is_shutdown' \in [Streams -> BOOLEAN]
    BY <1>2, <1>4 DEF TakenBack
  <2>3. /\ body' \in [Streams -> BOOLEAN] /\ waiting' \in [Streams -> BOOLEAN]
        /\ odd' \in [Streams -> BOOLEAN] /\ pause' \in [Streams -> BOOLEAN]
    BY <1>1, <1>3 DEF RestTypes
  <2>4. manifest' \in [Streams -> 0..MaxPieces]
    BY <1>1, <1>2 DEF RestTypes, Forked
  <2>5. on_closed' \in [Streams -> {"none", "manifest", "final"}]
        /\ shutdown' \in [Streams -> {"no", "requested", "done"}] /\ mpd' \in Manifests
    BY <1>1, <1>2, <1>3 DEF RestTypes
  <2> QED
    BY <1>4, <1>5, <2>1, <2>2, <2>3, <2>4, <2>5 DEF RestTypes
<1>9. ChunkTypes'
  <2>1. <<>> \in Seq(Segments(mpd) \cup {ManifestRequest})
    BY EmptySeq
  <2>2. \A c \in Streams : 1 \in 1..(Len(Whole(mpd, c)) + 1)
    BY <1>1, SegmentFacts DEF RestTypes
  <2> QED
    BY <1>1, <1>2, <1>3, <1>4, <2>1, <2>2 DEF ChunkTypes
<1>10. \A c \in Streams : /\ stage'[c] = "segments" /\ reqs'[c] = <<>>
                          /\ on_closed'[c] = "none"
  BY <1>1, <1>2, <1>4, <1>7 DEF ChunkTypes, RestTypes, Streams
<1>11. ASSUME NEW c \in Streams PROVE LoadedInv(c)'
  <2>1. Unloaded(c)
    BY <1>6
  <2>2. /\ asked'[c] = <<>> /\ got'[c] = <<>> /\ completes'[c] = 0
        /\ path'[c] = Null /\ next'[c] = 1 /\ reqs'[c] = <<>>
    BY <1>3, <1>4, <1>10, <2>1 DEF Unloaded
  <2>3. ~body'[c] /\ ~waiting'[c]
    BY <1>3, <2>1 DEF Unloaded
  <2>4. /\ Len(segment_list(mpd, c)) \in Nat /\ Ahead(mpd, c) \in {0, 1}
        /\ Len(Whole(mpd, c)) \in Nat
    BY <1>1, WholeFacts, SegmentFacts DEF Ahead, RestTypes
  <2>5. IsPrefix(<<>>, Whole(mpd, c)) /\ IsPrefix(<<>>, <<>>)
    <3>1. Whole(mpd, c) \in Seq(Segments(mpd)) /\ Len(<<>>) = 0
      BY <1>1, SegmentFacts DEF RestTypes
    <3> QED
      BY <2>4, <3>1 DEF IsPrefix
  <2>6. IteratorInv(c)'
    BY <1>3, <2>2, <2>4 DEF IteratorInv
  <2>7. RequestInv(c)'
    BY <2>2, <2>3 DEF RequestInv
  <2>8. HandedInv(c)'
    BY <2>2, <2>5 DEF HandedInv
  <2> QED
    BY <1>3, <2>2, <2>4, <2>5, <2>6, <2>7, <2>8 DEF LoadedInv
<1>12. StageInv'
  BY <1>1, <1>10 DEF StageInv
<1>13. \A c \in Streams : StreamInv(c)'
  BY <1>10, <1>11 DEF StreamInv
<1> QED
  BY <1>8, <1>9, <1>12, <1>13, TypesTogether DEF DashInv, TypeOK, RestTypes, ChunkTypes

(* Both end where a base URL is missing.                                   *)
LEMMA CrashKeepsDash ==
  ASSUME DashInv, ytdl__dash_close_cb, ~Located(mpd)
  PROVE  DashInv'
<1>1. RestTypes /\ ChunkTypes /\ StageInv /\ "audio" \in Streams
      /\ \A c \in Streams : StreamInv(c)
  BY TypesTogether DEF DashInv, Streams
<1>2. /\ net["audio"] = "closing" /\ on_closed["audio"] = "manifest"
      /\ net' = [c \in Streams |-> "crashed"]
      /\ uaf' = (uaf \/ shutdown["audio"] = "done")
  BY DEF ytdl__dash_close_cb, Crashed
<1>3. UNCHANGED <<mpd, pause, body, asked, completes, waiting, shutdown, got, odd,
                  is_shutdown, reqs, manifest, is_dash_init, path, next, stage,
                  on_closed>>
  BY DEF ytdl__dash_close_cb, fixedVars, Crashed, iterVars
<1>4. RestTypes'
  <2>1. uaf' \in BOOLEAN
    BY <1>2, Zenon
  <2>2. /\ is_dash_init' \in [Streams -> BOOLEAN] /\ is_shutdown' \in [Streams -> BOOLEAN]
        /\ body' \in [Streams -> BOOLEAN] /\ waiting' \in [Streams -> BOOLEAN]
        /\ odd' \in [Streams -> BOOLEAN] /\ pause' \in [Streams -> BOOLEAN]
    BY <1>1, <1>3 DEF RestTypes
  <2>3. /\ manifest' \in [Streams -> 0..MaxPieces]
        /\ on_closed' \in [Streams -> {"none", "manifest", "final"}]
        /\ stage' \in [Streams -> {"manifest", "segments"}]
        /\ shutdown' \in [Streams -> {"no", "requested", "done"}] /\ mpd' \in Manifests
    BY <1>1, <1>3 DEF RestTypes
  <2> QED
    BY <1>2, <2>1, <2>2, <2>3 DEF RestTypes
<1>5. ChunkTypes'
  BY <1>1, <1>3 DEF ChunkTypes
<1>6. StageInv'
  BY <1>1, <1>2, <1>3 DEF StageInv, Streams
<1>7. \A c \in Streams : Stays(c)
  BY <1>2, <1>3 DEF Stays
<1> QED
  BY <1>4, <1>5, <1>6, <1>7, AllStay

(* A stream goes on to its next segment.                                   *)
LEMMA AskKeepsDash ==
  ASSUME DashInv, NEW c \in Streams, stage[c] = "segments", MayAsk(c), Asks(c),
         RestTypes', stage' = stage, on_closed' = on_closed,
         \A d \in Streams : d # c =>
           /\ net'[d] = net[d] /\ body'[d] = body[d] /\ waiting'[d] = waiting[d]
  PROVE  DashInv'
<1>1. RestTypes /\ ChunkTypes /\ StageInv /\ \A d \in Streams : StreamInv(d)
  BY TypesTogether DEF DashInv
<1>2. ChunkTypes' /\ LoadedInv(c)' /\ OthersStay(c)
  BY <1>1, NextChunkKeepsLoaded DEF RestTypes
<1>3. mpd' = mpd /\ got' = got /\ odd' = odd
  BY DEF Asks
<1>4. StreamInv(c)'
  BY <1>1, <1>2 DEF StreamInv
<1>5. ASSUME NEW d \in Streams, d # c PROVE StreamInv(d)'
  <2>1. Stays(d)
    BY <1>2, <1>3, <1>5 DEF Stays, OthersStay
  <2> QED
    BY <1>1, <2>1, StreamStays
<1>6. StageInv'
  BY <1>1 DEF StageInv, Streams
<1>7. RestTypes' /\ ChunkTypes' /\ \A d \in Streams : StreamInv(d)'
  BY <1>2, <1>4, <1>5
<1> QED
  BY <1>6, <1>7, DashFromParts

LEMMA SegmentKeepsDash ==
  ASSUME DashInv, NEW c \in Streams,
         \/ ytdl__dash_segment_connected_cb(c)
         \/ ytdl__dash_segment_complete_cb(c)
         \/ UserNextChunk(c)
  PROVE  DashInv'
<1>1. RestTypes /\ ChunkTypes /\ StageInv /\ \A d \in Streams : StreamInv(d)
  BY TypesTogether DEF DashInv
<1>2. stage[c] = "segments" => LoadedInv(c)
  BY <1>1 DEF StreamInv
<1>3. waiting[c] => stage[c] = "segments"
  BY <1>1 DEF StreamInv, Unloaded, RestTypes
<1>4. /\ mpd' = mpd /\ pause' = pause /\ on_closed' = on_closed /\ stage' = stage
      /\ manifest' = manifest /\ is_shutdown' = is_shutdown
      /\ is_dash_init' = is_dash_init /\ shutdown' = shutdown
      /\ got' = got /\ odd' = odd /\ uaf' = uaf
  BY DEF ytdl__dash_segment_connected_cb, ytdl__dash_segment_complete_cb,
         UserNextChunk, fixedVars, httpVars
<1>5. ASSUME net' \in [Streams -> {"none", "new", "connecting", "up", "failed",
                                   "lost", "closing", "closed", "crashed"}],
             body' \in [Streams -> BOOLEAN], waiting' \in [Streams -> BOOLEAN]
      PROVE  RestTypes'
  <2>1. /\ pause' \in [Streams -> BOOLEAN] /\ is_shutdown' \in [Streams -> BOOLEAN]
        /\ is_dash_init' \in [Streams -> BOOLEAN] /\ odd' \in [Streams -> BOOLEAN]
    BY <1>1, <1>4 DEF RestTypes
  <2>2. uaf' \in BOOLEAN
    BY <1>1, <1>4, Zenon DEF RestTypes
  <2>3. /\ mpd' \in Manifests
        /\ on_closed' \in [Streams -> {"none", "manifest", "final"}]
        /\ stage' \in [Streams -> {"manifest", "segments"}]
        /\ manifest' \in [Streams -> 0..MaxPieces]
        /\ shutdown' \in [Streams -> {"no", "requested", "done"}]
    BY <1>1, <1>4 DEF RestTypes
  <2> QED
    BY <1>5, <2>1, <2>2, <2>3 DEF RestTypes
<1>6. /\ net \in [Streams -> {"none", "new", "connecting", "up", "failed", "lost",
                              "closing", "closed", "crashed"}]
      /\ body \in [Streams -> BOOLEAN] /\ waiting \in [Streams -> BOOLEAN]
  BY <1>1 DEF RestTypes
<1>7. CASE ytdl__dash_segment_connected_cb(c)
  <2>1. /\ net[c] = "connecting" /\ stage[c] = "segments"
        /\ net' = [net EXCEPT ![c] = "up"]
        /\ ytdl_dl_dash_ctx_next_chunk(c, reqs[c])
        /\ body' = body /\ waiting' = waiting
    BY <1>7 DEF ytdl__dash_segment_connected_cb
  <2>2. RequestInv(c) /\ HandedInv(c) /\ LoadedInv(c)
    BY <1>2, <2>1 DEF LoadedInv
  <2>3. reqs[c] = <<>> /\ ~waiting[c] /\ ~body[c] /\ completes[c] = 0
    BY <2>1, <2>2 DEF RequestInv
  <2>4. MayAsk(c)
    <3>1. ~odd[c] => Len(asked[c]) = Len(got[c]) + 0
      BY <2>2, <2>3 DEF HandedInv
    <3>2. got[c] \in Seq(Segments(mpd)) /\ Len(got[c]) \in Nat
      BY <1>1, LenProperties DEF ChunkTypes
    <3> QED
      BY <2>2, <2>3, <3>1, <3>2 DEF MayAsk
  <2>5. Asks(c)
    BY <1>4, <1>6, <2>1, <2>3 DEF Asks
  <2>6. RestTypes'
    BY <1>5, <1>6, <2>1
  <2> QED
    BY <1>4, <1>6, <2>1, <2>4, <2>5, <2>6, AskKeepsDash
<1>8. ASSUME waiting[c], waiting' = [waiting EXCEPT ![c] = FALSE], net' = net,
             body' = body, ytdl_dl_dash_ctx_next_chunk(c, reqs[c])
      PROVE  DashInv'
  <2>1. RequestInv(c) /\ HandedInv(c) /\ LoadedInv(c) /\ stage[c] = "segments"
    BY <1>2, <1>3, <1>8 DEF LoadedInv
  <2>2. reqs[c] = <<>> /\ net[c] # "connecting" /\ ~body[c] /\ completes[c] = 0
    BY <1>8, <2>1 DEF RequestInv
  <2>3. MayAsk(c)
    <3>1. ~odd[c] => Len(asked[c]) = Len(got[c]) + 0
      BY <2>1, <2>2 DEF HandedInv
    <3>2. got[c] \in Seq(Segments(mpd)) /\ Len(got[c]) \in Nat
      BY <1>1, LenProperties DEF ChunkTypes
    <3> QED
      BY <2>1, <2>2, <3>1, <3>2 DEF MayAsk
  <2>4. ~waiting'[c]
    BY <1>6, <1>8
  <2>5. Asks(c)
    BY <1>4, <1>8, <2>2, <2>4 DEF Asks
  <2>6. waiting' \in [Streams -> BOOLEAN]
        /\ \A d \in Streams : d # c => waiting'[d] = waiting[d]
    BY <1>6, <1>8
  <2>7. RestTypes'
    BY <1>5, <1>6, <1>8, <2>6
  <2> QED
    BY <1>4, <1>8, <2>1, <2>3, <2>5, <2>6, <2>7, AskKeepsDash
<1>9. CASE ytdl__dash_segment_complete_cb(c)
  <2>1. /\ stage[c] = "segments" /\ net[c] = "up" /\ reqs[c] # <<>> /\ body[c]
        /\ body' = [body EXCEPT ![c] = FALSE] /\ net' = net
    BY <1>9 DEF ytdl__dash_segment_complete_cb, Answering, httpVars
  <2>2. RequestInv(c) /\ HandedInv(c) /\ LoadedInv(c)
    BY <1>2, <2>1 DEF LoadedInv
  <2>3. /\ Tail(reqs[c]) = <<>> /\ completes[c] = 0 /\ ~waiting[c]
    <3>1. reqs[c] = <<asked[c][Len(asked[c])]>>
      BY <2>1, <2>2 DEF RequestInv
    <3>2. Tail(reqs[c]) = <<>>
      BY <3>1
    <3> QED
      BY <2>1, <2>2, <3>2 DEF RequestInv
  <2>4. ~odd[c] => Len(asked[c]) = Len(got[c])
    <3>1. ~odd[c] => Len(asked[c]) = Len(got[c]) + 0
      BY <2>1, <2>2 DEF HandedInv
    <3>2. got[c] \in Seq(Segments(mpd)) /\ Len(got[c]) \in Nat
      BY <1>1, LenProperties DEF ChunkTypes
    <3> QED
      BY <3>1, <3>2
  <2>5. /\ body' \in [Streams -> BOOLEAN] /\ ~body'[c]
        /\ \A d \in Streams : d # c => body'[d] = body[d]
    BY <1>6, <2>1
  <2>6. CASE GoesOn(c)
    <3>1. ytdl_dl_dash_ctx_next_chunk(c, <<>>) /\ waiting' = waiting
      BY <1>9, <2>3, <2>6 DEF ytdl__dash_segment_complete_cb
    <3>2. MayAsk(c)
      BY <2>2, <2>3, <2>4 DEF MayAsk
    <3>3. Asks(c)
      BY <1>4, <2>1, <2>3, <2>5, <3>1 DEF Asks
    <3>4. RestTypes'
      BY <1>5, <1>6, <2>1, <2>5, <3>1
    <3> QED
      BY <1>4, <2>1, <2>5, <3>1, <3>2, <3>3, <3>4, AskKeepsDash
  <2>7. CASE ~GoesOn(c)
    <3>1. /\ waiting' = [waiting EXCEPT ![c] = TRUE]
          /\ reqs' = [reqs EXCEPT ![c] = <<>>]
          /\ UNCHANGED <<path, next, asked, completes>>
      BY <1>9, <2>3, <2>7 DEF ytdl__dash_segment_complete_cb
    <3>2. /\ waiting' \in [Streams -> BOOLEAN] /\ waiting'[c]
          /\ \A d \in Streams : d # c => waiting'[d] = waiting[d]
      BY <1>6, <3>1
    <3>3. RestTypes'
      BY <1>5, <1>6, <2>1, <2>5, <3>2
    <3>4. <<>> \in Seq(Segments(mpd) \cup {ManifestRequest})
      BY EmptySeq
    <3>5. ChunkTypes' /\ reqs'[c] = <<>>
          /\ \A d \in Streams : d # c => reqs'[d] = reqs[d]
      BY <1>1, <1>4, <3>1, <3>4 DEF ChunkTypes
    <3>6. ASSUME NEW d \in Streams, d # c PROVE StreamInv(d)'
      <4>1. Stays(d)
        BY <1>4, <2>1, <2>5, <3>1, <3>2, <3>5, <3>6 DEF Stays
      <4> QED
        BY <1>1, <4>1, StreamStays
    <3>7. IteratorInv(c)'
      BY <1>4, <2>2, <3>1 DEF LoadedInv, IteratorInv
    <3>8. RequestInv(c)'
      BY <2>1, <2>3, <2>5, <3>1, <3>5 DEF RequestInv
    <3>9. HandedInv(c)'
      <4>1. got[c] \in Seq(Segments(mpd)) /\ Len(got[c]) \in Nat
        BY <1>1, LenProperties DEF ChunkTypes
      <4>2. ~odd[c] => IsPrefix(got[c], asked[c])
        BY <2>2 DEF HandedInv
      <4>3. asked'[c] = asked[c] /\ got'[c] = got[c] /\ odd'[c] = odd[c]
            /\ reqs'[c] = <<>>
        BY <1>4, <3>1, <3>5
      <4>4. ~odd[c] => Len(asked[c]) = Len(got[c]) + 0
        BY <2>4, <4>1
      <4> QED
        BY <4>2, <4>3, <4>4 DEF HandedInv
    <3>10. LoadedInv(c)'
      BY <1>4, <2>2, <3>1, <3>7, <3>8, <3>9 DEF LoadedInv
    <3>11. StreamInv(c)'
      BY <1>1, <1>4, <2>1, <3>10 DEF StreamInv
    <3>12. StageInv'
      BY <1>1, <1>4, <2>1 DEF StageInv, Streams
    <3>13. \A d \in Streams : StreamInv(d)'
      BY <3>6, <3>11
    <3> QED
      BY <3>3, <3>5, <3>12, <3>13, DashFromParts
  <2> QED
    BY <2>6, <2>7
<1>10. CASE UserNextChunk(c)
  BY <1>8, <1>10 DEF UserNextChunk, httpVars
<1> QED
  BY <1>7, <1>9, <1>10

LEMMA EchoKeepsDash ==
  ASSUME DashInv, NEW c \in Streams, ytdl__dash_echo_cb(c)
  PROVE  DashInv'
<1>1. RestTypes /\ ChunkTypes /\ StageInv /\ \A d \in Streams : StreamInv(d)
  BY TypesTogether DEF DashInv
<1>2. /\ stage[c] = "segments" /\ reqs[c] # <<>> /\ ~body[c]
      /\ body' = [body EXCEPT ![c] = TRUE]
  BY DEF ytdl__dash_echo_cb, Answering
<1>3. \/ got' = [got EXCEPT ![c] = Append(got[c], Head(reqs[c]))] /\ odd' = odd
      \/ odd' = [odd EXCEPT ![c] = TRUE] /\ got' = got
  BY DEF ytdl__dash_echo_cb
<1>4. UNCHANGED <<mpd, pause, net, on_closed, stage, manifest, is_shutdown,
                  is_dash_init, path, next, reqs, asked, completes, waiting,
                  shutdown, uaf>>
  BY DEF ytdl__dash_echo_cb, fixedVars, httpVars, iterVars
<1>5. LoadedInv(c) /\ RequestInv(c) /\ HandedInv(c) /\ on_closed[c] # "manifest"
  BY <1>1, <1>2 DEF StreamInv, LoadedInv
<1> DEFINE S == Segments(mpd)
           a == asked[c]
           g == got[c]
           x == Head(reqs[c])
<1>6. /\ a \in Seq(S) /\ g \in Seq(S) /\ Len(a) \in Nat /\ Len(g) \in Nat
      /\ got \in [Streams -> Seq(S)]
  BY <1>1, LenProperties DEF ChunkTypes
<1>7. a # <<>> /\ x = a[Len(a)]
  <2>1. a # <<>> /\ reqs[c] = <<a[Len(a)]>>
    BY <1>2, <1>5 DEF RequestInv
  <2> QED
    BY <2>1
<1> HIDE DEF S, a, g, x
<1>8. x \in S
  <2>1. Len(a) \in 1..Len(a)
    BY <1>6, <1>7, EmptySeq
  <2> QED
    BY <1>6, <1>7, <2>1, ElementOfSeq
<1>9. ~odd[c] => IsPrefix(g, a) /\ Len(a) = Len(g) + 1
  BY <1>2, <1>5 DEF HandedInv, a, g
<1>10. ~odd[c] => IsPrefix(Append(g, x), a)
  BY <1>6, <1>7, <1>9, PrefixGrows
<1>11. Append(g, x) \in Seq(S) /\ Len(Append(g, x)) = Len(g) + 1
  BY <1>6, <1>8, AppendProperties
<1>12. /\ got' \in [Streams -> Seq(S)]
       /\ \A d \in Streams : d # c => got'[d] = got[d]
       /\ got'[c] = Append(g, x) \/ (odd'[c] /\ got'[c] = g)
  <2>1. odd \in [Streams -> BOOLEAN]
    BY <1>1 DEF RestTypes
  <2>2. CASE got' = [got EXCEPT ![c] = Append(g, x)]
    BY <1>6, <1>11, <2>2
  <2>3. CASE odd' = [odd EXCEPT ![c] = TRUE] /\ got' = got
    BY <1>6, <2>1, <2>3 DEF g
  <2> QED
    BY <1>3, <2>2, <2>3 DEF g, x
<1>13. /\ odd' \in [Streams -> BOOLEAN] /\ (odd[c] => odd'[c])
       /\ \A d \in Streams : d # c => odd'[d] = odd[d]
  BY <1>1, <1>3 DEF RestTypes
<1>14. /\ body' \in [Streams -> BOOLEAN] /\ body'[c]
       /\ \A d \in Streams : d # c => body'[d] = body[d]
  BY <1>1, <1>2 DEF RestTypes
<1>15. RestTypes'
  <2>1. uaf' \in BOOLEAN
    BY <1>1, <1>4, Zenon DEF RestTypes
  <2>2. /\ pause' \in [Streams -> BOOLEAN] /\ is_shutdown' \in [Streams -> BOOLEAN]
        /\ is_dash_init' \in [Streams -> BOOLEAN] /\ waiting' \in [Streams -> BOOLEAN]
    BY <1>1, <1>4 DEF RestTypes
  <2> QED
    BY <1>1, <1>4, <1>13, <1>14, <2>1, <2>2 DEF RestTypes
<1>16. ChunkTypes'
  BY <1>1, <1>4, <1>12 DEF ChunkTypes, S
<1>17. ASSUME NEW d \in Streams, d # c PROVE StreamInv(d)'
  <2>1. Stays(d)
    BY <1>4, <1>12, <1>13, <1>14, <1>17 DEF Stays
  <2> QED
    BY <1>1, <2>1, StreamStays
<1>18. LoadedInv(c)'
  <2>1. IteratorInv(c)'
    BY <1>4, <1>5 DEF LoadedInv, IteratorInv
  <2>2. RequestInv(c)'
    BY <1>2, <1>4, <1>5 DEF RequestInv
  <2>3. HandedInv(c)'
    <3>1. ~odd'[c] => /\ got'[c] = Append(g, x) /\ IsPrefix(Append(g, x), a)
                      /\ Len(a) = Len(Append(g, x)) + 0
      BY <1>6, <1>9, <1>10, <1>11, <1>12, <1>13
    <3>2. asked'[c] = a
      BY <1>4 DEF a
    <3> QED
      BY <1>14, <3>1, <3>2 DEF HandedInv
  <2> QED
    BY <1>4, <1>5, <2>1, <2>2, <2>3 DEF LoadedInv
<1>19. StreamInv(c)'
  BY <1>2, <1>4, <1>5, <1>18 DEF StreamInv
<1>20. StageInv'
  BY <1>1, <1>4 DEF StageInv
<1>21. \A d \in Streams : StreamInv(d)'
  BY <1>17, <1>19
<1> QED
  BY <1>15, <1>16, <1>20, <1>21, DashFromParts

LEMMA DashInit == Init => DashInv
<1> SUFFICES ASSUME Init PROVE DashInv
  OBVIOUS
<1>1. RestTypes
  <2>1. uaf \in BOOLEAN
    BY Zenon DEF Init
  <2>2. /\ is_shutdown \in [Streams -> BOOLEAN] /\ is_dash_init \in [Streams -> BOOLEAN]
        /\ body \in [Streams -> BOOLEAN] /\ waiting \in [Streams -> BOOLEAN]
        /\ odd \in [Streams -> BOOLEAN] /\ pause \in [Streams -> BOOLEAN]
    BY DEF Init
  <2>3. /\ net \in [Streams -> {"none", "new", "connecting", "up", "failed", "lost",
                                "closing", "closed", "crashed"}]
        /\ on_closed \in [Streams -> {"none", "manifest", "final"}]
        /\ stage \in [Streams -> {"manifest", "segments"}]
        /\ shutdown \in [Streams -> {"no", "requested", "done"}]
        /\ mpd \in Manifests
    BY DEF Init
  <2>4. manifest \in [Streams -> 0..MaxPieces]
    BY DashAssumption DEF Init
  <2> QED
    BY <2>1, <2>2, <2>3, <2>4 DEF RestTypes
<1>2. ChunkTypes
  <2>1. \A c \in Streams : 1 \in 1..(Len(Whole(mpd, c)) + 1)
    BY <1>1, SegmentFacts DEF RestTypes
  <2>2. <<>> \in Seq(Segments(mpd) \cup {ManifestRequest}) /\ <<>> \in Seq(Segments(mpd))
    BY EmptySeq
  <2> QED
    BY <2>1, <2>2 DEF Init, ChunkTypes
<1>3. StageInv
  BY DEF Init, StageInv, Streams
<1>4. \A c \in Streams : StreamInv(c)
  BY DEF Init, StreamInv, Unloaded
<1> QED
  BY <1>1, <1>2, <1>3, <1>4, TypesTogether DEF DashInv

LEMMA DashStep == DashInv /\ [Next]_vars => DashInv'
<1> SUFFICES ASSUME DashInv, [Next]_vars PROVE DashInv'
  OBVIOUS
<1>1. CASE UNCHANGED vars
  <2>1. RestTypes /\ ChunkTypes /\ StageInv
    BY TypesTogether DEF DashInv
  <2>2. OnlyNet /\ UNCHANGED <<net, on_closed, manifest, is_shutdown, shutdown, reqs>>
    BY <1>1 DEF vars, OnlyNet, fixedVars, httpVars, iterVars, requestVars
  <2>3. StageInv'
    BY <2>1, <2>2 DEF StageInv, OnlyNet
  <2>4. /\ net \in [Streams -> {"none", "new", "connecting", "up", "failed", "lost",
                                "closing", "closed", "crashed"}]
        /\ on_closed \in [Streams -> {"none", "manifest", "final"}]
        /\ manifest \in [Streams -> 0..MaxPieces]
        /\ is_shutdown \in [Streams -> BOOLEAN]
        /\ shutdown \in [Streams -> {"no", "requested", "done"}]
        /\ reqs \in [Streams -> Seq(Segments(mpd) \cup {ManifestRequest})]
    BY <2>1 DEF RestTypes, ChunkTypes
  <2> QED
    BY <2>2, <2>3, <2>4, OnlyNetStays
<1>2. CASE ytdl_dl_dash_ctx_connect
  BY <1>2, ManifestKeepsDash DEF Streams
<1>3. CASE ytdl__dash_close_cb
  BY <1>3, ForkKeepsDash, CrashKeepsDash
<1>4. ASSUME NEW c \in Streams, Callback(c) PROVE DashInv'
  BY <1>4, ManifestKeepsDash, SegmentKeepsDash, EchoKeepsDash, TeardownKeepsDash
  DEF Callback, Answer, Teardown
<1>5. ASSUME NEW c \in Streams,
             UserNextChunk(c) \/ ytdl__status_cb(c) \/ ytdl_dl_dash_shutdown(c)
      PROVE  DashInv'
  BY <1>5, SegmentKeepsDash, TeardownKeepsDash
<1> QED
  BY <1>1, <1>2, <1>3, <1>4, <1>5 DEF Next

LEMMA DashInvariant == Spec => []DashInv
<1>1. Init => DashInv
  BY DashInit
<1>2. DashInv /\ [Next]_vars => DashInv'
  BY DashStep
<1> QED
  BY <1>1, <1>2, PTL DEF Spec

-----------------------------------------------------------------------------
(* Where the manifest leads.                                               *)

(* The segments are reached with a base URL for both streams, and the      *)
(* program crashes without one.                                            *)
Placed ==
  \A c \in Streams : /\ stage[c] = "segments" => Located(mpd)
                     /\ net[c] = "crashed" => ~Located(mpd)

(* Nothing but the manifest's close callback can disturb this.             *)
OnItsWay ==
  /\ mpd' = mpd /\ stage' = stage
  /\ \/ net' = net
     \/ \E c \in Streams, n \in {"up", "connecting", "closing", "closed", "failed",
                               "lost"} : net' = [net EXCEPT ![c] = n]

LEMMA PlacedStays ==
  ASSUME TypeOK, Placed, OnItsWay
  PROVE  Placed'
<1>1. net \in [Streams -> {"none", "new", "connecting", "up", "failed", "lost",
                          "closing", "closed", "crashed"}]
  BY DEF TypeOK
<1>2. \A d \in Streams : net'[d] = "crashed" => net[d] = "crashed"
  BY <1>1 DEF OnItsWay
<1> QED
  BY <1>2 DEF Placed, OnItsWay

LEMMA PlacedInvariant == Spec => []Placed
<1>1. Init => Placed
  <2> SUFFICES ASSUME Init, NEW c \in Streams
               PROVE  stage[c] = "manifest" /\ net[c] # "crashed"
    BY DEF Placed
  <2> QED
    BY DEF Init
<1>2. TypeOK /\ Placed /\ [Next]_vars => Placed'
  <2> SUFFICES ASSUME TypeOK, Placed, [Next]_vars PROVE Placed'
    OBVIOUS
  <2>1. CASE UNCHANGED vars
    BY <2>1, PlacedStays DEF vars, fixedVars, httpVars, OnItsWay
  <2>2. CASE ytdl_dl_dash_ctx_connect
    BY <2>2, PlacedStays DEF ytdl_dl_dash_ctx_connect, fixedVars, OnItsWay, Streams
  <2>3. CASE ytdl__dash_close_cb
    <3>1. mpd' = mpd
      BY <2>3 DEF ytdl__dash_close_cb, fixedVars
    <3>2. CASE Located(mpd)
      <4>1. ytdl_dl_dash_load_fork(Streams)
        BY <2>3, <3>2 DEF ytdl__dash_close_cb, ForkedOnManifest
      <4>2. PICK parsed \in SUBSET Streams :
              net' = [c \in Streams |-> CASE c \in parsed -> "connecting"
                                          [] c \in Streams \ parsed -> "new"
                                          [] c \notin Streams -> net[c]]
        BY <4>1 DEF ytdl_dl_dash_load_fork
      <4>3. \A c \in Streams : net'[c] # "crashed"
        BY <4>2
      <4> QED
        BY <3>1, <3>2, <4>3 DEF Placed
    <3>3. CASE ~Located(mpd)
      <4>1. stage' = stage
        BY <2>3, <3>3 DEF ytdl__dash_close_cb, Crashed
      <4> QED
        BY <3>1, <3>3, <4>1 DEF Placed
    <3> QED
      BY <3>2, <3>3
  <2>4. ASSUME NEW c \in Streams, Callback(c) PROVE Placed'
    <3>1. OnItsWay
      BY <2>4 DEF Callback, Answer, Teardown, OnItsWay, fixedVars, httpVars,
                  ytdl__dash_manifest_connected_cb, ytdl__dash_manifest_cb,
                  ytdl__dash_manifest_complete_cb, ytdl__dash_segment_connected_cb,
                  ytdl__dash_echo_cb, ytdl__dash_segment_complete_cb,
                  ytdl__dl_dash_shutdown, ytdl__dash_close_f_cb
    <3> QED
      BY <3>1, PlacedStays
  <2>5. ASSUME NEW c \in Streams,
               UserNextChunk(c) \/ ytdl__status_cb(c) \/ ytdl_dl_dash_shutdown(c)
        PROVE  Placed'
    <3>1. OnItsWay
      BY <2>5 DEF UserNextChunk, ytdl__status_cb, ytdl_dl_dash_shutdown, OnItsWay,
                  fixedVars, httpVars
    <3> QED
      BY <3>1, PlacedStays
  <2> QED
    BY <2>1, <2>2, <2>3, <2>4, <2>5 DEF Next
<1>3. DashInv => TypeOK
  BY DEF DashInv
<1> QED
  BY <1>1, <1>2, <1>3, DashInvariant, PTL DEF Spec

-----------------------------------------------------------------------------
(* The results.                                                            *)

(* src/dash.c picks the first representation with the greatest bandwidth   *)
(* among all sets of a stream's media, whatever the manifest.              *)
THEOREM BestIsPicked ==
  ASSUME NEW m \in Manifests, NEW c \in Streams
  PROVE  Picked(m, c) = Best(m, c)
<1> QED
  BY PickedIsBest

(* ytdl_dl_dash_ctx_next_chunk and its callers: each stream asks for the   *)
(* segments of its representation one by one, in order, hands them over    *)
(* in that order and completes once; where the best representation of a    *)
(* stream has no base URL, and only there, ytdl_dl_dash_load_fork ends the *)
(* program instead.                                                        *)
THEOREM SegmentsArriveInOrder == Spec => []SegmentsInOrder
<1>1. DashInv /\ Placed => SegmentsInOrder
  <2> SUFFICES ASSUME DashInv, Placed PROVE SegmentsInOrder
    OBVIOUS
  <2>1. TypeOK /\ ChunkTypes /\ RestTypes
    BY TypesTogether DEF DashInv
  <2>2. ASSUME NEW c \in Streams
        PROVE  /\ stage[c] = "segments" =>
                    /\ IsPrefix(asked[c], Whole(mpd, c))
                    /\ ~odd[c] => /\ IsPrefix(got[c], asked[c])
                                  /\ Len(asked[c]) - Len(got[c]) \in {0, 1}
                    /\ Len(reqs[c]) <= 1
               /\ completes[c] <= 1
               /\ completes[c] = 1 =>
                    /\ reqs[c] = <<>>
                    /\ (AllMedia(mpd, c) /\ ~odd[c]) => got[c] = Whole(mpd, c)
    <3> DEFINE a == asked[c]
               g == got[c]
               W == Whole(mpd, c)
               S == Segments(mpd)
    <3>1. /\ a \in Seq(S) /\ g \in Seq(S) /\ W \in Seq(S)
          /\ Len(a) \in Nat /\ Len(g) \in Nat /\ Len(W) \in Nat
      BY <2>1, SegmentFacts, LenProperties DEF ChunkTypes, RestTypes
    <3>2. CASE stage[c] = "manifest"
      BY <3>2 DEF DashInv, StreamInv, Unloaded
    <3>3. CASE stage[c] = "segments"
      <4>1. LoadedInv(c) /\ RequestInv(c) /\ HandedInv(c)
        BY <3>3 DEF DashInv, StreamInv, LoadedInv
      <4>2. IsPrefix(a, W) /\ completes[c] <= 1
        BY <4>1 DEF LoadedInv
      <4>3. Len(reqs[c]) <= 1
        <5>1. reqs[c] = <<>> \/ reqs[c] = <<a[Len(a)]>>
          BY <4>1 DEF RequestInv
        <5> DEFINE x == a[Len(a)]
        <5> HIDE DEF x
        <5>2. CASE reqs[c] = <<>>
          BY <5>2
        <5>3. CASE reqs[c] = <<x>>
          BY <5>3
        <5> QED
          BY <5>1, <5>2, <5>3 DEF x
      <4>4. ~odd[c] => /\ IsPrefix(g, a)
                       /\ Len(a) = Len(g) + IF reqs[c] # <<>> /\ ~body[c] THEN 1 ELSE 0
        BY <4>1 DEF HandedInv
      <4>5. completes[c] = 1 => reqs[c] = <<>>
        BY <4>1 DEF RequestInv
      <4>6. completes[c] = 1 /\ AllMedia(mpd, c) => Len(a) = Len(W)
        BY <4>1 DEF LoadedInv
      <4> HIDE DEF a, g, W, S
      <4>7. ~odd[c] => Len(a) - Len(g) \in {0, 1}
        BY <3>1, <4>4
      <4>8. completes[c] = 1 /\ AllMedia(mpd, c) /\ ~odd[c] => g = W
        <5>1. SUFFICES ASSUME completes[c] = 1, AllMedia(mpd, c), ~odd[c] PROVE g = W
          OBVIOUS
        <5>2. Len(a) = Len(W) /\ Len(a) = Len(g) /\ IsPrefix(g, a)
          BY <3>1, <4>4, <4>5, <4>6, <5>1
        <5>3. a = W
          BY <3>1, <4>2, <5>2, PrefixIsAll
        <5>4. g = a
          BY <3>1, <5>2, PrefixIsAll
        <5> QED
          BY <5>3, <5>4
      <4> QED
        BY <3>3, <4>2, <4>3, <4>4, <4>5, <4>7, <4>8 DEF a, g, W
    <3> QED
      BY <2>1, <3>2, <3>3 DEF RestTypes
  <2>3. Unlocated(mpd) <=> ~Located(mpd)
    BY <2>1, BestIsPicked DEF Unlocated, Located, RestTypes
  <2> QED
    BY <2>1, <2>2, <2>3 DEF SegmentsInOrder, Placed
<1> QED
  BY <1>1, DashInvariant, PlacedInvariant, PTL

(* If users shut a context down only after on_complete, as src/cli.c does, *)
(* the manifest's close callback never finds its context freed.            *)
THEOREM FreedContextIsUnused ==
  ASSUME ~EarlyShutdown
  PROVE  Spec => []NoUseAfterFree
<1> DEFINE Late == /\ ~uaf
                   /\ \A c \in Streams : shutdown[c] # "no" => completes[c] > 0
<1>1. Init => Late
  BY DEF Init
<1>2. DashInv /\ Late /\ [Next]_vars => Late'
  <2> SUFFICES ASSUME DashInv, Late, [Next]_vars PROVE Late'
    OBVIOUS
  <2>1. /\ completes \in [Streams -> Nat] /\ "audio" \in Streams
        /\ shutdown \in [Streams -> {"no", "requested", "done"}]
    BY DEF DashInv, TypeOK, Streams
  <2>2. ASSUME completes' = completes, shutdown' = shutdown, uaf' = uaf PROVE Late'
    BY <2>2
  <2>3. ASSUME NEW c \in Streams, NEW q, ytdl_dl_dash_ctx_next_chunk(c, q),
               shutdown' = shutdown, uaf' = uaf
        PROVE  Late'
    <3>1. completes' = completes \/ completes' = [completes EXCEPT ![c] = @ + 1]
      BY <2>3 DEF ytdl_dl_dash_ctx_next_chunk, AskInitial, AskListed, Complete, Ask
    <3>2. \A d \in Streams : completes[d] > 0 => completes'[d] > 0
      BY <2>1, <3>1
    <3> QED
      BY <2>3, <3>2
  <2>4. CASE UNCHANGED vars
    BY <2>2, <2>4 DEF vars, requestVars
  <2>5. CASE ytdl_dl_dash_ctx_connect
    BY <2>2, <2>5 DEF ytdl_dl_dash_ctx_connect, requestVars
  <2>6. CASE ytdl__dash_close_cb
    <3>1. completes["audio"] = 0
      <4>1. on_closed["audio"] = "manifest" /\ StreamInv("audio") /\ TypeOK
        BY <2>1, <2>6 DEF ytdl__dash_close_cb, DashInv
      <4>2. stage["audio"] = "manifest"
        BY <2>1, <4>1 DEF StreamInv, TypeOK
      <4> QED
        BY <4>1, <4>2 DEF StreamInv, Unloaded
    <3>2. shutdown["audio"] = "no"
      BY <2>1, <3>1
    <3>3. uaf' = (uaf \/ shutdown["audio"] = "done")
      BY <2>6 DEF ytdl__dash_close_cb
    <3>4. completes' = completes /\ shutdown' = shutdown
      BY <2>6 DEF ytdl__dash_close_cb
    <3>5. ~uaf'
      BY <3>2, <3>3
    <3> QED
      BY <3>4, <3>5
  <2>7. ASSUME NEW c \in Streams, Callback(c) PROVE Late'
    <3>1. CASE \/ ytdl__dash_manifest_connected_cb(c)
               \/ ytdl__dash_manifest_cb(c)
               \/ ytdl__dash_manifest_complete_cb(c)
               \/ ytdl__dash_echo_cb(c)
               \/ ytdl__dash_close_f_cb(c)
      <4>1. completes' = completes /\ shutdown' = shutdown /\ uaf' = uaf
        BY <3>1 DEF ytdl__dash_manifest_connected_cb, ytdl__dash_manifest_cb,
                    ytdl__dash_manifest_complete_cb, ytdl__dash_echo_cb,
                    ytdl__dash_close_f_cb, requestVars
      <4> QED
        BY <2>2, <4>1
    <3>2. CASE ytdl__dash_segment_connected_cb(c)
      BY <2>3, <3>2 DEF ytdl__dash_segment_connected_cb
    <3>3. CASE ytdl__dash_segment_complete_cb(c)
      <4>1. shutdown' = shutdown /\ uaf' = uaf
        BY <3>3 DEF ytdl__dash_segment_complete_cb
      <4>2. \/ ytdl_dl_dash_ctx_next_chunk(c, Tail(reqs[c]))
            \/ completes' = completes
        BY <3>3 DEF ytdl__dash_segment_complete_cb
      <4> QED
        BY <2>2, <2>3, <4>1, <4>2
    <3>4. CASE ytdl__dl_dash_shutdown(c)
      <4>1. /\ shutdown[c] = "requested" /\ shutdown' = [shutdown EXCEPT ![c] = "done"]
            /\ completes' = completes /\ uaf' = uaf
        BY <3>4 DEF ytdl__dl_dash_shutdown, requestVars
      <4> QED
        BY <2>1, <4>1
    <3> QED
      BY <2>7, <3>1, <3>2, <3>3, <3>4 DEF Callback, Answer, Teardown
  <2>8. ASSUME NEW c \in Streams, UserNextChunk(c) PROVE Late'
    BY <2>3, <2>8 DEF UserNextChunk
  <2>9. ASSUME NEW c \in Streams, ytdl__status_cb(c) PROVE Late'
    BY <2>2, <2>9 DEF ytdl__status_cb, requestVars
  <2>10. ASSUME NEW c \in Streams, ytdl_dl_dash_shutdown(c) PROVE Late'
    <3>1. /\ completes[c] > 0 /\ shutdown' = [shutdown EXCEPT ![c] = "requested"]
          /\ completes' = completes /\ uaf' = uaf
      BY <2>10 DEF ytdl_dl_dash_shutdown, requestVars
    <3> QED
      BY <2>1, <3>1
  <2> QED
    BY <2>4, <2>5, <2>6, <2>7, <2>8, <2>9, <2>10 DEF Next
<1>3. Late => NoUseAfterFree
  BY DEF NoUseAfterFree
<1> QED
  BY <1>1, <1>2, <1>3, DashInvariant, PTL DEF Spec
=============================================================================
