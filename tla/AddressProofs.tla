--------------------------- MODULE AddressProofs ---------------------------
(***************************************************************************)
(* Proofs about the addresses the library works with.  Of media: FormatUrl *)
(* completes them as the player's own code would, for the best formats of  *)
(* any list.  Of pages: UrlParser takes any URL apart at its delimiters    *)
(* (UrlInv), and VideoId finds in it the id that is written (IdRight).     *)
(***************************************************************************)
EXTENDS FormatUrl, VideoId, Integers, NaturalsInduction,
        WellFoundedInduction, SequenceTheorems, TLAPS

-----------------------------------------------------------------------------
(* Loops.                                                                  *)

(* The least number of a set, and induction for sets of numbers.           *)
LEMMA NatMin ==
  ASSUME NEW T, T \subseteq Nat, T # {}
  PROVE  \E m \in T : \A n \in T : m <= n
<1> DEFINE R == OpToRel(<, Nat)
<1>1. IsWellFoundedOn(R, Nat)
  BY NatLessThanWellFounded
<1>2. PICK m \in T : \A n \in T : ~(<<n, m>> \in R)
  <2> HIDE DEF R
  <2> QED
    BY <1>1, WFMin, Zenon
<1>3. \A n \in T : m <= n
  <2> TAKE n \in T
  <2>1. ~(n < m)
    BY <1>2 DEF OpToRel
  <2> QED
    BY <2>1
<1> QED
  BY <1>3

LEMMA NatInd ==
  ASSUME NEW S, 0 \in S, \A n \in Nat : n \in S => n + 1 \in S
  PROVE  \A n \in Nat : n \in S
<1> DEFINE T == {n \in Nat : n \notin S}
<1> SUFFICES ASSUME T # {} PROVE FALSE
  OBVIOUS
<1>1. PICK m \in T : \A n \in T : m <= n
  <2> HIDE DEF T
  <2>1. T \subseteq Nat
    BY DEF T
  <2> QED
    BY <2>1, NatMin
<1>2. m # 0 /\ m - 1 \in Nat /\ m - 1 \notin T
  BY <1>1
<1> QED
  BY <1>2

(* A function on 0..N whose value at n depends on n and on its value       *)
(* before.                                                                 *)
Recursion(S, b, N, F) ==
  {g \in [0..N -> S] : g[0] = b /\ \A n \in 1..N : g[n] = F[n][g[n - 1]]}

LEMMA Recursed ==
  ASSUME NEW S, NEW b \in S, NEW N \in Nat, NEW F \in [1..N -> [S -> S]]
  PROVE  Recursion(S, b, N, F) # {}
<1> DEFINE Upto(n) == {g \in [0..n -> S] :
                         g[0] = b /\ \A k \in 1..n : g[k] = F[k][g[k - 1]]}
           I == {n \in Nat : n <= N => Upto(n) # {}}
<1>1. 0 \in I
  <2>1. [k \in 0..0 |-> b] \in Upto(0)
    OBVIOUS
  <2> QED
    BY <2>1
<1>2. ASSUME NEW n \in Nat, n \in I PROVE n + 1 \in I
  <2>1. SUFFICES ASSUME n + 1 <= N PROVE Upto(n + 1) # {}
    OBVIOUS
  <2>2. PICK g \in [0..n -> S] : g[0] = b /\ \A k \in 1..n : g[k] = F[k][g[k - 1]]
    BY <1>2, <2>1
  <2> DEFINE h == [k \in 0..n + 1 |-> IF k <= n THEN g[k] ELSE F[n + 1][g[n]]]
  <2>3. n + 1 \in 1..N /\ F[n + 1] \in [S -> S] /\ g[n] \in S
    BY <2>1, <2>2
  <2>4. h \in [0..n + 1 -> S] /\ h[0] = b
    BY <2>2, <2>3
  <2>5. ASSUME NEW k \in 1..n + 1 PROVE h[k] = F[k][h[k - 1]]
    <3>1. CASE k = n + 1
      <4>1. h[k] = F[n + 1][g[n]] /\ h[k - 1] = g[n]
        BY <3>1
      <4> QED
        BY <3>1, <4>1
    <3>2. CASE k # n + 1
      <4>1. k \in 1..n /\ h[k] = g[k] /\ h[k - 1] = g[k - 1]
        BY <3>2
      <4> QED
        BY <2>2, <4>1
    <3> QED
      BY <3>1, <3>2
  <2>6. h \in Upto(n + 1)
    BY <2>4, <2>5
  <2> QED
    BY <2>6
<1>3. \A n \in Nat : n \in I
  <2> HIDE DEF I
  <2> QED
    BY <1>1, <1>2, NatInd
<1>4. Upto(N) # {}
  <2> HIDE DEF Upto
  <2>1. N \in I
    <3> HIDE DEF I
    <3> QED
      BY <1>3
  <2> QED
    BY <2>1
<1> QED
  BY <1>4 DEF Recursion

-----------------------------------------------------------------------------

(* A function whose steps stay in S, value by value.                       *)
LEMMA Unrolled ==
  ASSUME NEW S, NEW b, NEW N \in Nat, NEW F \in [1..N -> [S -> S]],
         NEW g \in Recursion(S, b, N, F)
  PROVE  /\ g \in [0..N -> S] /\ g[0] = b
         /\ \A i \in 1..N : g[i] = F[i][g[i - 1]] /\ g[i - 1] \in S
<1>1. g \in [0..N -> S] /\ g[0] = b /\ \A i \in 1..N : g[i] = F[i][g[i - 1]]
  BY DEF Recursion
<1>2. \A i \in 1..N : g[i - 1] \in S
  BY <1>1
<1> QED
  BY <1>1, <1>2

-----------------------------------------------------------------------------
(* The choice of formats.                                                  *)

Candidates == [idx : Nat, score : Int]

(* What a list says of its formats.                                        *)
LEMMA FormatFacts ==
  ASSUME formats \in Seq(Format), NEW i \in 1..Len(formats)
  PROVE  /\ formats[i] \in Format
         /\ formats[i].vid \in BOOLEAN /\ formats[i].aud \in BOOLEAN
         /\ Size(formats[i]) \in Nat
         /\ VideoScore(formats[i]) = Size(formats[i]) + 2
         /\ ~DividesByZero(formats[i]) =>
              /\ AudioOnly(formats[i]) =>
                   /\ Rate(formats[i]) \in Nat
                   /\ AudioScore(formats[i]) = -Rate(formats[i])
              /\ formats[i].aud => AudioScore(formats[i]) \in Int
              /\ formats[i].vid => AudioScore(formats[i]) = Size(formats[i]) + 2
<1>1. formats[i] \in Format
  BY ElementOfSeq
<1> DEFINE f == formats[i]
<1>2. /\ f.vid \in BOOLEAN /\ f.aud \in BOOLEAN /\ f.width \in Nat /\ f.fps \in Nat
      /\ f.bitrate \in Nat /\ f.channels \in Nat /\ f.audio_quality \in Nat
  BY <1>1 DEF Format
<1>3. Size(f) \in Nat /\ VideoScore(f) = Size(f) + 2
  BY <1>2 DEF Size, VideoScore
<1>4. f.bitrate * f.channels \in Nat
  BY <1>2
<1>5. ASSUME NEW x \in Nat, NEW y \in Nat, y # 0
      PROVE  x \div y \in Nat
  BY <1>5
<1>6. ASSUME ~DividesByZero(f), AudioOnly(f)
      PROVE  Rate(f) \in Nat /\ AudioScore(f) = -Rate(f)
  <2>1. f.audio_quality # 0 /\ ~f.vid
    BY <1>6 DEF DividesByZero, AudioOnly
  <2>2. Rate(f) \in Nat
    BY <1>2, <1>4, <1>5, <2>1 DEF Rate
  <2> QED
    BY <2>1, <2>2 DEF AudioScore, Rate
<1>7. f.vid => AudioScore(f) = Size(f) + 2
  BY <1>3 DEF AudioScore
<1>8. ~DividesByZero(f) /\ f.aud => AudioScore(f) \in Int
  BY <1>2, <1>3, <1>6, <1>7 DEF AudioOnly
<1> QED
  BY <1>1, <1>2, <1>3, <1>6, <1>7, <1>8

(* After i formats the candidate is the best video format among them.      *)
VideoBest(best, i) ==
  /\ best \in Candidates
  /\ \/ /\ best = FirstChoice
        /\ \A j \in 1..i : ~formats[j].vid
     \/ /\ best.idx \in 1..i /\ formats[best.idx].vid
        /\ best.score = VideoScore(formats[best.idx])
        /\ \A j \in 1..i : formats[j].vid => VideoScore(formats[j]) <= best.score

(* After i formats the candidate is the one without video of the highest   *)
(* rate above 0 among them.                                                *)
AudioBest(best, i) ==
  /\ best \in Candidates
  /\ \/ /\ best = FirstChoice
        /\ \A j \in 1..i : AudioOnly(formats[j]) => Rate(formats[j]) = 0
     \/ /\ best.idx \in 1..i /\ AudioOnly(formats[best.idx])
        /\ best.score = -Rate(formats[best.idx]) /\ best.score < 0
        /\ \A j \in 1..i : AudioOnly(formats[j]) =>
             Rate(formats[j]) <= Rate(formats[best.idx])

LEMMA VideoScanned ==
  ASSUME formats \in Seq(Format)
  PROVE  VideoBest(VideoScan[Len(formats)], Len(formats))
<1> DEFINE N == Len(formats)
           F == [i \in 1..N |-> [x \in Candidates |-> Better(x, i)]]
<1>1. N \in Nat
  BY LenProperties
<1>2. FirstChoice \in Candidates
  BY DEF FirstChoice, Candidates
<1>3. ASSUME NEW i \in 1..N, NEW x \in Candidates PROVE Better(x, i) \in Candidates
  BY FormatFacts DEF Better, Candidates
<1>4. F \in [1..N -> [Candidates -> Candidates]]
  BY <1>3
<1>5. ASSUME NEW i \in 1..N, NEW x \in Candidates PROVE F[i][x] = Better(x, i)
  OBVIOUS
<1> HIDE DEF N, F
<1>6. PICK g : g \in Recursion(Candidates, FirstChoice, N, F)
  BY <1>1, <1>2, <1>4, Recursed
<1>7. /\ g \in [0..N -> Candidates] /\ g[0] = FirstChoice
      /\ \A i \in 1..N : g[i] = Better(g[i - 1], i)
  <2>1. /\ g \in [0..N -> Candidates] /\ g[0] = FirstChoice
        /\ \A i \in 1..N : g[i] = F[i][g[i - 1]] /\ g[i - 1] \in Candidates
    BY <1>1, <1>4, <1>6, Unrolled
  <2> QED
    BY <1>5, <2>1
<1>8. g = [i \in 0..N |-> IF i = 0 THEN FirstChoice ELSE Better(g[i - 1], i)]
  <2>1. \A i \in 0..N : g[i] = IF i = 0 THEN FirstChoice ELSE Better(g[i - 1], i)
    BY <1>1, <1>7
  <2> QED
    BY <1>7, <2>1
<1>9. VideoScan = [i \in 0..N |-> IF i = 0 THEN FirstChoice ELSE Better(VideoScan[i - 1], i)]
  <2> DEFINE Scan == CHOOSE h : h = [i \in 0..N |-> IF i = 0 THEN FirstChoice
                                                    ELSE Better(h[i - 1], i)]
  <2>1. VideoScan = Scan
    BY DEF VideoScan, N
  <2>2. Scan = [i \in 0..N |-> IF i = 0 THEN FirstChoice ELSE Better(Scan[i - 1], i)]
    BY <1>8
  <2> HIDE DEF Scan
  <2> QED
    BY <2>1, <2>2
<1> DEFINE I == {i \in Nat : i <= N => VideoBest(VideoScan[i], i)}
<1>10. 0 \in I
  BY <1>1, <1>2, <1>9 DEF VideoBest
<1>11. ASSUME NEW i \in Nat, i \in I PROVE i + 1 \in I
  <2>1. SUFFICES ASSUME i + 1 <= N PROVE VideoBest(VideoScan[i + 1], i + 1)
    OBVIOUS
  <2> DEFINE x == VideoScan[i]
             k == i + 1
  <2>2. VideoBest(x, i)
    BY <1>1, <1>11, <2>1
  <2>3. VideoScan[k] = Better(x, k)
    BY <1>1, <1>9, <2>1
  <2>4. k \in 1..N /\ Better(x, k) \in Candidates /\ x \in Candidates
    BY <1>3, <2>1, <2>2 DEF VideoBest
  <2> HIDE DEF x
  <2>5. \A j \in 1..k : /\ VideoScore(formats[j]) \in Nat /\ VideoScore(formats[j]) > 0
                        /\ formats[j].vid \in BOOLEAN
    BY <1>1, <2>4, FormatFacts DEF N
  <2>6. VideoBest(Better(x, k), k)
    <3>1. CASE formats[k].vid /\ VideoScore(formats[k]) > x.score
      <4>1. Better(x, k) = [idx |-> k, score |-> VideoScore(formats[k])]
        BY <3>1 DEF Better
      <4>2. ASSUME NEW j \in 1..i, formats[j].vid
            PROVE  VideoScore(formats[j]) <= VideoScore(formats[k])
        <5>1. x.score \in Int /\ VideoScore(formats[k]) \in Nat
          BY <2>4, <2>5 DEF Candidates
        <5>2. VideoScore(formats[j]) <= x.score
          <6>1. ~(\A m \in 1..i : ~formats[m].vid)
            BY <4>2
          <6> QED
            BY <2>2, <4>2, <6>1 DEF VideoBest
        <5>3. j \in 1..k
          OBVIOUS
        <5>4. VideoScore(formats[j]) \in Nat
          BY <2>5, <5>3
        <5> QED
          BY <3>1, <5>1, <5>2, <5>4
      <4> QED
        BY <2>4, <2>5, <3>1, <4>1, <4>2 DEF VideoBest
    <3>2. CASE ~(formats[k].vid /\ VideoScore(formats[k]) > x.score)
      <4>1. Better(x, k) = x
        BY <3>2 DEF Better
      <4>2. CASE x = FirstChoice /\ \A j \in 1..i : ~formats[j].vid
        <5>1. ~formats[k].vid
          BY <2>4, <2>5, <3>2, <4>2 DEF FirstChoice
        <5> QED
          BY <2>4, <4>1, <4>2, <5>1 DEF VideoBest
      <4>3. CASE ~(x = FirstChoice /\ \A j \in 1..i : ~formats[j].vid)
        <5>1. /\ x.idx \in 1..i /\ formats[x.idx].vid
              /\ x.score = VideoScore(formats[x.idx])
              /\ \A j \in 1..i : formats[j].vid => VideoScore(formats[j]) <= x.score
          BY <2>2, <4>3 DEF VideoBest
        <5>2. formats[k].vid => VideoScore(formats[k]) <= x.score
          BY <2>4, <2>5, <3>2 DEF Candidates
        <5> QED
          BY <2>4, <4>1, <5>1, <5>2 DEF VideoBest
      <4> QED
        BY <4>2, <4>3
    <3> QED
      BY <3>1, <3>2
  <2> QED
    BY <2>3, <2>6
<1>12. \A i \in Nat : i \in I
  <2> HIDE DEF I
  <2> QED
    BY <1>10, <1>11, NatInd
<1> QED
  BY <1>1, <1>12 DEF N

LEMMA AudioScanned ==
  ASSUME formats \in Seq(Format), \A i \in DOMAIN formats : ~DividesByZero(formats[i])
  PROVE  AudioBest(AudioScan[Len(formats)], Len(formats))
<1> DEFINE N == Len(formats)
           F == [i \in 1..N |-> [x \in Candidates |-> BetterAudio(x, i)]]
<1>1. N \in Nat /\ DOMAIN formats = 1..N
  BY LenProperties
<1>2. FirstChoice \in Candidates
  BY DEF FirstChoice, Candidates
<1>3. ASSUME NEW i \in 1..N, NEW x \in Candidates PROVE BetterAudio(x, i) \in Candidates
  BY <1>1, FormatFacts DEF BetterAudio, Candidates
<1>4. F \in [1..N -> [Candidates -> Candidates]]
  BY <1>3
<1>5. ASSUME NEW i \in 1..N, NEW x \in Candidates PROVE F[i][x] = BetterAudio(x, i)
  OBVIOUS
<1> HIDE DEF N, F
<1>6. PICK g : g \in Recursion(Candidates, FirstChoice, N, F)
  BY <1>1, <1>2, <1>4, Recursed
<1>7. /\ g \in [0..N -> Candidates] /\ g[0] = FirstChoice
      /\ \A i \in 1..N : g[i] = BetterAudio(g[i - 1], i)
  <2>1. /\ g \in [0..N -> Candidates] /\ g[0] = FirstChoice
        /\ \A i \in 1..N : g[i] = F[i][g[i - 1]] /\ g[i - 1] \in Candidates
    BY <1>1, <1>4, <1>6, Unrolled
  <2> QED
    BY <1>5, <2>1
<1>8. g = [i \in 0..N |-> IF i = 0 THEN FirstChoice ELSE BetterAudio(g[i - 1], i)]
  <2>1. \A i \in 0..N : g[i] = IF i = 0 THEN FirstChoice ELSE BetterAudio(g[i - 1], i)
    BY <1>1, <1>7
  <2> QED
    BY <1>7, <2>1
<1>9. AudioScan = [i \in 0..N |-> IF i = 0 THEN FirstChoice
                                  ELSE BetterAudio(AudioScan[i - 1], i)]
  <2> DEFINE Scan == CHOOSE h : h = [i \in 0..N |-> IF i = 0 THEN FirstChoice
                                                    ELSE BetterAudio(h[i - 1], i)]
  <2>1. AudioScan = Scan
    BY DEF AudioScan, N
  <2>2. Scan = [i \in 0..N |-> IF i = 0 THEN FirstChoice ELSE BetterAudio(Scan[i - 1], i)]
    BY <1>8
  <2> HIDE DEF Scan
  <2> QED
    BY <2>1, <2>2
<1> DEFINE I == {i \in Nat : i <= N => AudioBest(AudioScan[i], i)}
<1>10. 0 \in I
  BY <1>1, <1>2, <1>9 DEF AudioBest
<1>11. ASSUME NEW i \in Nat, i \in I PROVE i + 1 \in I
  <2>1. SUFFICES ASSUME i + 1 <= N PROVE AudioBest(AudioScan[i + 1], i + 1)
    OBVIOUS
  <2> DEFINE x == AudioScan[i]
             k == i + 1
  <2>2. AudioBest(x, i)
    BY <1>1, <1>11, <2>1
  <2>3. AudioScan[k] = BetterAudio(x, k)
    BY <1>1, <1>9, <2>1
  <2>4. k \in 1..N /\ BetterAudio(x, k) \in Candidates /\ x \in Candidates
    BY <1>3, <2>1, <2>2 DEF AudioBest
  <2> HIDE DEF x
  <2>5. \A j \in 1..k : AudioOnly(formats[j]) =>
          Rate(formats[j]) \in Nat /\ AudioScore(formats[j]) = -Rate(formats[j])
    BY <1>1, <2>4, FormatFacts DEF N
  <2>6. /\ formats[k].aud \in BOOLEAN /\ formats[k].vid \in BOOLEAN
        /\ formats[k].vid => AudioScore(formats[k]) > 0
        /\ formats[k].aud => AudioScore(formats[k]) \in Int
    BY <1>1, <2>4, FormatFacts DEF N
  <2>7. x.score \in Int /\ x.score <= 0
    BY <2>2, <2>4 DEF AudioBest, Candidates, FirstChoice
  <2>8. AudioBest(BetterAudio(x, k), k)
    <3>1. CASE formats[k].aud /\ AudioScore(formats[k]) < x.score
      <4>1. BetterAudio(x, k) = [idx |-> k, score |-> AudioScore(formats[k])]
        BY <3>1 DEF BetterAudio
      <4>2. AudioOnly(formats[k]) /\ AudioScore(formats[k]) = -Rate(formats[k])
        <5>1. ~formats[k].vid
          BY <2>6, <2>7, <3>1
        <5> QED
          BY <2>4, <2>5, <3>1, <5>1 DEF AudioOnly
      <4>3. Rate(formats[k]) \in Nat /\ -Rate(formats[k]) < x.score
        BY <2>4, <2>5, <3>1, <4>2
      <4>4. ASSUME NEW j \in 1..i, AudioOnly(formats[j])
            PROVE  Rate(formats[j]) <= Rate(formats[k])
        <5>1. j \in 1..k /\ Rate(formats[j]) \in Nat
          BY <2>5, <4>4
        <5>2. CASE x = FirstChoice /\ \A q \in 1..i : AudioOnly(formats[q]) => Rate(formats[q]) = 0
          BY <4>3, <4>4, <5>2
        <5>3. CASE ~(x = FirstChoice /\ \A q \in 1..i : AudioOnly(formats[q]) => Rate(formats[q]) = 0)
          <6>1. /\ x.idx \in 1..i /\ AudioOnly(formats[x.idx])
                /\ x.score = -Rate(formats[x.idx])
                /\ Rate(formats[j]) <= Rate(formats[x.idx])
            BY <2>2, <4>4, <5>3 DEF AudioBest
          <6>2. Rate(formats[x.idx]) \in Nat
            BY <2>5, <6>1
          <6> QED
            BY <4>3, <5>1, <6>1, <6>2
        <5> QED
          BY <5>2, <5>3
      <4> QED
        BY <2>4, <2>7, <4>1, <4>2, <4>3, <4>4 DEF AudioBest
    <3>2. CASE ~(formats[k].aud /\ AudioScore(formats[k]) < x.score)
      <4>1. BetterAudio(x, k) = x
        BY <3>2 DEF BetterAudio
      <4>2. AudioOnly(formats[k]) => Rate(formats[k]) \in Nat /\ -Rate(formats[k]) >= x.score
        BY <2>4, <2>5, <2>6, <2>7, <3>2 DEF AudioOnly
      <4>3. CASE x = FirstChoice /\ \A q \in 1..i : AudioOnly(formats[q]) => Rate(formats[q]) = 0
        <5>1. AudioOnly(formats[k]) => Rate(formats[k]) = 0
          BY <4>2, <4>3 DEF FirstChoice
        <5> QED
          BY <2>4, <4>1, <4>3, <5>1 DEF AudioBest
      <4>4. CASE ~(x = FirstChoice /\ \A q \in 1..i : AudioOnly(formats[q]) => Rate(formats[q]) = 0)
        <5>1. /\ x.idx \in 1..i /\ AudioOnly(formats[x.idx])
              /\ x.score = -Rate(formats[x.idx]) /\ x.score < 0
              /\ \A j \in 1..i : AudioOnly(formats[j]) =>
                   Rate(formats[j]) <= Rate(formats[x.idx])
          BY <2>2, <4>4 DEF AudioBest
        <5>2. Rate(formats[x.idx]) \in Nat
          BY <2>5, <5>1
        <5>3. AudioOnly(formats[k]) => Rate(formats[k]) <= Rate(formats[x.idx])
          BY <4>2, <5>1, <5>2
        <5> QED
          BY <2>4, <4>1, <5>1, <5>3 DEF AudioBest
      <4> QED
        BY <4>3, <4>4
    <3> QED
      BY <3>1, <3>2
  <2> QED
    BY <2>3, <2>8
<1>12. \A i \in Nat : i \in I
  <2> HIDE DEF I
  <2> QED
    BY <1>10, <1>11, NatInd
<1> QED
  BY <1>1, <1>12 DEF N

-----------------------------------------------------------------------------
(* The extraction of the actions.                                          *)

LEMMA ListIsSeq ==
  ASSUME NEW S, NEW n \in Nat, NEW f \in [1..n -> S]
  PROVE  f \in Seq(S) /\ Len(f) = n
OBVIOUS

Helpers == [name : Names, kind : Kinds, quoted : BOOLEAN, newline : BOOLEAN]
Calls == [name : Names, arg : Nat]

LEMMA PlayerFacts ==
  ASSUME NEW p \in Players
  PROVE  /\ p.object \in Seq(Helpers) /\ p.calls \in Seq(Calls)
         /\ Len(p.calls) \in Nat /\ DOMAIN p.calls = 1..Len(p.calls)
         /\ \A i \in 1..Len(p.calls) : p.calls[i].name \in Names /\ p.calls[i].arg \in Nat
<1>1. p.object \in Seq(Helpers) /\ p.calls \in Seq(Calls)
  BY DEF Players, Helpers, Calls
<1>2. Len(p.calls) \in Nat /\ DOMAIN p.calls = 1..Len(p.calls)
  BY <1>1, LenProperties
<1>3. \A i \in 1..Len(p.calls) : p.calls[i] \in Calls
  BY <1>1, ElementOfSeq
<1> QED
  BY <1>1, <1>2, <1>3 DEF Calls

(* A helper that is known by its name is of the kind it is known for.      *)
LEMMA KindFacts ==
  ASSUME NEW p \in Players, NEW c \in Calls, IsKnown(p.object, c)
  PROVE  /\ KindOf(p.object, c.name) = Helper(p.object, c.name).kind
         /\ Helper(p.object, c.name).kind \in Kinds
<1> DEFINE o == p.object
           k == KindOf(o, c.name)
<1>1. k \in Kinds /\ c.name \in NamesOf(o, k)
  BY DEF IsKnown, KindOf
<1> HIDE DEF k
<1>2. PICK i \in DOMAIN o : o[i].kind = k /\ o[i].name = c.name
  BY <1>1 DEF NamesOf
<1>3. \A h \in {o[j] : j \in DOMAIN o} : h.name = c.name => h = o[i]
  BY <1>2 DEF Players
<1>4. Helper(o, c.name) = o[i]
  <2>1. o[i] \in {o[j] : j \in DOMAIN o} /\ o[i].name = c.name
    BY <1>2
  <2> DEFINE H == CHOOSE h \in {o[j] : j \in DOMAIN o} : h.name = c.name
  <2>2. H \in {o[j] : j \in DOMAIN o} /\ H.name = c.name
    BY <2>1
  <2>3. Helper(o, c.name) = H
    BY DEF Helper
  <2> HIDE DEF H
  <2> QED
    BY <1>3, <2>2, <2>3
<1> QED
  BY <1>1, <1>2, <1>4 DEF k

Actions == [kind : Kinds, arg : Nat]

LEMMA ActionFacts ==
  ASSUME NEW p \in Players, NEW c \in Calls, IsKnown(p.object, c)
  PROVE  /\ ActionOf(p.object, c) \in Actions
         /\ ActionOf(p.object, c).kind = Helper(p.object, c.name).kind
         /\ ActionOf(p.object, c).kind # "reverse" => ActionOf(p.object, c).arg = c.arg
<1>1. c.arg \in Nat
  BY DEF Calls
<1> QED
  BY <1>1, KindFacts DEF ActionOf, Actions

(* If every call is known there is one action for each.                    *)
LEMMA Extracted ==
  ASSUME NEW p \in Players, IsPlain(p)
  PROVE  /\ ytdl_sig_actions_extract(p) \in Seq(Actions)
         /\ Len(ytdl_sig_actions_extract(p)) = Len(p.calls)
         /\ \A i \in 1..Len(p.calls) :
              ytdl_sig_actions_extract(p)[i] = ActionOf(p.object, p.calls[i])
<1> DEFINE N == Len(p.calls)
           act(i) == ActionOf(p.object, p.calls[i])
           F == [i \in 1..N |-> [x \in Seq(Actions) |-> Append(x, act(i))]]
           Step(x, i) == IF IsKnown(p.object, p.calls[i]) THEN Append(x, act(i)) ELSE x
<1>1. N \in Nat /\ DOMAIN p.calls = 1..N /\ \A i \in 1..N : p.calls[i] \in Calls
  BY PlayerFacts, ElementOfSeq
<1>2. \A i \in 1..N : IsKnown(p.object, p.calls[i])
  BY <1>1 DEF IsPlain
<1>3. \A i \in 1..N : act(i) \in Actions
  BY <1>1, <1>2, ActionFacts
<1>4. <<>> \in Seq(Actions)
  BY EmptySeq
<1> HIDE DEF N, act
<1>5. F \in [1..N -> [Seq(Actions) -> Seq(Actions)]]
  BY <1>3, AppendProperties
<1>6. ASSUME NEW i \in 1..N, NEW x \in Seq(Actions) PROVE F[i][x] = Append(x, act(i))
  OBVIOUS
<1> HIDE DEF F
<1>7. PICK g : g \in Recursion(Seq(Actions), <<>>, N, F)
  <2> DEFINE S == Seq(Actions)
             b == <<>>
  <2>1. b \in S /\ F \in [1..N -> [S -> S]]
    BY <1>4, <1>5
  <2> HIDE DEF S, b
  <2>2. Recursion(S, b, N, F) # {}
    BY <1>1, <2>1, Recursed
  <2> QED
    BY <2>2 DEF S, b
<1>8. /\ g \in [0..N -> Seq(Actions)] /\ g[0] = <<>>
      /\ \A i \in 1..N : g[i] = Step(g[i - 1], i)
  <2>1. /\ g \in [0..N -> Seq(Actions)] /\ g[0] = <<>>
        /\ \A i \in 1..N : g[i] = F[i][g[i - 1]] /\ g[i - 1] \in Seq(Actions)
    BY <1>1, <1>5, <1>7, Unrolled
  <2> QED
    BY <1>2, <1>6, <2>1
<1> DEFINE Scan == CHOOSE h : h = [i \in 0..N |-> IF i = 0 THEN <<>> ELSE Step(h[i - 1], i)]
<1>9. Tables(p) = Scan
  BY Zenon DEF Tables, N, act
<1>10. Scan = [i \in 0..N |-> IF i = 0 THEN <<>> ELSE Step(Scan[i - 1], i)]
  <2>1. \A i \in 0..N : g[i] = IF i = 0 THEN <<>> ELSE Step(g[i - 1], i)
    <3> HIDE DEF Step
    <3> QED
      BY <1>1, <1>8
  <2>2. g = [i \in 0..N |-> IF i = 0 THEN <<>> ELSE Step(g[i - 1], i)]
    <3> HIDE DEF Step
    <3> QED
      BY <1>8, <2>1
  <2> QED
    BY <2>2
<1> HIDE DEF Scan
<1>11. Scan[0] = <<>> /\ \A i \in 1..N : Scan[i] = Append(Scan[i - 1], act(i))
  <2>1. \A i \in 1..N : Step(Scan[i - 1], i) = Append(Scan[i - 1], act(i))
    BY <1>2
  <2> HIDE DEF Step
  <2>2. \A i \in 0..N : Scan[i] = IF i = 0 THEN <<>> ELSE Step(Scan[i - 1], i)
    BY <1>10
  <2> QED
    BY <1>1, <2>1, <2>2
<1> DEFINE Good(i) == /\ Scan[i] \in Seq(Actions) /\ Len(Scan[i]) = i
                      /\ \A k \in 1..i : Scan[i][k] = act(k)
           I == {i \in Nat : i <= N => Good(i)}
<1>12. 0 \in I
  <2>1. <<>> \in Seq(Actions) /\ Len(<<>>) = 0
    BY EmptySeq
  <2>2. Scan[0] \in Seq(Actions) /\ Len(Scan[0]) = 0
    BY <1>11, <2>1
  <2>3. Good(0)
    BY <2>2
  <2> QED
    BY <2>3
<1>13. ASSUME NEW i \in Nat, i \in I PROVE i + 1 \in I
  <2>1. SUFFICES ASSUME i + 1 <= N PROVE Good(i + 1)
    OBVIOUS
  <2>2. Good(i) /\ i + 1 \in 1..N /\ Scan[i + 1] = Append(Scan[i], act(i + 1))
    BY <1>1, <1>11, <1>13, <2>1
  <2>3. act(i + 1) \in Actions
    BY <1>3, <2>2
  <2>4. /\ Scan[i + 1] \in Seq(Actions) /\ Len(Scan[i + 1]) = i + 1
        /\ \A k \in 1..i : Scan[i + 1][k] = Scan[i][k]
        /\ Scan[i + 1][i + 1] = act(i + 1)
    BY <2>2, <2>3, AppendProperties
  <2> QED
    BY <2>2, <2>4
<1>14. \A i \in Nat : i \in I
  <2> HIDE DEF I
  <2> QED
    BY <1>12, <1>13, NatInd
<1> QED
  BY <1>1, <1>9, <1>14 DEF ytdl_sig_actions_extract, N, act

-----------------------------------------------------------------------------
(* The application of the actions.                                         *)

Bytes == Chars \cup {NUL}

(* A buffer of m bytes holds a text if the text is what precedes its first *)
(* NUL.                                                                    *)
Holds(b, t, m) ==
  /\ b \in Seq(Bytes) /\ Len(b) = m
  /\ t \in Seq(Chars) /\ Len(t) < m
  /\ \A i \in 1..Len(t) : b[i] = t[i]
  /\ b[Len(t) + 1] = NUL

LEMMA HeldText ==
  ASSUME NEW m \in Nat, NEW b, NEW t, Holds(b, t, m)
  PROVE  /\ IsString(b) /\ b # Corrupt /\ t # Corrupt
         /\ strlen(b) = Len(t) /\ Text(b) = t
         /\ Len(t) \in Nat /\ DOMAIN b = 1..m
<1>1. Len(t) \in Nat /\ DOMAIN b = 1..m /\ Len(t) + 1 \in 1..m /\ Len(b) = m
  BY LenProperties DEF Holds
<1>2. IsString(b)
  BY <1>1 DEF Holds, IsString
<1>3. b # Corrupt
  <2>1. b[1] \in Bytes
    BY <1>1, ElementOfSeq DEF Holds
  <2> QED
    BY <2>1, SigAssumption DEF Bytes, Corrupt, NUL
<1>4. t # Corrupt
  <2>1. SUFFICES ASSUME t = Corrupt PROVE FALSE
    OBVIOUS
  <2>2. Len(t) = 1 /\ t[1] = Corrupt[1]
    BY <2>1 DEF Corrupt
  <2>3. t[1] \in Chars
    <3>1. 1 \in 1..Len(t) /\ t \in Seq(Chars)
      BY <2>2 DEF Holds
    <3> QED
      BY <3>1, ElementOfSeq
  <2> QED
    BY <2>2, <2>3, SigAssumption
<1>5. \A j \in 1..Len(t) : b[j] # NUL
  BY SigAssumption, ElementOfSeq DEF Holds
<1>6. strlen(b) = Len(t)
  <2> DEFINE IsEnd(i) == b[i] = NUL /\ \A j \in 1..i - 1 : b[j] # NUL
             e == CHOOSE i \in DOMAIN b : IsEnd(i)
  <2>1. Len(t) + 1 \in DOMAIN b /\ IsEnd(Len(t) + 1)
    BY <1>1, <1>5 DEF Holds
  <2>2. \A i \in DOMAIN b : IsEnd(i) => i = Len(t) + 1
    <3>1. TAKE i \in DOMAIN b
    <3>2. HAVE IsEnd(i)
    <3>3. ~(i < Len(t) + 1)
      BY <1>1, <1>5, <3>2
    <3>4. ~(i > Len(t) + 1)
      BY <1>1, <2>1, <3>2
    <3> QED
      BY <1>1, <3>3, <3>4
  <2>3. strlen(b) = e - 1
    BY DEF strlen
  <2> HIDE DEF IsEnd
  <2>4. e = Len(t) + 1
    BY <2>1, <2>2
  <2> HIDE DEF e
  <2> QED
    BY <1>1, <2>3, <2>4
<1>7. Text(b) = t
  <2>1. Text(b) = SubSeq(b, 1, Len(t))
    BY <1>6 DEF Text
  <2>2. \A i \in 1..Len(t) : b[i] = t[i] /\ b[i] \in Chars
    BY ElementOfSeq DEF Holds
  <2>3. /\ SubSeq(b, 1, Len(t)) \in Seq(Chars)
        /\ Len(SubSeq(b, 1, Len(t))) = Len(t)
        /\ \A i \in 1..Len(t) : SubSeq(b, 1, Len(t))[i] = b[i]
    <3>1. /\ SubSeq(b, 1, Len(t)) \in Seq(Chars)
          /\ Len(SubSeq(b, 1, Len(t))) = IF 1 <= Len(t) THEN Len(t) - 1 + 1 ELSE 0
          /\ \A i \in 1..Len(t) - 1 + 1 : SubSeq(b, 1, Len(t))[i] = b[1 + i - 1]
      BY <1>1, <2>2, SubSeqProperties
    <3> QED
      BY <1>1, <3>1
  <2>4. t \in Seq(Chars)
    BY DEF Holds
  <2>5. \A i \in 1..Len(t) : SubSeq(b, 1, Len(t))[i] = t[i]
    BY <2>2, <2>3
  <2>6. SubSeq(b, 1, Len(t)) = t
    <3> DEFINE u == SubSeq(b, 1, Len(t))
    <3>1. u \in Seq(Chars) /\ Len(u) = Len(t) /\ \A i \in 1..Len(u) : u[i] = t[i]
      BY <2>3, <2>5
    <3> HIDE DEF u
    <3>2. u = t
      BY <2>4, <3>1, SeqEqual
    <3> QED
      BY <3>2 DEF u
  <2> QED
    BY <2>1, <2>6
<1> QED
  BY <1>1, <1>2, <1>3, <1>4, <1>6, <1>7

LEMMA BufferHolds ==
  ASSUME NEW sig \in Seq(Chars), NEW slack \in Nat
  PROVE  Holds(Buffer(sig, slack), sig, Len(sig) + slack + 1)
<1> DEFINE z == [i \in 1..slack + 1 |-> NUL]
<1>1. sig \in Seq(Bytes) /\ Len(sig) \in Nat
  BY SeqMonotonic, LenProperties DEF Bytes
<1>2. z \in Seq(Bytes) /\ Len(z) = slack + 1 /\ \A i \in 1..slack + 1 : z[i] = NUL
  <2>1. z \in [1..slack + 1 -> Bytes] /\ slack + 1 \in Nat
    BY DEF Bytes
  <2> HIDE DEF z
  <2>2. z \in Seq(Bytes) /\ Len(z) = slack + 1
    BY <2>1, ListIsSeq
  <2> QED
    BY <2>2 DEF z
<1>3. Buffer(sig, slack) = sig \o z
  BY DEF Buffer
<1> HIDE DEF z
<1>4. /\ sig \o z \in Seq(Bytes) /\ Len(sig \o z) = Len(sig) + Len(z)
      /\ \A i \in 1..Len(sig) + Len(z) :
           (sig \o z)[i] = IF i <= Len(sig) THEN sig[i] ELSE z[i - Len(sig)]
  BY <1>1, <1>2, ConcatProperties
<1> QED
  BY <1>1, <1>2, <1>3, <1>4 DEF Holds

(* What an action that fits does to the buffer is what the player's helper *)
(* does to the text.                                                       *)
LEMMA ReverseHolds ==
  ASSUME NEW m \in Nat, NEW b, NEW t, Holds(b, t, m)
  PROVE  Holds(ytdl__strrev(b), Reverse(t), m)
<1> DEFINE n == Len(t)
           c == [i \in DOMAIN b |-> IF i <= n THEN b[n + 1 - i] ELSE b[i]]
<1>1. n \in Nat /\ n < m /\ DOMAIN b = 1..m /\ strlen(b) = n
  BY HeldText DEF Holds
<1>2. ytdl__strrev(b) = c
  BY <1>1 DEF ytdl__strrev
<1>3. /\ \A i \in 1..m : b[i] \in Bytes
      /\ \A i \in 1..n : b[i] = t[i] /\ t[i] \in Chars
      /\ b[n + 1] = NUL
  BY ElementOfSeq DEF Holds
<1> HIDE DEF n
<1>4. c \in [1..m -> Bytes]
  BY <1>1, <1>3
<1>5. /\ \A i \in 1..n : n - i + 1 \in 1..n /\ c[i] = t[n - i + 1]
      /\ c[n + 1] = NUL
  BY <1>1, <1>3
<1> HIDE DEF c
<1>6. c \in Seq(Bytes) /\ Len(c) = m
  BY <1>4, ListIsSeq
<1>7. Reverse(t) = [i \in 1..n |-> t[n - i + 1]]
  BY DEF Reverse, n
<1>8. Reverse(t) \in [1..n -> Chars]
  BY <1>3, <1>5, <1>7
<1>9. Reverse(t) \in Seq(Chars) /\ Len(Reverse(t)) = n
  BY <1>1, <1>8, ListIsSeq
<1>10. \A i \in 1..n : c[i] = Reverse(t)[i]
  BY <1>5, <1>7
<1> QED
  BY <1>1, <1>2, <1>5, <1>6, <1>9, <1>10 DEF Holds

LEMMA SwapHolds ==
  ASSUME NEW m \in Nat, NEW b, NEW t, Holds(b, t, m), NEW arg \in Nat, arg < Len(t)
  PROVE  LET place == (arg % Len(t)) + 1
         IN  Holds(Swap(b, arg), [t EXCEPT ![1] = t[place], ![place] = t[1]], m)
<1> DEFINE n == Len(t)
           k == arg + 1
           c == [b EXCEPT ![1] = b[k], ![k] = b[1]]
           u == [t EXCEPT ![1] = t[k], ![k] = t[1]]
<1>1. /\ n \in Nat /\ n < m /\ DOMAIN b = 1..m /\ strlen(b) = n /\ Len(b) = m
      /\ DOMAIN t = 1..n
  BY HeldText, LenProperties DEF Holds
<1>2. n # 0 /\ arg % n = arg /\ k \in 1..n /\ k \in 1..m /\ 1 \in 1..n /\ 1 \in 1..m
  BY <1>1
<1>3. Swap(b, arg) = c
  <2>1. ~(strlen(b) = 0 \/ arg >= Len(b)) /\ (arg % strlen(b)) + 1 = k
    BY <1>1, <1>2
  <2> QED
    BY <2>1 DEF Swap
<1>4. /\ \A i \in 1..m : b[i] \in Bytes
      /\ \A i \in 1..n : b[i] = t[i] /\ t[i] \in Chars
      /\ b[n + 1] = NUL
  BY ElementOfSeq DEF Holds
<1>5. b \in [1..m -> Bytes] /\ t \in [1..n -> Chars]
  BY <1>1, LenProperties DEF Holds
<1> HIDE DEF n, k
<1>6. /\ c \in [1..m -> Bytes]
      /\ \A i \in 1..m : c[i] = IF i = k THEN b[1] ELSE IF i = 1 THEN b[k] ELSE b[i]
  BY <1>2, <1>4, <1>5
<1>7. /\ u \in [1..n -> Chars]
      /\ \A i \in 1..n : u[i] = IF i = k THEN t[1] ELSE IF i = 1 THEN t[k] ELSE t[i]
  BY <1>2, <1>4, <1>5
<1> HIDE DEF c, u
<1>8. c \in Seq(Bytes) /\ Len(c) = m /\ u \in Seq(Chars) /\ Len(u) = n
  BY <1>1, <1>6, <1>7, ListIsSeq
<1>9. \A i \in 1..n : c[i] = u[i]
  BY <1>1, <1>2, <1>4, <1>6, <1>7
<1>10. c[n + 1] = NUL
  BY <1>1, <1>2, <1>4, <1>6
<1>11. Holds(c, u, m)
  BY <1>1, <1>8, <1>9, <1>10 DEF Holds
<1> QED
  BY <1>2, <1>3, <1>11 DEF n, k, u

LEMMA SpliceHolds ==
  ASSUME NEW m \in Nat, NEW b, NEW t, Holds(b, t, m), NEW arg \in Nat, arg <= Len(t)
  PROVE  Holds(Splice(b, arg), SubSeq(t, arg + 1, Len(t)), m)
<1> DEFINE n == Len(t)
           c == [i \in DOMAIN b |-> IF i <= n - arg + 1 THEN b[i + arg] ELSE b[i]]
           u == SubSeq(t, arg + 1, n)
<1>1. n \in Nat /\ n < m /\ DOMAIN b = 1..m /\ strlen(b) = n
  BY HeldText DEF Holds
<1>2. arg <= n
  OBVIOUS
<1>3. Splice(b, arg) = c
  BY <1>1 DEF Splice, MovedBytes
<1>4. /\ \A i \in 1..m : b[i] \in Bytes
      /\ \A i \in 1..n : b[i] = t[i] /\ t[i] \in Chars
      /\ b[n + 1] = NUL
  BY ElementOfSeq DEF Holds
<1> HIDE DEF n
<1>5. /\ c \in [1..m -> Bytes]
      /\ \A i \in 1..m : c[i] = IF i <= n - arg + 1 THEN b[i + arg] ELSE b[i]
  BY <1>1, <1>2, <1>4
<1> HIDE DEF c
<1>6. c \in Seq(Bytes) /\ Len(c) = m
  BY <1>5, ListIsSeq
<1>7. u \in Seq(Chars) /\ Len(u) = n - arg /\ \A i \in 1..n - arg : u[i] = t[arg + i]
  <2>1. arg + 1 \in Int /\ n \in Int /\ \A i \in arg + 1..n : t[i] \in Chars
    BY <1>1, <1>4
  <2>2. /\ u \in Seq(Chars)
        /\ Len(u) = IF arg + 1 <= n THEN n - (arg + 1) + 1 ELSE 0
        /\ \A i \in 1..n - (arg + 1) + 1 : u[i] = t[arg + 1 + i - 1]
    BY <2>1, SubSeqProperties
  <2> HIDE DEF u
  <2> QED
    BY <1>1, <1>2, <2>2
<1> HIDE DEF u
<1>8. \A i \in 1..n - arg : c[i] = u[i]
  BY <1>1, <1>2, <1>4, <1>5, <1>7
<1>9. c[n - arg + 1] = NUL
  BY <1>1, <1>2, <1>4, <1>5
<1> QED
  BY <1>1, <1>2, <1>3, <1>6, <1>7, <1>8, <1>9 DEF Holds, u, n

(* A call that finds enough of the text.                                   *)
Fits(kind, arg, t) ==
  CASE kind = "swap" -> arg < Len(t)
    [] kind = "reverse" -> TRUE
    [] OTHER -> arg <= Len(t)

LEMMA StepHolds ==
  ASSUME NEW m \in Nat, NEW b, NEW t, Holds(b, t, m),
         NEW p \in Players, NEW c \in Calls, IsKnown(p.object, c),
         Fits(Helper(p.object, c.name).kind, c.arg, t)
  PROVE  Holds(Applied(b, ActionOf(p.object, c)), PlayerCall(p.object, t, c), m)
<1> DEFINE a == ActionOf(p.object, c)
           k == Helper(p.object, c.name).kind
<1>1. a.kind = k /\ k \in Kinds /\ c.arg \in Nat /\ (k # "reverse" => a.arg = c.arg)
  BY ActionFacts, KindFacts DEF Calls
<1>2. b # Corrupt /\ IsString(b)
  BY HeldText
<1> HIDE DEF a
<1>3. CASE k = "reverse"
  <2>1. Applied(b, a) = ytdl__strrev(b)
    BY <1>1, <1>2, <1>3 DEF Applied
  <2>2. PlayerCall(p.object, t, c) = Reverse(t)
    BY <1>3 DEF PlayerCall
  <2> QED
    BY <2>1, <2>2, ReverseHolds DEF a
<1>4. CASE k = "swap"
  <2> DEFINE place == (c.arg % Len(t)) + 1
  <2>1. Applied(b, a) = Swap(b, c.arg)
    BY <1>1, <1>2, <1>4 DEF Applied
  <2>2. PlayerCall(p.object, t, c) = [t EXCEPT ![1] = t[place], ![place] = t[1]]
    BY <1>4 DEF PlayerCall
  <2>3. c.arg < Len(t)
    BY <1>4 DEF Fits
  <2>4. Holds(Swap(b, c.arg), [t EXCEPT ![1] = t[place], ![place] = t[1]], m)
    BY <1>1, <2>3, SwapHolds
  <2> QED
    BY <2>1, <2>2, <2>4 DEF a
<1>5. CASE k \notin {"reverse", "swap"}
  <2>1. Applied(b, a) = Splice(b, c.arg)
    BY <1>1, <1>2, <1>5 DEF Applied
  <2>2. PlayerCall(p.object, t, c) = SubSeq(t, c.arg + 1, Len(t))
    BY <1>5 DEF PlayerCall
  <2>3. c.arg <= Len(t)
    BY <1>5 DEF Fits
  <2>4. Holds(Splice(b, c.arg), SubSeq(t, c.arg + 1, Len(t)), m)
    BY <1>1, <2>3, SpliceHolds
  <2> QED
    BY <2>1, <2>2, <2>4 DEF a
<1> QED
  BY <1>3, <1>4, <1>5

(* A helper makes a text of a text, however often it is called.            *)
LEMMA PlayerCallIsText ==
  ASSUME NEW p \in Players, NEW c \in Calls, NEW t \in Seq(Chars)
  PROVE  PlayerCall(p.object, t, c) \in Seq(Chars)
<1> DEFINE n == Len(t)
           k == Helper(p.object, c.name).kind
           place == (c.arg % n) + 1
           u == [t EXCEPT ![1] = t[place], ![place] = t[1]]
<1>1. n \in Nat /\ DOMAIN t = 1..n /\ t \in [1..n -> Chars] /\ c.arg \in Nat
  BY LenProperties DEF Calls
<1>2. Reverse(t) \in Seq(Chars)
  <2>1. \A i \in 1..n : n - i + 1 \in 1..n
    BY <1>1
  <2> HIDE DEF n
  <2>2. [i \in 1..n |-> t[n - i + 1]] \in [1..n -> Chars]
    BY <1>1, <2>1
  <2>3. [i \in 1..n |-> t[n - i + 1]] \in Seq(Chars)
    BY <1>1, <2>2, ListIsSeq
  <2> QED
    BY <2>3 DEF Reverse, n
<1>3. u \in Seq(Chars)
  <2>1. CASE n = 0
    <3>1. DOMAIN u = 1..0
      BY <1>1, <2>1
    <3>2. u = [i \in 1..0 |-> u[i]]
      BY <3>1
    <3>3. u \in [1..0 -> Chars]
      <4> HIDE DEF u
      <4> QED
        BY <3>2
    <3> HIDE DEF u
    <3> QED
      BY <3>3, ListIsSeq
  <2>2. CASE n # 0
    <3>1. place \in 1..n /\ 1 \in 1..n
      BY <1>1, <2>2
    <3> HIDE DEF place, n
    <3>2. u \in [1..n -> Chars]
      BY <1>1, <3>1
    <3> HIDE DEF u
    <3> QED
      BY <1>1, <3>2, ListIsSeq
  <2> QED
    BY <2>1, <2>2
<1>4. SubSeq(t, c.arg + 1, n) \in Seq(Chars)
  <2>1. c.arg + 1 \in Int /\ n \in Int /\ \A i \in c.arg + 1..n : t[i] \in Chars
    BY <1>1
  <2> HIDE DEF n
  <2> QED
    BY <2>1, SubSeqProperties
<1>5. PlayerCall(p.object, t, c) =
        CASE k = "reverse" -> Reverse(t) [] k = "swap" -> u
          [] OTHER -> SubSeq(t, c.arg + 1, n)
  BY Zenon DEF PlayerCall
<1> HIDE DEF k, u, n
<1> QED
  BY <1>2, <1>3, <1>4, <1>5

LEMMA PlayerTextsFacts ==
  ASSUME NEW p \in Players, NEW sig \in Seq(Chars)
  PROVE  /\ PlayerTexts(p, sig)[0] = sig
         /\ \A i \in 1..Len(p.calls) :
              PlayerTexts(p, sig)[i] =
                PlayerCall(p.object, PlayerTexts(p, sig)[i - 1], p.calls[i])
         /\ \A i \in 0..Len(p.calls) : PlayerTexts(p, sig)[i] \in Seq(Chars)
<1> DEFINE N == Len(p.calls)
           S == Seq(Chars)
           Step(x, i) == PlayerCall(p.object, x, p.calls[i])
           F == [i \in 1..N |-> [x \in S |-> Step(x, i)]]
<1>1. N \in Nat /\ \A i \in 1..N : p.calls[i] \in Calls
  BY PlayerFacts, ElementOfSeq
<1>2. sig \in S /\ \A i \in 1..N : \A x \in S : Step(x, i) \in S
  BY <1>1, PlayerCallIsText
<1> DEFINE Scan == CHOOSE h : h = [i \in 0..N |-> IF i = 0 THEN sig ELSE Step(h[i - 1], i)]
<1>3. PlayerTexts(p, sig) = Scan
  BY DEF PlayerTexts
<1> HIDE DEF N, S, Step
<1>4. F \in [1..N -> [S -> S]]
  BY <1>2
<1>5. \A i \in 1..N : \A x \in S : F[i][x] = Step(x, i)
  OBVIOUS
<1> HIDE DEF F
<1>6. PICK g : g \in Recursion(S, sig, N, F)
  BY <1>1, <1>2, <1>4, Recursed
<1>7. /\ g \in [0..N -> S] /\ g[0] = sig
      /\ \A i \in 1..N : g[i] = Step(g[i - 1], i) /\ g[i - 1] \in S
  <2>1. /\ g \in [0..N -> S] /\ g[0] = sig
        /\ \A i \in 1..N : g[i] = F[i][g[i - 1]] /\ g[i - 1] \in S
    BY <1>1, <1>4, <1>6, Unrolled
  <2> QED
    BY <1>5, <2>1
<1>8. Scan = [i \in 0..N |-> IF i = 0 THEN sig ELSE Step(Scan[i - 1], i)]
  <2>1. \A i \in 0..N : g[i] = IF i = 0 THEN sig ELSE Step(g[i - 1], i)
    BY <1>1, <1>7
  <2>2. g = [i \in 0..N |-> IF i = 0 THEN sig ELSE Step(g[i - 1], i)]
    BY <1>7, <2>1
  <2> QED
    BY <2>2
<1> HIDE DEF Scan
<1>9. Scan[0] = sig /\ \A i \in 1..N : Scan[i] = Step(Scan[i - 1], i)
  BY <1>1, <1>8
<1> DEFINE I == {i \in Nat : i <= N => Scan[i] \in S}
<1>10. 0 \in I
  BY <1>2, <1>9
<1>11. ASSUME NEW i \in Nat, i \in I PROVE i + 1 \in I
  <2>1. SUFFICES ASSUME i + 1 <= N PROVE Scan[i + 1] \in S
    OBVIOUS
  <2>2. Scan[i] \in S /\ i + 1 \in 1..N /\ i + 1 - 1 = i
    BY <1>1, <1>11, <2>1
  <2>3. Scan[i + 1] = Step(Scan[i], i + 1)
    BY <1>9, <2>2
  <2> QED
    BY <1>2, <2>2, <2>3
<1>12. \A i \in Nat : i \in I
  <2> HIDE DEF I
  <2> QED
    BY <1>10, <1>11, NatInd
<1>13. \A i \in 0..N : Scan[i] \in S
  BY <1>1, <1>12
<1> QED
  BY <1>3, <1>9, <1>13 DEF N, S, Step

(* For a player that is laid out as the code expects, and a signature long *)
(* enough, the actions make of the signature what the player makes of it.  *)
LEMMA DecipheredIsPlayers ==
  ASSUME NEW p \in Players, NEW sig \in Seq(Chars), NEW slack \in Nat,
         IsPlain(p), FitsLength(p, sig)
  PROVE  /\ Deciphered(ytdl_sig_actions_extract(p), sig, slack) = PlayerDeciphered(p, sig)
         /\ PlayerDeciphered(p, sig) # Corrupt
<1> DEFINE N == Len(p.calls)
           a == ytdl_sig_actions_extract(p)
           T == PlayerTexts(p, sig)
           m == Len(sig) + slack + 1
           b == Buffer(sig, slack)
           S == Seq(Bytes)
           Step(x, i) == Applied(x, a[i])
           F == [i \in 1..N |-> [x \in S |-> IF Step(x, i) \in S THEN Step(x, i) ELSE x]]
           Scan == CHOOSE h : h = [i \in 0..N |-> IF i = 0 THEN b ELSE Step(h[i - 1], i)]
<1>1. /\ N \in Nat /\ m \in Nat
      /\ \A i \in 1..N : /\ p.calls[i] \in Calls /\ IsKnown(p.object, p.calls[i])
                         /\ a[i] = ActionOf(p.object, p.calls[i])
                         /\ Fits(Helper(p.object, p.calls[i].name).kind, p.calls[i].arg, T[i - 1])
  <2>1. N \in Nat /\ m \in Nat /\ DOMAIN p.calls = 1..N
    BY PlayerFacts, LenProperties
  <2>2. \A i \in 1..N : p.calls[i] \in Calls
    BY PlayerFacts, ElementOfSeq
  <2>3. \A i \in 1..N : IsKnown(p.object, p.calls[i])
    BY <2>1 DEF IsPlain
  <2>4. \A i \in 1..N : a[i] = ActionOf(p.object, p.calls[i])
    BY Extracted
  <2>5. \A i \in 1..N :
          Fits(Helper(p.object, p.calls[i].name).kind, p.calls[i].arg, T[i - 1])
    BY <2>1 DEF FitsLength, Fits
  <2> QED
    BY <2>1, <2>2, <2>3, <2>4, <2>5
<1>2. Holds(b, T[0], m)
  BY BufferHolds, PlayerTextsFacts
<1>3. \A i \in 1..N : T[i] = PlayerCall(p.object, T[i - 1], p.calls[i])
  BY PlayerTextsFacts
<1>4. Buffers(a, sig, slack) = Scan
  <2>1. Len(a) = N
    BY Extracted
  <2> HIDE DEF a, N
  <2> QED
    BY <2>1 DEF Buffers
<1>5. Len(a) = N
  BY Extracted
<1>6. PlayerDeciphered(p, sig) = T[N]
  BY DEF PlayerDeciphered
<1> HIDE DEF N, a, T, m, b
<1>7. ASSUME NEW i \in 1..N, NEW x, Holds(x, T[i - 1], m)
      PROVE  Holds(Step(x, i), T[i], m)
  BY <1>1, <1>3, <1>7, StepHolds
<1>8. \A x, t : Holds(x, t, m) => x \in S
  BY DEF Holds
<1> HIDE DEF S, Step
<1>9. F \in [1..N -> [S -> S]]
  OBVIOUS
<1>10. \A i \in 1..N : \A x \in S : Step(x, i) \in S => F[i][x] = Step(x, i)
  OBVIOUS
<1> HIDE DEF F
<1>11. PICK g : g \in Recursion(S, b, N, F)
  <2>1. N \in Nat
    BY <1>1
  <2>2. b \in S
    BY <1>2, <1>8
  <2>3. Recursion(S, b, N, F) # {}
    BY <1>9, <2>1, <2>2, Recursed
  <2> QED
    BY <2>3
<1>12. /\ g \in [0..N -> S] /\ g[0] = b
       /\ \A i \in 1..N : g[i] = F[i][g[i - 1]] /\ g[i - 1] \in S
  BY <1>1, <1>9, <1>11, Unrolled
<1> DEFINE I == {i \in Nat : i <= N => Holds(g[i], T[i], m)}
<1>13. 0 \in I
  BY <1>2, <1>12
<1>14. ASSUME NEW i \in Nat, i \in I PROVE i + 1 \in I
  <2>1. SUFFICES ASSUME i + 1 <= N PROVE Holds(g[i + 1], T[i + 1], m)
    OBVIOUS
  <2>2. Holds(g[i], T[i], m) /\ i + 1 \in 1..N /\ i + 1 - 1 = i
    BY <1>1, <1>14, <2>1
  <2>3. Holds(Step(g[i], i + 1), T[i + 1], m)
    BY <1>7, <2>2
  <2>4. g[i + 1] = Step(g[i], i + 1)
    BY <1>8, <1>10, <1>12, <2>2, <2>3
  <2> QED
    BY <2>3, <2>4
<1>15. \A i \in Nat : i \in I
  <2> HIDE DEF I
  <2> QED
    BY <1>13, <1>14, NatInd
<1>16. \A i \in 0..N : Holds(g[i], T[i], m)
  BY <1>1, <1>15
<1>17. \A i \in 1..N : g[i] = Step(g[i - 1], i)
  <2> TAKE i \in 1..N
  <2>1. i - 1 \in 0..N
    BY <1>1
  <2>2. Step(g[i - 1], i) \in S
    BY <1>7, <1>8, <1>16, <2>1
  <2> QED
    BY <1>10, <1>12, <2>2
<1>18. Scan = [i \in 0..N |-> IF i = 0 THEN b ELSE Step(Scan[i - 1], i)]
  <2>1. \A i \in 0..N : g[i] = IF i = 0 THEN b ELSE Step(g[i - 1], i)
    BY <1>1, <1>12, <1>17
  <2>2. g = [i \in 0..N |-> IF i = 0 THEN b ELSE Step(g[i - 1], i)]
    BY <1>12, <2>1
  <2> QED
    BY <2>2
<1> HIDE DEF Scan
<1>19. Scan[0] = b /\ \A i \in 1..N : Scan[i] = Step(Scan[i - 1], i)
  BY <1>1, <1>18
<1> DEFINE J == {i \in Nat : i <= N => Holds(Scan[i], T[i], m)}
<1>20. 0 \in J
  BY <1>2, <1>19
<1>21. ASSUME NEW i \in Nat, i \in J PROVE i + 1 \in J
  <2>1. SUFFICES ASSUME i + 1 <= N PROVE Holds(Scan[i + 1], T[i + 1], m)
    OBVIOUS
  <2>2. Holds(Scan[i], T[i], m) /\ i + 1 \in 1..N /\ i + 1 - 1 = i
    BY <1>1, <1>21, <2>1
  <2>3. Holds(Step(Scan[i], i + 1), T[i + 1], m)
    BY <1>7, <2>2
  <2> QED
    BY <1>19, <2>2, <2>3
<1>22. \A i \in Nat : i \in J
  <2> HIDE DEF J
  <2> QED
    BY <1>20, <1>21, NatInd
<1>23. Holds(Scan[N], T[N], m)
  BY <1>1, <1>22
<1>24. IsString(Scan[N]) /\ Text(Scan[N]) = T[N] /\ T[N] # Corrupt
  BY <1>1, <1>23, HeldText
<1> QED
  BY <1>4, <1>5, <1>6, <1>24 DEF Deciphered, a

-----------------------------------------------------------------------------
(* The inductive invariant.                                                *)

(* What the address of a format is completed to, if anything: the actions  *)
(* of the player are applied to its signature, its function to n.          *)
Completed(p, f) ==
  LET calls == IF f.n THEN 1 ELSE 0 IN
  CASE f.cipher /\ f.parts = Parts ->
         [kind |-> "signed", calls |-> calls,
          sig |-> Deciphered(ytdl_sig_actions_extract(p), f.sig, f.slack)]
    [] ~f.cipher /\ f.plain -> [kind |-> "plain", calls |-> calls, sig |-> <<>>]
    [] OTHER -> NoUrl

Early == {"player", "failed", "choose"}
CaseInv ==
  /\ js \in Players /\ formats \in Seq(Format)
  /\ stage \in Early \cup DOMAIN After \cup {"done", "crashed"}

(* The actions are the player's from the choice of formats on, and until   *)
(* then no address was asked for.                                          *)
ActionsInv ==
  /\ stage \notin {"player", "failed"} => actions = ytdl_sig_actions_extract(js)
  /\ stage \in Early => requested = [w \in Streams |-> NoUrl]

(* An address in the cache is complete.                                    *)
CacheInv ==
  /\ DOMAIN url = 1..Len(formats)
  /\ \A i \in 1..Len(formats) : url[i] \in {NoUrl, Completed(js, formats[i])}

(* The formats are chosen from the list, for good, and so is what the      *)
(* downloads ask for.                                                      *)
RequestInv ==
  /\ DOMAIN requested = Streams
  /\ stage \in DOMAIN After \cup {"done"} =>
       \A w \in Streams : chosen[w] \in 1..Len(formats)
  /\ \A w \in Streams : requested[w] # NoUrl =>
       /\ chosen[w] \in 1..Len(formats)
       /\ requested[w] = Completed(js, formats[chosen[w]])

AddressInv ==
  /\ CaseInv /\ ActionsInv /\ CacheInv /\ RequestInv
  /\ ChosenIsBest /\ SoundInputSurvives

LEMMA AddressStart == AddressInit => AddressInv
<1> SUFFICES ASSUME AddressInit PROVE AddressInv
  OBVIOUS
<1>1. PICK case \in Cases : js = case.js /\ formats = case.formats
  BY DEF AddressInit
<1>2. js \in Players /\ formats \in Seq(Format) /\ DOMAIN formats = 1..Len(formats)
  <2>1. case \in [js : Players, formats : Seq(Format)]
    BY CasesAssumption
  <2>2. js \in Players /\ formats \in Seq(Format)
    BY <1>1, <2>1
  <2> QED
    BY <2>2, LenProperties
<1>3. stage = "player" /\ "player" \in Early
  BY DEF AddressInit, Early
<1>4. "player" \notin DOMAIN After \cup {"done", "crashed"}
  BY DEF After
<1>5. CaseInv
  BY <1>2, <1>3 DEF CaseInv
<1>6. ActionsInv
  BY <1>3 DEF ActionsInv, AddressInit
<1>7. CacheInv
  BY <1>2 DEF CacheInv, AddressInit
<1>8. RequestInv
  BY <1>3, <1>4 DEF RequestInv, AddressInit
<1>9. ChosenIsBest /\ SoundInputSurvives
  BY <1>3, <1>4 DEF ChosenIsBest, SoundInputSurvives
<1> QED
  BY <1>5, <1>6, <1>7, <1>8, <1>9 DEF AddressInv

(* What asking for an address returns, whether or not it was asked for     *)
(* before.                                                                 *)
LEMMA AskedFor ==
  ASSUME CaseInv, ActionsInv, CacheInv, stage \notin Early, NEW i \in 1..Len(formats)
  PROVE  ytdl_info_get_format_url2(i) = Completed(js, formats[i])
<1> DEFINE f == formats[i]
<1>1. actions = ytdl_sig_actions_extract(js)
  BY DEF ActionsInv, Early
<1>2. url[i] \in {NoUrl, Completed(js, f)}
  BY DEF CacheInv
<1>3. CASE url[i] # NoUrl
  BY <1>2, <1>3 DEF ytdl_info_get_format_url2, Cached
<1>4. CASE url[i] = NoUrl
  <2> DEFINE d == Deciphered(ytdl_sig_actions_extract(js), f.sig, f.slack)
  <2>1. CASE f.cipher /\ f.parts = Parts
    <3>1. Built(f) = [kind |-> "signed", sig |-> d, calls |-> 0]
      BY <1>1, <2>1 DEF Built
    <3>2. Completed(js, f) = [kind |-> "signed", sig |-> d, calls |-> IF f.n THEN 1 ELSE 0]
      BY <2>1 DEF Completed
    <3> HIDE DEF d
    <3>3. Built(f) # NoUrl
      BY <3>1 DEF NoUrl
    <3>4. CallFunc(f, Built(f)) = Completed(js, f)
      BY <3>1, <3>2 DEF CallFunc
    <3> QED
      BY <1>4, <3>3, <3>4 DEF ytdl_info_get_format_url2
  <2>2. CASE ~(f.cipher /\ f.parts = Parts) /\ ~f.cipher /\ f.plain
    <3>1. Built(f) = [kind |-> "plain", sig |-> <<>>, calls |-> 0]
      BY <2>2 DEF Built
    <3>2. Completed(js, f) = [kind |-> "plain", sig |-> <<>>, calls |-> IF f.n THEN 1 ELSE 0]
      BY <2>2 DEF Completed
    <3>3. Built(f) # NoUrl
      BY <3>1 DEF NoUrl
    <3>4. CallFunc(f, Built(f)) = Completed(js, f)
      BY <3>1, <3>2 DEF CallFunc
    <3> QED
      BY <1>4, <3>3, <3>4 DEF ytdl_info_get_format_url2
  <2>3. CASE ~(f.cipher /\ f.parts = Parts) /\ ~(~f.cipher /\ f.plain)
    <3>1. Built(f) = NoUrl /\ Completed(js, f) = NoUrl
      BY <2>3 DEF Built, Completed
    <3> QED
      BY <1>4, <3>1 DEF ytdl_info_get_format_url2
  <2> QED
    BY <2>1, <2>2, <2>3
<1> QED
  BY <1>3, <1>4

(* A sound format of a plain player has an address.                        *)
LEMMA SoundIsCompleted ==
  ASSUME js \in Players, IsPlain(js), NEW f \in Format, IsSound(f)
  PROVE  Completed(js, f) # NoUrl /\ ~IsCorrupt(Completed(js, f))
<1>1. f.sig \in Seq(Chars) /\ f.slack \in Nat /\ f.cipher \in BOOLEAN
  BY DEF Format
<1>2. CASE f.cipher
  <2> DEFINE d == Deciphered(ytdl_sig_actions_extract(js), f.sig, f.slack)
  <2>1. f.parts = Parts /\ FitsLength(js, f.sig)
    BY <1>2 DEF IsSound
  <2>2. d # Corrupt
    BY <1>1, <2>1, DecipheredIsPlayers
  <2>3. Completed(js, f).sig = d /\ Completed(js, f).kind = "signed"
    BY <1>2, <2>1 DEF Completed
  <2> HIDE DEF d
  <2> QED
    BY <2>2, <2>3 DEF IsCorrupt, NoUrl
<1>3. CASE ~f.cipher
  <2>1. f.plain
    BY <1>3 DEF IsSound
  <2>2. Completed(js, f).sig = <<>> /\ Completed(js, f).kind = "plain"
    BY <1>3, <2>1 DEF Completed
  <2>3. <<>> # Corrupt
    BY DEF Corrupt
  <2> QED
    BY <2>2, <2>3 DEF IsCorrupt, NoUrl
<1> QED
  BY <1>2, <1>3

LEMMA ExtractStep == AddressInv /\ Extract => AddressInv'
<1> SUFFICES ASSUME AddressInv, Extract PROVE AddressInv'
  OBVIOUS
<1> USE DEF AddressInv
<1>1. /\ stage = "player" /\ stage' \in {"choose", "failed"}
      /\ stage' = "choose" => actions' = ytdl_sig_actions_extract(js)
      /\ UNCHANGED <<js, formats, verbose, chosen, url, requested>>
  BY DEF Extract
<1>2. stage' \notin DOMAIN After \cup {"done", "crashed"} /\ stage' \in Early
  BY <1>1 DEF After, Early
<1>3. CaseInv'
  BY <1>1, <1>2 DEF CaseInv
<1>4. ActionsInv'
  BY <1>1, <1>2 DEF ActionsInv, Early
<1>5. CacheInv'
  BY <1>1 DEF CacheInv
<1>6. RequestInv'
  <2>1. requested = [w \in Streams |-> NoUrl]
    BY <1>1 DEF ActionsInv, Early
  <2> QED
    BY <1>1, <1>2, <2>1 DEF RequestInv
<1>7. ChosenIsBest' /\ SoundInputSurvives'
  BY <1>2 DEF ChosenIsBest, SoundInputSurvives
<1> QED
  BY <1>3, <1>4, <1>5, <1>6, <1>7

(* The formats that are chosen are the best.                               *)
LEMMA ChosenAreBest ==
  ASSUME formats \in Seq(Format), formats # <<>>,
         \A i \in DOMAIN formats : ~DividesByZero(formats[i]),
         NEW v, v = ytdl_info_get_best_video_format,
         NEW a, a = ytdl_info_get_best_audio_format
  PROVE  LET all == {formats[i] : i \in DOMAIN formats}
         IN  /\ v \in 1..Len(formats) /\ a \in 1..Len(formats)
             /\ (\E f \in all : f.vid) =>
                  formats[v].vid /\ \A f \in all : f.vid => Size(f) <= Size(formats[v])
             /\ IF \E f \in all : AudioOnly(f) /\ Rate(f) > 0
                  THEN /\ AudioOnly(formats[a])
                       /\ \A f \in all : AudioOnly(f) => Rate(f) <= Rate(formats[a])
                  ELSE a = 1
<1> DEFINE n == Len(formats)
           all == {formats[i] : i \in DOMAIN formats}
           x == VideoScan[n]
           y == AudioScan[n]
<1>1. n \in Nat /\ n # 0 /\ DOMAIN formats = 1..n
  BY LenProperties, EmptySeq
<1>2. VideoBest(x, n) /\ AudioBest(y, n)
  BY VideoScanned, AudioScanned
<1>3. v = x.idx /\ a = y.idx
  BY DEF ytdl_info_get_best_video_format, ytdl_info_get_best_audio_format
<1>4. \A i \in 1..n : /\ Size(formats[i]) \in Nat
                      /\ VideoScore(formats[i]) = Size(formats[i]) + 2
                      /\ AudioOnly(formats[i]) => Rate(formats[i]) \in Nat
  BY <1>1, FormatFacts
<1>5. \A f \in all : \E i \in 1..n : f = formats[i]
  BY <1>1
<1>6. \A i \in 1..n : formats[i] \in all
  BY <1>1
<1> HIDE DEF n, all, x, y
<1>7. v \in 1..n /\ a \in 1..n
  BY <1>1, <1>2, <1>3 DEF VideoBest, AudioBest, FirstChoice
<1>8. ASSUME NEW f \in all, f.vid
      PROVE  formats[v].vid /\ \A h \in all : h.vid => Size(h) <= Size(formats[v])
  <2>1. PICK i \in 1..n : f = formats[i]
    BY <1>5
  <2>2. /\ formats[v].vid
        /\ \A j \in 1..n : formats[j].vid => VideoScore(formats[j]) <= VideoScore(formats[v])
    BY <1>2, <1>3, <1>8, <2>1 DEF VideoBest
  <2>3. \A j \in 1..n : formats[j].vid => Size(formats[j]) <= Size(formats[v])
    BY <1>4, <1>7, <2>2
  <2> QED
    BY <1>5, <2>2, <2>3
<1>9. ASSUME NEW f \in all, AudioOnly(f), Rate(f) > 0
      PROVE  /\ AudioOnly(formats[a])
             /\ \A h \in all : AudioOnly(h) => Rate(h) <= Rate(formats[a])
  <2>1. PICK i \in 1..n : f = formats[i]
    BY <1>5
  <2>2. Rate(formats[i]) # 0
    BY <1>9, <2>1
  <2>3. /\ AudioOnly(formats[a])
        /\ \A j \in 1..n : AudioOnly(formats[j]) => Rate(formats[j]) <= Rate(formats[a])
    BY <1>2, <1>3, <1>9, <2>1, <2>2 DEF AudioBest
  <2> QED
    BY <1>5, <2>3
<1>10. ASSUME ~\E f \in all : AudioOnly(f) /\ Rate(f) > 0 PROVE a = 1
  <2>1. CASE y = FirstChoice
    BY <1>3, <2>1 DEF FirstChoice
  <2>2. CASE y # FirstChoice
    <3>1. a \in 1..n /\ AudioOnly(formats[a]) /\ y.score = -Rate(formats[a]) /\ y.score < 0
      BY <1>2, <1>3, <2>2 DEF AudioBest
    <3>2. Rate(formats[a]) > 0
      BY <1>4, <3>1
    <3> QED
      BY <1>6, <1>10, <3>1, <3>2
  <2> QED
    BY <2>1, <2>2
<1> QED
  BY <1>7, <1>8, <1>9, <1>10 DEF n, all

LEMMA ChooseStep == AddressInv /\ Choose => AddressInv'
<1> SUFFICES ASSUME AddressInv, Choose PROVE AddressInv'
  OBVIOUS
<1> USE DEF AddressInv
<1>1. stage = "choose" /\ UNCHANGED <<js, formats, verbose, actions, url, requested>>
  BY DEF Choose
<1>2. /\ formats \in Seq(Format) /\ js \in Players
      /\ actions = ytdl_sig_actions_extract(js)
      /\ requested = [w \in Streams |-> NoUrl]
  BY <1>1 DEF CaseInv, ActionsInv, Early
<1>3. \A w \in Streams : requested'[w] = NoUrl
  BY <1>1, <1>2
<1>4. CacheInv'
  BY <1>1 DEF CacheInv
<1>5. ASSUME stage' \notin Early PROVE ActionsInv'
  BY <1>1, <1>2, <1>5 DEF ActionsInv, Early
<1>6. CASE formats = <<>> \/ \E i \in DOMAIN formats : DividesByZero(formats[i])
  <2>1. stage' = "crashed" /\ UNCHANGED chosen
    BY <1>6 DEF Choose
  <2>2. stage' \notin Early /\ stage' \notin DOMAIN After \cup {"done"}
    BY <2>1 DEF After, Early
  <2>3. CaseInv'
    BY <1>1, <1>2, <2>1 DEF CaseInv
  <2>4. RequestInv'
    BY <1>1, <1>3, <2>2 DEF RequestInv
  <2>5. ChosenIsBest'
    BY <2>2 DEF ChosenIsBest
  <2>6. SoundInputSurvives'
    BY <1>1, <1>6 DEF SoundInputSurvives, IsSound
  <2> QED
    BY <1>4, <1>5, <2>2, <2>3, <2>4, <2>5, <2>6
<1>7. CASE ~(formats = <<>> \/ \E i \in DOMAIN formats : DividesByZero(formats[i]))
  <2> DEFINE v == ytdl_info_get_best_video_format
             a == ytdl_info_get_best_audio_format
             all == {formats[i] : i \in DOMAIN formats}
  <2>1. chosen' = [w \in Streams |-> IF w = "video" THEN v ELSE a]
        /\ stage' \in {"log video", "init video"}
    BY <1>7 DEF Choose
  <2>2. /\ v \in 1..Len(formats) /\ a \in 1..Len(formats)
        /\ (\E f \in all : f.vid) =>
             formats[v].vid /\ \A f \in all : f.vid => Size(f) <= Size(formats[v])
        /\ IF \E f \in all : AudioOnly(f) /\ Rate(f) > 0
             THEN /\ AudioOnly(formats[a])
                  /\ \A f \in all : AudioOnly(f) => Rate(f) <= Rate(formats[a])
             ELSE a = 1
    BY <1>2, <1>7, ChosenAreBest
  <2> HIDE DEF v, a
  <2>3. chosen'["video"] = v /\ chosen'["audio"] = a
        /\ \A w \in Streams : chosen'[w] \in 1..Len(formats)
    BY <2>1, <2>2 DEF Streams
  <2>4. /\ stage' \notin Early /\ stage' # "crashed"
        /\ stage' \in DOMAIN After
    BY <2>1 DEF After, Early
  <2>5. CaseInv'
    BY <1>1, <1>2, <2>4 DEF CaseInv
  <2>6. RequestInv'
    BY <1>1, <1>3, <2>3 DEF RequestInv
  <2>7. ChosenIsBest'
    BY <1>1, <2>2, <2>3 DEF ChosenIsBest
  <2>8. SoundInputSurvives'
    BY <2>4 DEF SoundInputSurvives
  <2> QED
    BY <1>4, <1>5, <2>4, <2>5, <2>6, <2>7, <2>8
<1> QED
  BY <1>6, <1>7

(* Asking for an address caches what it is completed to.                   *)
LEMMA Cached1 ==
  ASSUME CacheInv, NEW i \in 1..Len(formats), UNCHANGED <<js, formats>>,
         \/ UNCHANGED url
         \/ url' = [url EXCEPT ![i] = Completed(js, formats[i])]
  PROVE  CacheInv'
BY DEF CacheInv

LEMMA LogStep ==
  ASSUME AddressInv, NEW w \in Streams, Log(w)
  PROVE  AddressInv'
<1> USE DEF AddressInv
<1> DEFINE i == chosen[w]
           u == ytdl_info_get_format_url2(i)
<1>1. /\ stage \in {"log video", "log audio"}
      /\ UNCHANGED <<js, formats, verbose, actions, chosen, requested>>
      /\ IF IsCorrupt(u) THEN stage' = "crashed" /\ UNCHANGED url
         ELSE stage' = After[stage] /\ url' = [url EXCEPT ![i] = u]
  BY DEF Log
<1>2. stage \in DOMAIN After /\ stage \notin Early
  BY <1>1 DEF After, Early
<1>3. i \in 1..Len(formats) /\ formats \in Seq(Format) /\ js \in Players
  BY <1>2 DEF RequestInv, CaseInv
<1>4. u = Completed(js, formats[i])
  BY <1>2, <1>3, AskedFor
<1>5. stage' = "crashed" \/ stage' \in {"log audio", "init video"}
  BY <1>1 DEF After
<1>6. stage' \notin Early /\ (stage' = "crashed" \/ stage' \in DOMAIN After)
      /\ "crashed" \notin DOMAIN After \cup {"done"}
  BY <1>5 DEF After, Early
<1>7. CaseInv'
  BY <1>1, <1>6 DEF CaseInv
<1>8. ActionsInv'
  BY <1>1, <1>2, <1>6 DEF ActionsInv, Early
<1>9. CacheInv'
  BY <1>1, <1>3, <1>4, Cached1
<1>10. RequestInv'
  BY <1>1, <1>2 DEF RequestInv
<1>11. ChosenIsBest'
  BY <1>1, <1>2 DEF ChosenIsBest
<1>12. SoundInputSurvives'
  <2>1. SUFFICES ASSUME stage' = "crashed", IsPlain(js),
                        \A j \in DOMAIN formats : IsSound(formats[j])
                 PROVE  FALSE
    BY <1>1 DEF SoundInputSurvives, IsSound
  <2>2. IsCorrupt(u)
    BY <1>1, <1>2, <1>6, <2>1 DEF After
  <2>3. formats[i] \in Format /\ IsSound(formats[i])
    BY <1>3, <2>1, ElementOfSeq, LenProperties
  <2> QED
    BY <1>3, <1>4, <2>1, <2>2, <2>3, SoundIsCompleted
<1> QED
  BY <1>7, <1>8, <1>9, <1>10, <1>11, <1>12

LEMMA RequestStep ==
  ASSUME AddressInv, NEW w \in Streams, ytdl_dl_media_ctx_init(w)
  PROVE  AddressInv'
<1> USE DEF AddressInv
<1> DEFINE i == chosen[w]
           u == ytdl_info_get_format_url2(i)
<1>1. /\ stage \in {"init video", "init audio"}
      /\ UNCHANGED <<js, formats, verbose, actions, chosen>>
      /\ IF IsCorrupt(u) \/ u = NoUrl
           THEN stage' = "crashed" /\ UNCHANGED <<url, requested>>
           ELSE /\ stage' = After[stage] /\ url' = [url EXCEPT ![i] = u]
                /\ requested' = [requested EXCEPT ![w] = u]
  BY DEF ytdl_dl_media_ctx_init
<1>2. stage \in DOMAIN After /\ stage \notin Early
  BY <1>1 DEF After, Early
<1>3. i \in 1..Len(formats) /\ formats \in Seq(Format) /\ js \in Players
  BY <1>2 DEF RequestInv, CaseInv
<1>4. u = Completed(js, formats[i])
  BY <1>2, <1>3, AskedFor
<1>5. stage' = "crashed" \/ stage' \in {"init audio", "done"}
  BY <1>1 DEF After
<1>6. stage' \notin Early /\ (stage' = "crashed" \/ stage' \in DOMAIN After \cup {"done"})
      /\ "crashed" \notin DOMAIN After \cup {"done"}
  BY <1>5 DEF After, Early
<1>7. CaseInv'
  BY <1>1, <1>6 DEF CaseInv
<1>8. ActionsInv'
  BY <1>1, <1>2, <1>6 DEF ActionsInv, Early
<1>9. CacheInv'
  BY <1>1, <1>3, <1>4, Cached1
<1>10. RequestInv'
  <2>1. requested' = requested \/ requested' = [requested EXCEPT ![w] = u]
    BY <1>1
  <2> HIDE DEF u
  <2>2. DOMAIN requested' = Streams
    BY <2>1 DEF RequestInv
  <2>3. ASSUME NEW z \in Streams, requested'[z] # NoUrl
        PROVE  chosen[z] \in 1..Len(formats) /\ requested'[z] = Completed(js, formats[chosen[z]])
    <3>1. CASE requested'[z] = requested[z]
      BY <2>3, <3>1 DEF RequestInv
    <3>2. CASE requested'[z] # requested[z]
      <4>1. z = w /\ requested'[z] = u
        BY <2>1, <3>2 DEF RequestInv
      <4> QED
        BY <1>3, <1>4, <4>1
    <3> QED
      BY <3>1, <3>2
  <2> QED
    BY <1>1, <1>2, <2>2, <2>3 DEF RequestInv
<1>11. ChosenIsBest'
  BY <1>1, <1>2 DEF ChosenIsBest
<1>12. SoundInputSurvives'
  <2>1. SUFFICES ASSUME stage' = "crashed", IsPlain(js),
                        \A j \in DOMAIN formats : IsSound(formats[j])
                 PROVE  FALSE
    BY <1>1 DEF SoundInputSurvives, IsSound
  <2>2. IsCorrupt(u) \/ u = NoUrl
    BY <1>1, <1>2, <1>6, <2>1 DEF After
  <2>3. formats[i] \in Format /\ IsSound(formats[i])
    BY <1>3, <2>1, ElementOfSeq, LenProperties
  <2> QED
    BY <1>3, <1>4, <2>1, <2>2, <2>3, SoundIsCompleted
<1> QED
  BY <1>7, <1>8, <1>9, <1>10, <1>11, <1>12

LEMMA AddressStep == AddressInv /\ [AddressNext]_address_vars => AddressInv'
<1> SUFFICES ASSUME AddressInv, [AddressNext]_address_vars PROVE AddressInv'
  OBVIOUS
<1>1. CASE UNCHANGED address_vars
  BY <1>1 DEF address_vars, AddressInv, CaseInv, ActionsInv, CacheInv, RequestInv,
              ChosenIsBest, SoundInputSurvives, IsSound
<1>2. CASE Extract
  BY <1>2, ExtractStep
<1>3. CASE Choose
  BY <1>3, ChooseStep
<1>4. ASSUME NEW w \in Streams, Log(w) PROVE AddressInv'
  BY <1>4, LogStep
<1>5. ASSUME NEW w \in Streams, ytdl_dl_media_ctx_init(w) PROVE AddressInv'
  BY <1>5, RequestStep
<1> QED
  BY <1>1, <1>2, <1>3, <1>4, <1>5 DEF AddressNext

(* The signatures that are asked with are the player's.                    *)
LEMMA InvDeciphers == AddressInv => DecipheredAsPlayer
<1> SUFFICES ASSUME AddressInv, NEW w \in Streams, IsRequested(w)
             PROVE  /\ (Requested(w).cipher /\ IsPlain(js) /\ FitsLength(js, Requested(w).sig))
                         => requested[w].sig = PlayerDeciphered(js, Requested(w).sig)
                    /\ requested[w].calls = IF Requested(w).n THEN 1 ELSE 0
  BY DEF DecipheredAsPlayer
<1> DEFINE f == Requested(w)
           c == Completed(js, f)
           d == Deciphered(ytdl_sig_actions_extract(js), f.sig, f.slack)
<1>1. requested[w] = c /\ c # NoUrl /\ chosen[w] \in 1..Len(formats)
  BY DEF AddressInv, RequestInv, IsRequested, Requested
<1>2. f \in Format /\ js \in Players
  BY <1>1, ElementOfSeq DEF AddressInv, CaseInv, Requested
<1>3. f.sig \in Seq(Chars) /\ f.slack \in Nat
  BY <1>2 DEF Format
<1>4. ASSUME IsPlain(js), FitsLength(js, f.sig)
      PROVE  d = PlayerDeciphered(js, f.sig)
  BY <1>2, <1>3, <1>4, DecipheredIsPlayers
<1> HIDE DEF f, d
<1>5. c.calls = IF f.n THEN 1 ELSE 0
  BY <1>1 DEF Completed
<1>6. f.cipher => c.sig = d
  BY <1>1 DEF Completed, d
<1> QED
  BY <1>1, <1>4, <1>5, <1>6 DEF f

-----------------------------------------------------------------------------
(* The theorems about FormatUrl.                                           *)

LEMMA AddressAlways == AddressSpec => []AddressInv
<1> QED
  BY AddressStart, AddressStep, PTL DEF AddressSpec

(* The formats that are downloaded are the best of any list                *)
(* (ytdl_info_get_best_video_format, ytdl_info_get_best_audio_format).     *)
THEOREM BestAreDownloaded == AddressSpec => []ChosenIsBest
<1>1. AddressInv => ChosenIsBest
  BY DEF AddressInv
<1> QED
  BY <1>1, AddressAlways, PTL

(* For a player of any number of helpers and calls, and a signature of any *)
(* length they fit, the C buffer ends up with what the player's own code   *)
(* computes, and the function for n was applied once                       *)
(* (ytdl_sig_actions_extract, ytdl_info_get_format_url2).                  *)
THEOREM SignedAsPlayer == AddressSpec => []DecipheredAsPlayer
<1> QED
  BY InvDeciphers, AddressAlways, PTL

(* Sound players and formats never make the program leave a buffer, follow *)
(* a null pointer or divide by zero                                        *)
(* (ytdl_sig_actions_extract, ytdl_info_get_format_url2).                  *)
THEOREM SoundInputIsSafe == AddressSpec => []SoundInputSurvives
<1>1. AddressInv => SoundInputSurvives
  BY DEF AddressInv
<1> QED
  BY <1>1, AddressAlways, PTL

-----------------------------------------------------------------------------
(* The inductive invariant of the URL parser.                              *)

(* FirstIn of a text, and the places of the delimiters.                    *)
FirstOf(t, chars, i) ==
  CHOOSE j \in i..Len(t) + 1 :
    /\ j = Len(t) + 1 \/ t[j] \in chars
    /\ \A k \in i..j - 1 : t[k] \notin chars

Delimiters == {"/", "?"}
PathEnds == {"?", "#"}
FragmentChars == UrlChars \cup {"?"}

Lettered(t) == t # <<>> /\ t[1] \in Alpha
Colon(t) == FirstOf(t, {":"}, 1)
From(t) == IF Lettered(t) THEN Colon(t) + 3 ELSE 1
To(t) == IF Lettered(t) THEN FirstOf(t, Delimiters, From(t)) ELSE 1
PathEnd(t) == FirstOf(t, PathEnds, To(t))
HashAt(t) == FirstOf(t, {"#"}, To(t))
FragmentAt(t) == FirstOf(t, FragmentChars, HashAt(t))

(* The characters from place i to before place j.                          *)
Piece(i, j) == IF i < j THEN [off |-> i - 1, len |-> j - i] ELSE NoField
IsPiece(fs, fd, f, i, j) == fd[f] = Piece(i, j) /\ (f \in fs <=> i < j)

(* States of the first automaton before the authority, in it, behind it.   *)
Ahead == {"before_url", "schema", "schema_slash", "schema_slash_slash"}
Behind == {"path", "fragment_start", "fragment"} \cup Query
UrlStates == Ahead \cup Server \cup Behind

(* What was read of the schema, and of all fields but the authority's.     *)
SchemaRead(t, fs, fd) ==
  IsPiece(fs, fd, "schema", 1, IF Lettered(t) THEN Colon(t) ELSE 1)
TailRead(t, fs, fd) ==
  /\ IsPiece(fs, fd, "path", To(t), PathEnd(t))
  /\ IsPiece(fs, fd, "query", PathEnd(t) + 1, HashAt(t))
  /\ IsPiece(fs, fd, "fragment", FragmentAt(t), Len(t) + 1)

(* Where the first automaton is.                                           *)
AheadRead(t, st) ==
  LET L == Len(t) IN
  IF st = "before_url" THEN L = 0
  ELSE /\ Lettered(t)
       /\ CASE st = "schema" -> Colon(t) = L + 1
            [] st = "schema_slash" -> Colon(t) = L
            [] OTHER -> Colon(t) = L - 1
BehindRead(t, st) ==
  LET L == Len(t) IN
  /\ Lettered(t) => Colon(t) + 3 <= L
  /\ To(t) <= L
  /\ CASE st = "path" -> PathEnd(t) = L + 1 /\ HashAt(t) = L + 1
       [] st = "query_string_start" -> PathEnd(t) = L /\ HashAt(t) = L + 1
       [] st = "query_string" -> PathEnd(t) < L /\ HashAt(t) = L + 1
       [] st = "fragment_start" -> /\ PathEnd(t) <= HashAt(t) /\ HashAt(t) <= L
                                   /\ FragmentAt(t) = L + 1
       [] OTHER -> /\ PathEnd(t) <= HashAt(t) /\ HashAt(t) <= FragmentAt(t)
                   /\ FragmentAt(t) <= L
ServerRead(t, st) ==
  /\ Lettered(t) /\ Colon(t) + 2 <= Len(t) /\ To(t) = Len(t) + 1
  /\ st = "server_start" <=> Colon(t) + 2 = Len(t)

(* The URL as far as the first automaton has read it.                      *)
UrlRead(t, st, old, fa, fs, fd) ==
  /\ st \in UrlStates
  /\ old \in fs \cup {"none"} /\ (st \in DOMAIN UrlField => old = UrlField[st])
  /\ SchemaRead(t, fs, fd)
  /\ IsPiece(fs, fd, "userinfo", 1, 1) /\ IsPiece(fs, fd, "port", 1, 1)
  /\ IF st \in Ahead
       THEN /\ AheadRead(t, st) /\ ~fa
            /\ \A f \in Fields \ {"schema"} : IsPiece(fs, fd, f, 1, 1)
       ELSE /\ IF st \in Server THEN ServerRead(t, st) ELSE BehindRead(t, st)
            /\ IsPiece(fs, fd, "host", From(t), To(t))
            /\ TailRead(t, fs, fd)
            /\ fa <=> Lettered(t) /\ FirstOf(t, {"@"}, From(t)) < To(t)

(* The authority as far as the second automaton has read it: its user      *)
(* information up to an @, its host up to a bracket or colon, its port.    *)
UserTo(t) == FirstOf(t, {"@"}, From(t))
HostAt(t, fa) == IF fa THEN UserTo(t) + 1 ELSE From(t)
Bracketed(t, fa) == IF t[HostAt(t, fa)] = "[" THEN 1 ELSE 0
HostEnd(t, fa) ==
  FirstOf(t, IF Bracketed(t, fa) = 1 THEN {"]"} ELSE {":"}, HostAt(t, fa))

OfUser == {"userinfo_start", "userinfo"}
OfAddress == {"v6", "zone_start", "zone"}
Unopened == OfUser \cup {"host_start", "v6_start"}
HostStates == Unopened \cup OfAddress \cup {"host", "v6_end", "port_start", "port"}

UserRead(t, st, fa, fs, fd, pos) ==
  /\ fa /\ pos < UserTo(t) /\ IsPiece(fs, fd, "userinfo", From(t), pos + 1)
  /\ IF st = "userinfo" THEN From(t) <= pos ELSE pos = From(t) - 1
  /\ fd["host"].len = 0 /\ IsPiece(fs, fd, "port", 1, 1)

HostRead(t, st, fa, fs, fd, pos) ==
  LET H == HostAt(t, fa)
      B == Bracketed(t, fa)
      T == HostEnd(t, fa)
  IN
  /\ IsPiece(fs, fd, "userinfo", From(t), H - 1)
  /\ pos < FirstOf(t, {"@"}, H)
  /\ IF st = "port" THEN T + B < pos /\ IsPiece(fs, fd, "port", T + B + 1, pos + 1)
                    ELSE IsPiece(fs, fd, "port", 1, 1)
  /\ CASE st = "host_start" -> pos = H - 1 /\ fd["host"].len = 0
       [] st = "v6_start" -> pos = H /\ B = 1 /\ fd["host"].len = 0 /\ pos < T
       [] st = "host" -> H <= pos /\ pos < T /\ B = 0 /\ fd["host"] = Piece(H, pos + 1)
       [] st \in OfAddress -> H < pos /\ pos < T /\ B = 1 /\ fd["host"] = Piece(H + 1, pos + 1)
       [] OTHER -> /\ H + B < T /\ fd["host"] = Piece(H + B, T)
                   /\ st = "v6_end" => B = 1 /\ pos = T
                   /\ st = "port_start" => pos = T + B

AuthorityRead(t, st, fa, fs, fd, pos, to) ==
  /\ st \in HostStates /\ pos <= to /\ to = To(t) - 1
  /\ Lettered(t) /\ From(t) < To(t) /\ From(t) <= Len(t)
  /\ fa <=> UserTo(t) < To(t)
  /\ SchemaRead(t, fs, fd) /\ TailRead(t, fs, fd) /\ "host" \in fs
  /\ IF st \in OfUser THEN UserRead(t, st, fa, fs, fd, pos)
                      ELSE HostRead(t, st, fa, fs, fd, pos)

(* Where fields can be, in URLs of any length.                             *)
UrlBounds ==
  /\ text \in Seq(Characters) /\ template \in Templates
  /\ phase \in {"url", "host", "parsed", "error"} /\ found_at \in BOOLEAN
  /\ field \in [Fields -> [off : Nat, len : Nat]] /\ at \in Nat /\ end \in Nat
  /\ phase = "url" => s \in UrlStates
  /\ phase = "host" =>
       /\ s \in HostStates /\ at <= end
       /\ s \in DOMAIN HostField =>
            field[HostField[s]].off + field[HostField[s]].len <= at
       /\ s \in Unopened => field["host"].len = 0

Bounded == UrlBounds /\ FieldsInBuffer

(* Where the host ends: at its bracket or colon, or with the authority.    *)
HostStop(t, fa) == IF HostEnd(t, fa) < To(t) THEN HostEnd(t, fa) ELSE To(t)

(* A URL that was taken apart.                                             *)
ParsedRead(t, fa, fs, fd) ==
  /\ t # <<>> /\ (Lettered(t) => From(t) <= Len(t))
  /\ SchemaRead(t, fs, fd) /\ TailRead(t, fs, fd)
  /\ IF Lettered(t)
       THEN LET H == HostAt(t, fa)
                B == Bracketed(t, fa)
                T == HostStop(t, fa)
            IN
            /\ From(t) < To(t) /\ (fa <=> UserTo(t) < To(t))
            /\ To(t) <= FirstOf(t, {"@"}, H)
            /\ IsPiece(fs, fd, "userinfo", From(t), H - 1)
            /\ IsPiece(fs, fd, "host", H + B, T)
            /\ IsPiece(fs, fd, "port", T + B + 1, To(t))
       ELSE \A f \in {"userinfo", "host", "port"} : IsPiece(fs, fd, f, 1, 1)

(* The URL as far as the automaton that runs has read it, while offsets    *)
(* fit.                                                                    *)
UrlInv ==
  /\ Bounded
  /\ Len(text) < Width =>
       /\ phase = "url" => UrlRead(text, s, old_uf, found_at, field_set, field) /\ port = 0
       /\ phase = "host" => AuthorityRead(text, s, found_at, field_set, field, at, end)
       /\ phase = "parsed" => /\ ParsedRead(text, found_at, field_set, field)
                              /\ port = Number(TextOf("port"))

-----------------------------------------------------------------------------
(* Delimiters.                                                             *)

LEMMA FirstFacts ==
  ASSUME NEW t \in Seq(Characters), NEW chars, NEW i \in Nat, i # 0, i <= Len(t) + 1
  PROVE  /\ FirstOf(t, chars, i) \in Nat /\ Len(t) \in Nat
         /\ i <= FirstOf(t, chars, i) /\ FirstOf(t, chars, i) <= Len(t) + 1
         /\ FirstOf(t, chars, i) = Len(t) + 1 \/ t[FirstOf(t, chars, i)] \in chars
         /\ \A k \in i..FirstOf(t, chars, i) - 1 : t[k] \notin chars
<1> DEFINE L == Len(t)
           IsFirst(j) == /\ j = L + 1 \/ t[j] \in chars
                         /\ \A k \in i..j - 1 : t[k] \notin chars
           T == {j \in i..L + 1 : j = L + 1 \/ t[j] \in chars}
           f == CHOOSE j \in i..L + 1 : IsFirst(j)
<1>1. L \in Nat
  BY LenProperties
<1>2. FirstOf(t, chars, i) = f
  BY DEF FirstOf
<1>3. PICK m \in T : \A j \in T : m <= j
  <2>1. T \subseteq Nat /\ L + 1 \in T
    BY <1>1
  <2> HIDE DEF T
  <2> QED
    BY <2>1, NatMin
<1>4. m \in i..L + 1 /\ IsFirst(m)
  <2>1. ASSUME NEW k \in i..m - 1, t[k] \in chars PROVE FALSE
    <3>1. k \in T /\ k < m
      BY <1>1, <1>3, <2>1
    <3> QED
      BY <1>3, <3>1
  <2> QED
    BY <1>3, <2>1
<1> HIDE DEF IsFirst
<1>5. f \in i..L + 1 /\ IsFirst(f)
  BY <1>4
<1> HIDE DEF f, L
<1> QED
  BY <1>1, <1>2, <1>5 DEF IsFirst, L

LEMMA FirstIs ==
  ASSUME NEW t \in Seq(Characters), NEW chars, NEW i \in Nat, i # 0,
         NEW j \in i..Len(t) + 1, j = Len(t) + 1 \/ t[j] \in chars,
         \A k \in i..j - 1 : t[k] \notin chars
  PROVE  FirstOf(t, chars, i) = j
<1> DEFINE f == FirstOf(t, chars, i)
<1>1. Len(t) \in Nat
  BY LenProperties
<1>2. /\ f \in Nat /\ i <= f /\ f <= Len(t) + 1 /\ (f = Len(t) + 1 \/ t[f] \in chars)
      /\ \A k \in i..f - 1 : t[k] \notin chars
  BY <1>1, FirstFacts
<1> HIDE DEF f
<1>3. ~(f < j)
  BY <1>1, <1>2
<1>4. ~(j < f)
  BY <1>1, <1>2
<1> QED
  BY <1>1, <1>2, <1>3, <1>4 DEF f

LEMMA Grown ==
  ASSUME NEW t \in Seq(Characters), NEW ch \in Characters
  PROVE  /\ Append(t, ch) \in Seq(Characters) /\ Len(Append(t, ch)) = Len(t) + 1
         /\ Len(t) \in Nat
         /\ \A k \in 1..Len(t) : Append(t, ch)[k] = t[k]
         /\ Append(t, ch)[Len(t) + 1] = ch
BY AppendProperties, LenProperties

(* What a further character does to the first delimiter.                   *)
LEMMA FirstGrown ==
  ASSUME NEW t \in Seq(Characters), NEW ch \in Characters, NEW chars,
         NEW i \in Nat, i # 0, i <= Len(t) + 1
  PROVE  FirstOf(Append(t, ch), chars, i) =
           IF FirstOf(t, chars, i) <= Len(t) THEN FirstOf(t, chars, i)
           ELSE IF ch \in chars THEN Len(t) + 1 ELSE Len(t) + 2
<1> DEFINE u == Append(t, ch)
           f == FirstOf(t, chars, i)
           L == Len(t)
<1>1. /\ u \in Seq(Characters) /\ Len(u) = L + 1 /\ L \in Nat
      /\ \A k \in 1..L : u[k] = t[k]
      /\ u[L + 1] = ch
  BY Grown
<1>2. /\ f \in Nat /\ i <= f /\ f <= L + 1 /\ (f = L + 1 \/ t[f] \in chars)
      /\ \A k \in i..f - 1 : t[k] \notin chars
  BY FirstFacts
<1> HIDE DEF u, f, L
<1>3. i <= L + 1
  BY DEF L
<1>4. CASE f <= L
  <2>1. f \in i..Len(u) + 1 /\ u[f] \in chars /\ \A k \in i..f - 1 : u[k] \notin chars
    BY <1>1, <1>2, <1>4
  <2>2. FirstOf(u, chars, i) = f
    BY <1>1, <2>1, FirstIs
  <2> QED
    BY <1>4, <2>2 DEF u, f, L
<1>5. CASE ~(f <= L) /\ ch \in chars
  <2>1. L + 1 \in i..Len(u) + 1 /\ u[L + 1] \in chars
        /\ \A k \in i..(L + 1) - 1 : u[k] \notin chars
    BY <1>1, <1>2, <1>3, <1>5
  <2>2. FirstOf(u, chars, i) = L + 1
    BY <1>1, <2>1, FirstIs
  <2> QED
    BY <1>5, <2>2 DEF u, f, L
<1>6. CASE ~(f <= L) /\ ch \notin chars
  <2>1. L + 2 \in i..Len(u) + 1 /\ L + 2 = Len(u) + 1
        /\ \A k \in i..(L + 2) - 1 : u[k] \notin chars
    BY <1>1, <1>2, <1>3, <1>6
  <2>2. FirstOf(u, chars, i) = L + 2
    BY <1>1, <2>1, FirstIs
  <2> QED
    BY <1>6, <2>2 DEF u, f, L
<1> QED
  BY <1>4, <1>5, <1>6

LEMMA FirstAtEnd ==
  ASSUME NEW t \in Seq(Characters), NEW chars
  PROVE  FirstOf(t, chars, Len(t) + 1) = Len(t) + 1
<1>1. Len(t) \in Nat /\ Len(t) + 1 \in Nat /\ Len(t) + 1 # 0
  BY LenProperties
<1>2. Len(t) + 1 \in Len(t) + 1..Len(t) + 1
      /\ \A k \in Len(t) + 1..(Len(t) + 1) - 1 : t[k] \notin chars
  BY <1>1
<1> QED
  BY <1>1, <1>2, FirstIs

-----------------------------------------------------------------------------
(* A step of the first automaton.                                          *)

(* A move that the automaton makes is one of its moves.                    *)
LEMMA MovedIsMove ==
  ASSUME NEW moves, NEW st, NEW ch, NEW next, next = Moved(moves, st, ch), next # "dead"
  PROVE  \E m \in moves : st \in m.from /\ ch \in m.on /\ next = m.to
<1> DEFINE Takes(m) == st \in m.from /\ ch \in m.on
           c == CHOOSE m \in moves : Takes(m)
<1>1. \E m \in moves : Takes(m)
  BY DEF Moved
<1>2. next = c.to
  BY <1>1 DEF Moved
<1> HIDE DEF Takes
<1>3. c \in moves /\ Takes(c)
  BY <1>1
<1> HIDE DEF c
<1> QED
  BY <1>2, <1>3 DEF Takes

(* What a step to a state does with the fields.                            *)
UrlEffect ==
  IF s' \notin DOMAIN UrlField THEN UNCHANGED <<old_uf, field_set, field>>
  ELSE LET uf == UrlField[s'] IN
       /\ old_uf' = uf /\ field_set' = field_set \cup {uf}
       /\ field' = [field EXCEPT ![uf] = IF uf = old_uf THEN Longer(@)
                                                      ELSE Started(Len(text))]

LEMMA CharFacts ==
  /\ ":" \notin Alpha /\ "/" \notin Alpha /\ "*" \notin Alpha
  /\ "#" \notin FragmentChars /\ "#" \notin UrlChars /\ "?" \notin UrlChars
  /\ "@" \notin UserinfoChars \cup {"[", "]"} /\ "@" \notin Delimiters
  /\ \A ch \in UserinfoChars \cup {"[", "]"} : ch \notin Delimiters /\ ch # "?"
BY DEF FragmentChars, UrlChars, UserinfoChars, ZoneChars, HostChars, AlphaNum, Alpha,
       Digits, Delimiters

(* The places of a text are where they can be.                             *)
LEMMA PlaceFacts ==
  ASSUME NEW t \in Seq(Characters), t # <<>>, Lettered(t) => From(t) <= Len(t) + 1
  PROVE  /\ Len(t) \in Nat /\ Len(t) # 0 /\ From(t) \in Nat /\ From(t) # 0
         /\ Lettered(t) => Colon(t) \in Nat /\ 1 <= Colon(t) /\ From(t) = Colon(t) + 3
         /\ To(t) \in Nat /\ From(t) <= To(t) /\ To(t) <= Len(t) + 1
         /\ PathEnd(t) \in Nat /\ To(t) <= PathEnd(t) /\ PathEnd(t) <= Len(t) + 1
         /\ HashAt(t) \in Nat /\ To(t) <= HashAt(t) /\ HashAt(t) <= Len(t) + 1
         /\ FragmentAt(t) \in Nat /\ HashAt(t) <= FragmentAt(t)
         /\ FragmentAt(t) <= Len(t) + 1
         /\ UserTo(t) \in Nat /\ From(t) <= UserTo(t) /\ UserTo(t) <= Len(t) + 1
<1> DEFINE L == Len(t)
<1>1. L \in Nat /\ L # 0
  BY LenProperties, EmptySeq
<1>2. Colon(t) \in Nat /\ 1 <= Colon(t)
  BY <1>1, FirstFacts DEF Colon
<1>3. From(t) \in Nat /\ From(t) # 0 /\ From(t) <= L + 1
      /\ (Lettered(t) => From(t) = Colon(t) + 3)
  BY <1>1, <1>2 DEF From
<1> HIDE DEF L
<1>4. To(t) \in Nat /\ From(t) <= To(t) /\ To(t) <= L + 1
  <2>1. CASE Lettered(t)
    <3>1. To(t) = FirstOf(t, Delimiters, From(t))
      BY <2>1 DEF To
    <3> QED
      BY <1>3, <3>1, FirstFacts DEF L
  <2>2. CASE ~Lettered(t)
    BY <1>1, <2>2 DEF From, To
  <2> QED
    BY <2>1, <2>2
<1>5. To(t) # 0
  BY <1>3, <1>4
<1>6. PathEnd(t) \in Nat /\ To(t) <= PathEnd(t) /\ PathEnd(t) <= L + 1
  BY <1>4, <1>5, FirstFacts DEF PathEnd, L
<1>7. HashAt(t) \in Nat /\ To(t) <= HashAt(t) /\ HashAt(t) <= L + 1
  BY <1>4, <1>5, FirstFacts DEF HashAt, L
<1>8. HashAt(t) # 0
  BY <1>4, <1>5, <1>7
<1>9. FragmentAt(t) \in Nat /\ HashAt(t) <= FragmentAt(t) /\ FragmentAt(t) <= L + 1
  BY <1>7, <1>8, FirstFacts DEF FragmentAt, L
<1>10. UserTo(t) \in Nat /\ From(t) <= UserTo(t) /\ UserTo(t) <= L + 1
  BY <1>3, FirstFacts DEF UserTo, L
<1> QED
  BY <1>1, <1>2, <1>3, <1>4, <1>6, <1>7, <1>9, <1>10 DEF L

(* A place that is not found yet is that of the next character, or after.  *)
Grow(t, ch, x, chars) ==
  IF x <= Len(t) THEN x ELSE IF ch \in chars THEN Len(t) + 1 ELSE Len(t) + 2

LEMMA ColonGrown ==
  ASSUME NEW t \in Seq(Characters), NEW ch \in Characters
  PROVE  /\ Append(t, ch) # <<>>
         /\ t # <<>> => (Lettered(Append(t, ch)) <=> Lettered(t))
         /\ t = <<>> => (Lettered(Append(t, ch)) <=> ch \in Alpha)
         /\ Colon(Append(t, ch)) = Grow(t, ch, Colon(t), {":"})
         /\ Colon(t) \in Nat /\ 1 <= Colon(t) /\ Colon(t) <= Len(t) + 1
<1>1. /\ Append(t, ch) \in Seq(Characters) /\ Len(Append(t, ch)) = Len(t) + 1
      /\ Len(t) \in Nat
      /\ \A k \in 1..Len(t) : Append(t, ch)[k] = t[k]
      /\ Append(t, ch)[Len(t) + 1] = ch
  BY Grown
<1>2. Append(t, ch) # <<>>
  BY <1>1, EmptySeq
<1>3. Len(t) = 0 <=> t = <<>>
  BY EmptySeq
<1>4. t # <<>> => Append(t, ch)[1] = t[1]
  BY <1>1, <1>3
<1>5. Colon(Append(t, ch)) = Grow(t, ch, Colon(t), {":"})
  BY <1>1, FirstGrown DEF Colon, Grow
<1>6. Colon(t) \in Nat /\ 1 <= Colon(t) /\ Colon(t) <= Len(t) + 1
  BY <1>1, FirstFacts DEF Colon
<1>7. t = <<>> => Append(t, ch)[1] = ch
  BY <1>1, <1>3
<1> QED
  BY <1>2, <1>4, <1>5, <1>6, <1>7 DEF Lettered

LEMMA PlacesGrown ==
  ASSUME NEW t \in Seq(Characters), t # <<>>, Lettered(t) => From(t) <= Len(t) + 1,
         NEW ch \in Characters
  PROVE  LET u == Append(t, ch) IN
         /\ From(u) = From(t)
         /\ To(u) = Grow(t, ch, To(t), Delimiters)
         /\ UserTo(u) = Grow(t, ch, UserTo(t), {"@"})
         /\ IF To(t) <= Len(t) \/ ch \in Delimiters
              THEN /\ PathEnd(u) = Grow(t, ch, PathEnd(t), PathEnds)
                   /\ HashAt(u) = Grow(t, ch, HashAt(t), {"#"})
              ELSE PathEnd(u) = Len(t) + 2 /\ HashAt(u) = Len(t) + 2
         /\ FragmentAt(u) = IF HashAt(t) <= Len(t)
              THEN Grow(t, ch, FragmentAt(t), FragmentChars) ELSE Len(t) + 2
<1> DEFINE u == Append(t, ch)
           L == Len(t)
           E == To(t)
           H == HashAt(t)
<1>1. /\ u \in Seq(Characters) /\ Len(u) = L + 1 /\ u # <<>>
      /\ Lettered(u) <=> Lettered(t)
      /\ Colon(u) = Grow(t, ch, Colon(t), {":"})
  BY Grown, ColonGrown
<1>2. /\ L \in Nat /\ L # 0 /\ From(t) \in Nat /\ From(t) # 0
      /\ Lettered(t) => Colon(t) \in Nat /\ 1 <= Colon(t) /\ From(t) = Colon(t) + 3
      /\ E \in Nat /\ From(t) <= E /\ E <= L + 1 /\ H \in Nat /\ E <= H /\ H <= L + 1
      /\ PathEnd(t) \in Nat /\ E <= PathEnd(t) /\ PathEnd(t) <= L + 1
  BY PlaceFacts
<1>3. From(u) = From(t)
  <2>1. CASE Lettered(t)
    <3>1. Colon(t) <= L
      BY <1>2, <2>1
    <3>2. Colon(u) = Colon(t)
      BY <1>1, <3>1 DEF Grow
    <3> QED
      BY <1>1, <2>1, <3>2 DEF From
  <2>2. CASE ~Lettered(t)
    BY <1>1, <2>2 DEF From
  <2> QED
    BY <2>1, <2>2
<1>4. To(u) = Grow(t, ch, E, Delimiters)
  <2>1. CASE Lettered(t)
    <3>1. /\ E = FirstOf(t, Delimiters, From(t))
          /\ To(u) = FirstOf(u, Delimiters, From(t))
      BY <1>1, <1>3, <2>1 DEF To
    <3>2. From(t) <= L + 1
      BY <1>2
    <3> QED
      BY <1>2, <3>1, <3>2, FirstGrown DEF Grow
  <2>2. CASE ~Lettered(t)
    <3>1. E = 1 /\ To(u) = 1
      BY <1>1, <2>2 DEF To
    <3>2. 1 <= L
      BY <1>2
    <3> QED
      BY <3>1, <3>2 DEF Grow
  <2> QED
    BY <2>1, <2>2
<1>5. UserTo(u) = Grow(t, ch, UserTo(t), {"@"})
  <2>1. From(t) <= L + 1
    BY <1>2
  <2> QED
    BY <1>2, <1>3, <2>1, FirstGrown DEF UserTo, Grow
<1>6. ASSUME NEW chars
      PROVE  FirstOf(u, chars, To(u)) =
               IF E <= L \/ ch \in Delimiters THEN Grow(t, ch, FirstOf(t, chars, E), chars)
               ELSE L + 2
  <2>1. CASE E <= L \/ ch \in Delimiters
    <3>1. To(u) = E
      BY <1>2, <1>4, <2>1 DEF Grow
    <3>2. E # 0
      BY <1>2
    <3> QED
      BY <1>2, <2>1, <3>1, <3>2, FirstGrown DEF Grow
  <2>2. CASE ~(E <= L \/ ch \in Delimiters)
    <3>1. To(u) = Len(u) + 1 /\ Len(u) + 1 = L + 2
      BY <1>1, <1>2, <1>4, <2>2 DEF Grow
    <3> QED
      BY <1>1, <2>2, <3>1, FirstAtEnd
  <2> QED
    BY <2>1, <2>2
<1>7. HashAt(u) = IF E <= L \/ ch \in Delimiters THEN Grow(t, ch, H, {"#"}) ELSE L + 2
  BY <1>6 DEF HashAt
<1>8. PathEnd(u) = IF E <= L \/ ch \in Delimiters THEN Grow(t, ch, PathEnd(t), PathEnds)
                   ELSE L + 2
  BY <1>6 DEF PathEnd
<1>9. FragmentAt(u) = IF H <= L THEN Grow(t, ch, FragmentAt(t), FragmentChars) ELSE L + 2
  <2>1. CASE H <= L
    <3>1. HashAt(u) = H
      BY <1>2, <1>7, <2>1 DEF Grow
    <3>2. H # 0
      BY <1>2
    <3> QED
      BY <1>2, <2>1, <3>1, <3>2, FirstGrown DEF FragmentAt, Grow
  <2>2. CASE ~(H <= L) /\ HashAt(u) = L + 1
    <3>1. ch = "#"
      BY <1>2, <1>7, <2>2 DEF Grow
    <3>2. L + 1 \in Nat /\ L + 1 # 0 /\ L + 1 <= L + 1
      BY <1>2
    <3>3. FirstOf(u, FragmentChars, L + 1) = Grow(t, ch, FirstOf(t, FragmentChars, L + 1), FragmentChars)
      BY <3>2, FirstGrown DEF Grow
    <3>4. FirstOf(t, FragmentChars, L + 1) = L + 1
      BY FirstAtEnd
    <3>5. ch \notin FragmentChars
      BY <3>1, CharFacts
    <3>6. ~(L + 1 <= L)
      BY <1>2
    <3> QED
      BY <2>2, <3>3, <3>4, <3>5, <3>6 DEF FragmentAt, Grow
  <2>3. CASE ~(H <= L) /\ HashAt(u) # L + 1
    <3>1. HashAt(u) = Len(u) + 1 /\ Len(u) + 1 = L + 2
      BY <1>1, <1>2, <1>7, <2>3 DEF Grow
    <3>2. FirstOf(u, FragmentChars, Len(u) + 1) = Len(u) + 1
      BY <1>1, FirstAtEnd
    <3> QED
      BY <2>3, <3>1, <3>2 DEF FragmentAt
  <2> QED
    BY <2>1, <2>2, <2>3
<1> HIDE DEF u, L, E, H
<1> QED
  BY <1>3, <1>4, <1>5, <1>7, <1>8, <1>9 DEF u, L, E, H

(* A character is read, the automaton goes on, and the offsets fit.        *)
Reads(ch) ==
  /\ UrlBounds /\ Len(text) + 1 < Width
  /\ UrlRead(text, s, old_uf, found_at, field_set, field)
  /\ ch \in Characters /\ text' = Append(text, ch)
  /\ s' = Moved(parse_url_char, s, ch) /\ s' # "dead"
  /\ found_at' = (found_at \/ s' = "server_with_at")
  /\ UrlEffect

UrlReadNext == UrlRead(text', s', old_uf', found_at', field_set', field')

LEMMA UrlMoves ==
  ASSUME NEW ch, NEW st, NEW next, next = Moved(parse_url_char, st, ch), next # "dead"
  PROVE  /\ next \in UrlStates /\ next # "before_url"
         /\ next = "schema" => st \in {"before_url", "schema"} /\ ch \in Alpha
         /\ next = "schema_slash" => st = "schema" /\ ch = ":"
         /\ next = "schema_slash_slash" => st = "schema_slash" /\ ch = "/"
         /\ next = "server_start" => st = "schema_slash_slash" /\ ch = "/"
         /\ next \in {"server", "server_with_at"} =>
              /\ st \in Server /\ ch \notin Delimiters
              /\ next = "server_with_at" <=> ch = "@"
         /\ next = "path" => \/ st = "before_url" /\ ch \in {"/", "*"}
                             \/ st \in Server /\ ch = "/"
                             \/ st = "path" /\ ch \in UrlChars
         /\ next = "query_string_start" => st \in Server \cup {"path"} /\ ch = "?"
         /\ next = "query_string" => st \in Query /\ ch \in FragmentChars
         /\ next = "fragment_start" =>
              st \in {"path", "fragment_start"} \cup Query /\ ch = "#"
         /\ next = "fragment" => \/ st = "fragment_start" /\ ch \in FragmentChars
                                 \/ st = "fragment" /\ ch \in FragmentChars \cup {"#"}
<1>1. PICK m \in parse_url_char : st \in m.from /\ ch \in m.on /\ next = m.to
  BY MovedIsMove
<1>2. /\ next \in {"server", "server_with_at"} =>
           /\ st \in Server
           /\ \/ next = "server_with_at" /\ ch = "@"
              \/ next = "server" /\ ch \in UserinfoChars \cup {"[", "]"}
      /\ next = "fragment_start" =>
           \/ st \in {"path"} \cup Query /\ ch = "#"
           \/ st = "fragment_start" /\ ch = "#"
  BY <1>1 DEF parse_url_char, Move, Server
<1>3. /\ next \in {"schema", "schema_slash", "schema_slash_slash", "server_start",
                   "server", "server_with_at", "path", "query_string_start",
                   "query_string", "fragment_start", "fragment"}
      /\ next = "schema" => st \in {"before_url", "schema"} /\ ch \in Alpha
      /\ next = "schema_slash" => st = "schema" /\ ch = ":"
      /\ next = "schema_slash_slash" => st = "schema_slash" /\ ch = "/"
      /\ next = "server_start" => st = "schema_slash_slash" /\ ch = "/"
  BY <1>1 DEF parse_url_char, Move
<1>4. /\ next = "path" => \/ st = "before_url" /\ ch \in {"/", "*"}
                          \/ st \in Server /\ ch = "/"
                          \/ st = "path" /\ ch \in UrlChars
      /\ next = "query_string_start" => st \in Server \cup {"path"} /\ ch = "?"
  BY <1>1 DEF parse_url_char, Move
<1>5. /\ next = "query_string" => st \in Query /\ ch \in FragmentChars
      /\ next = "fragment" => \/ st = "fragment_start" /\ ch \in FragmentChars
                              \/ st = "fragment" /\ ch \in FragmentChars \cup {"#"}
  BY <1>1 DEF parse_url_char, Move, FragmentChars
<1>6. next \in UrlStates /\ next # "before_url"
  BY <1>3 DEF UrlStates, Ahead, Server, Behind, Query
<1>7. next \in {"server", "server_with_at"} =>
        ch \notin Delimiters /\ (next = "server_with_at" <=> ch = "@")
  BY <1>2, CharFacts
<1> QED
  BY <1>2, <1>3, <1>4, <1>5, <1>6, <1>7

(* What holds of the fields after any step.                                *)
LEMMA ReadsFacts ==
  ASSUME NEW ch, Reads(ch)
  PROVE  /\ text \in Seq(Characters) /\ Len(text) \in Nat /\ Len(text') = Len(text) + 1
         /\ s' \in UrlStates
         /\ old_uf' \in field_set' \cup {"none"}
         /\ s' \in DOMAIN UrlField => old_uf' = UrlField[s']
         /\ \A f \in Fields : (s' \in DOMAIN UrlField => f # UrlField[s']) =>
              \A i, j : IsPiece(field_set, field, f, i, j)
                        => IsPiece(field_set', field', f, i, j)
         /\ s' \in DOMAIN UrlField =>
              \A i \in 1..Len(text) + 1 :
                IsPiece(field_set, field, UrlField[s'], i, Len(text) + 1)
                  /\ (i <= Len(text) => s \in DOMAIN UrlField /\ UrlField[s] = UrlField[s'])
                => IsPiece(field_set', field', UrlField[s'], i, Len(text) + 2)
<1>1. /\ text \in Seq(Characters) /\ field \in [Fields -> [off : Nat, len : Nat]]
      /\ ch \in Characters
  BY DEF Reads, UrlBounds
<1>2. Len(text) \in Nat /\ Len(text') = Len(text) + 1
  BY <1>1, Grown DEF Reads
<1>3. s' \in UrlStates
  BY UrlMoves DEF Reads
<1>4. /\ old_uf \in field_set \cup {"none"}
      /\ s \in DOMAIN UrlField => old_uf = UrlField[s]
  BY DEF Reads, UrlRead
<1>5. /\ old_uf' \in field_set' \cup {"none"}
      /\ s' \in DOMAIN UrlField => old_uf' = UrlField[s']
      /\ \A f \in Fields : (s' \in DOMAIN UrlField => f # UrlField[s']) =>
           field'[f] = field[f] /\ (f \in field_set' <=> f \in field_set)
      /\ s' \in DOMAIN UrlField =>
           \A i \in 1..Len(text) + 1 :
             IsPiece(field_set, field, UrlField[s'], i, Len(text) + 1)
               /\ (i <= Len(text) => old_uf = UrlField[s'])
             => IsPiece(field_set', field', UrlField[s'], i, Len(text) + 2)
  <2>1. CASE s' \notin DOMAIN UrlField
    BY <1>4, <2>1 DEF Reads, UrlEffect
  <2>2. CASE s' \in DOMAIN UrlField
    <3> DEFINE L == Len(text)
               uf == UrlField[s']
               g == IF uf = old_uf THEN Longer(field[uf]) ELSE Started(L)
    <3>1. uf \in Fields /\ uf # "none"
      BY <2>2 DEF UrlField, Fields
    <3>2. /\ old_uf' = uf /\ field_set' = field_set \cup {uf}
          /\ field' = [field EXCEPT ![uf] = g]
      BY <2>2 DEF Reads, UrlEffect
    <3>3. L + 1 < Width /\ Width \in Nat
      BY UrlAssumption DEF Reads
    <3> HIDE DEF uf, L
    <3>4. field'[uf] = g /\ \A f \in Fields : f # uf => field'[f] = field[f]
      BY <1>1, <3>1, <3>2
    <3>5. ASSUME NEW i \in 1..L + 1, IsPiece(field_set, field, uf, i, L + 1),
                 i <= L => old_uf = uf
          PROVE  IsPiece(field_set', field', uf, i, L + 2)
      <4>1. CASE i <= L
        <5>1. field[uf] = [off |-> i - 1, len |-> L + 1 - i] /\ old_uf = uf
          BY <1>2, <3>5, <4>1 DEF IsPiece, Piece, L
        <5>2. (L + 1 - i + 1) % Width = L + 2 - i
          BY <1>2, <3>3, <4>1 DEF L
        <5>3. g = [off |-> i - 1, len |-> L + 2 - i]
          BY <5>1, <5>2 DEF Longer
        <5> QED
          BY <1>2, <3>2, <3>4, <5>3 DEF IsPiece, Piece, L
      <4>2. CASE i = L + 1
        <5>1. uf \notin field_set
          BY <1>2, <3>5, <4>2 DEF IsPiece, L
        <5>2. old_uf # uf
          BY <1>4, <3>1, <5>1
        <5>3. L % Width = L
          BY <1>2, <3>3 DEF L
        <5>4. g = [off |-> L, len |-> 1]
          BY <5>2, <5>3 DEF Started
        <5> QED
          BY <1>2, <3>2, <3>4, <4>2, <5>4 DEF IsPiece, Piece, L
      <4> QED
        BY <1>2, <4>1, <4>2 DEF L
    <3>6. \A i \in 1..L + 1 : IsPiece(field_set, field, uf, i, L + 1)
                                 /\ (i <= L => old_uf = uf)
                               => IsPiece(field_set', field', uf, i, L + 2)
      BY <3>5
    <3>7. /\ old_uf' \in field_set' \cup {"none"} /\ old_uf' = uf
          /\ \A f \in Fields : f # uf =>
               field'[f] = field[f] /\ (f \in field_set' <=> f \in field_set)
      BY <3>2, <3>4
    <3> QED
      BY <2>2, <3>6, <3>7 DEF uf, L
  <2> QED
    BY <2>1, <2>2
<1>6. ASSUME NEW f \in Fields, s' \in DOMAIN UrlField => f # UrlField[s'],
             NEW i, NEW j, IsPiece(field_set, field, f, i, j)
      PROVE  IsPiece(field_set', field', f, i, j)
  BY <1>5, <1>6 DEF IsPiece
<1> QED
  BY <1>1, <1>2, <1>3, <1>4, <1>5, <1>6

(* The schema, up to the authority.                                        *)
LEMMA AheadStep ==
  ASSUME NEW ch, Reads(ch), s' \in Ahead \cup {"server_start"}
  PROVE  UrlReadNext
<1> DEFINE L == Len(text)
           c == Colon(text)
           d == Colon(text')
<1>1. /\ text \in Seq(Characters) /\ L \in Nat /\ Len(text') = L + 1 /\ s' \in UrlStates
      /\ old_uf' \in field_set' \cup {"none"}
      /\ s' \in DOMAIN UrlField => old_uf' = UrlField[s']
      /\ ch \in Characters /\ text' = Append(text, ch) /\ text' \in Seq(Characters)
  BY ReadsFacts, Grown DEF Reads
<1>2. /\ s' = "schema" => s \in {"before_url", "schema"} /\ ch \in Alpha
      /\ s' = "schema_slash" => s = "schema" /\ ch = ":"
      /\ s' = "schema_slash_slash" => s = "schema_slash" /\ ch = "/"
      /\ s' = "server_start" => s = "schema_slash_slash" /\ ch = "/"
      /\ s' \in {"schema", "schema_slash", "schema_slash_slash", "server_start"}
      /\ s \in Ahead
  <2>1. s' # "before_url"
    BY UrlMoves DEF Reads
  <2>2. /\ s' = "schema" => s \in {"before_url", "schema"} /\ ch \in Alpha
        /\ s' = "schema_slash" => s = "schema" /\ ch = ":"
        /\ s' = "schema_slash_slash" => s = "schema_slash" /\ ch = "/"
        /\ s' = "server_start" => s = "schema_slash_slash" /\ ch = "/"
    BY UrlMoves DEF Reads
  <2> QED
    BY <2>1, <2>2 DEF Ahead
<1>3. /\ AheadRead(text, s) /\ ~found_at /\ SchemaRead(text, field_set, field)
      /\ \A f \in Fields \ {"schema"} : IsPiece(field_set, field, f, 1, 1)
  BY <1>2 DEF Reads, UrlRead
<1>4. found_at' = FALSE
  BY <1>2, <1>3 DEF Reads
<1>5. /\ text' # <<>>
      /\ text # <<>> => (Lettered(text') <=> Lettered(text))
      /\ text = <<>> => (Lettered(text') <=> ch \in Alpha)
      /\ d = IF c <= L THEN c ELSE IF ch = ":" THEN L + 1 ELSE L + 2
      /\ c \in Nat /\ 1 <= c /\ c <= L + 1
  BY <1>1, ColonGrown DEF Grow
<1>6. Lettered(text') /\ (text # <<>> => Lettered(text)) /\ (text = <<>> <=> L = 0)
  <2>1. text = <<>> <=> L = 0
    BY <1>1, EmptySeq
  <2> QED
    BY <1>2, <1>3, <1>5, <2>1 DEF AheadRead, Lettered
<1>7. /\ s = "before_url" => L = 0 /\ text = <<>>
      /\ s = "schema" => Lettered(text) /\ c = L + 1
      /\ s = "schema_slash" => Lettered(text) /\ c = L
      /\ s = "schema_slash_slash" => Lettered(text) /\ c = L - 1
  BY <1>2, <1>3, <1>6 DEF AheadRead, Lettered
<1>8. /\ s' = "schema" => d = L + 2
      /\ s' = "schema_slash" => d = L + 1
      /\ s' = "schema_slash_slash" => d = L
      /\ s' = "server_start" => d = L - 1
  BY <1>1, <1>2, <1>5, <1>7, CharFacts
<1>9. AheadRead(text', s') \/ s' = "server_start"
  BY <1>1, <1>2, <1>6, <1>8 DEF AheadRead
<1>10. \A f \in Fields \ {"schema"} : IsPiece(field_set', field', f, 1, 1)
  <2> TAKE f \in Fields \ {"schema"}
  <2>1. IsPiece(field_set, field, f, 1, 1)
    BY <1>3
  <2>2. s' \in DOMAIN UrlField => f # UrlField[s']
    BY <1>2 DEF UrlField
  <2> QED
    BY <2>1, <2>2, ReadsFacts
<1>11. IsPiece(field_set', field', "schema", 1, d)
  <2>1. "schema" \in Fields
    BY DEF Fields
  <2>2. CASE s' = "schema"
    <3>1. IsPiece(field_set, field, "schema", 1, L + 1)
      <4>1. CASE s = "schema"
        BY <1>3, <1>7, <4>1 DEF SchemaRead
      <4>2. CASE s = "before_url"
        BY <1>3, <1>7, <4>2 DEF SchemaRead, Lettered
      <4> QED
        BY <1>2, <2>2, <4>1, <4>2
    <3>2. /\ s' \in DOMAIN UrlField /\ UrlField[s'] = "schema"
          /\ s = "schema" => s \in DOMAIN UrlField
      BY <2>2 DEF UrlField
    <3>3. 1 <= L => s = "schema"
      BY <1>2, <1>7, <2>2
    <3>4. 1 \in 1..L + 1
      BY <1>1
    <3>5. IsPiece(field_set', field', "schema", 1, L + 2)
      BY <2>2, <3>1, <3>2, <3>3, <3>4, ReadsFacts
    <3> QED
      BY <1>8, <2>2, <3>5
  <2>3. CASE s' # "schema"
    <3>1. s' \notin DOMAIN UrlField
      BY <1>2, <2>3 DEF UrlField
    <3>2. Lettered(text) /\ d = c
      BY <1>1, <1>2, <1>5, <1>7, <1>8, <2>3
    <3>3. IsPiece(field_set, field, "schema", 1, c)
      BY <1>3, <3>2 DEF SchemaRead
    <3> QED
      BY <2>1, <3>1, <3>2, <3>3, ReadsFacts
  <2> QED
    BY <2>2, <2>3
<1>12. SchemaRead(text', field_set', field')
  BY <1>6, <1>11 DEF SchemaRead
<1>13. CASE s' = "server_start"
  <2> DEFINE M == Len(text') + 1
  <2>1. From(text') = M /\ M = L + 2
    BY <1>1, <1>6, <1>8, <1>13 DEF From
  <2>2. To(text') = M
    BY <1>1, <1>6, <2>1, FirstAtEnd DEF To
  <2>3. PathEnd(text') = M /\ HashAt(text') = M
    BY <1>1, <2>2, FirstAtEnd DEF PathEnd, HashAt
  <2>4. FragmentAt(text') = M /\ FirstOf(text', {"@"}, From(text')) = M
    BY <1>1, <2>1, <2>3, FirstAtEnd DEF FragmentAt
  <2>5. \A f \in Fields \ {"schema"} : \A i : IsPiece(field_set', field', f, M, M)
                                              /\ IsPiece(field_set', field', f, M + 1, M)
    BY <1>1, <1>10 DEF IsPiece, Piece
  <2>6. TailRead(text', field_set', field')
    BY <2>2, <2>3, <2>4, <2>5 DEF TailRead, Fields
  <2>7. ServerRead(text', s')
    BY <1>1, <1>6, <1>8, <1>13, <2>2 DEF ServerRead
  <2>8. IsPiece(field_set', field', "host", From(text'), To(text'))
    BY <2>1, <2>2, <2>5 DEF Fields
  <2>9. s' \notin Ahead /\ s' \in Server
    BY <1>13 DEF Ahead, Server
  <2>10. ~(FirstOf(text', {"@"}, From(text')) < To(text'))
    BY <1>1, <2>1, <2>2, <2>4
  <2>11. IsPiece(field_set', field', "userinfo", 1, 1) /\ IsPiece(field_set', field', "port", 1, 1)
    BY <1>10 DEF Fields
  <2> QED
    BY <1>1, <1>4, <1>12, <2>6, <2>7, <2>8, <2>9, <2>10, <2>11 DEF UrlReadNext, UrlRead
<1>14. CASE s' # "server_start"
  <2>1. s' \in Ahead
    BY <1>14
  <2>2. IsPiece(field_set', field', "userinfo", 1, 1) /\ IsPiece(field_set', field', "port", 1, 1)
    BY <1>10 DEF Fields
  <2> QED
    BY <1>1, <1>4, <1>9, <1>10, <1>12, <1>14, <2>1, <2>2 DEF UrlReadNext, UrlRead
<1> QED
  BY <1>13, <1>14

(* What a step behind the schema does with the places, and with the fields *)
(* that are complete.                                                      *)
LEMMA Beyond ==
  ASSUME NEW ch, Reads(ch), s \notin Ahead
  PROVE  LET L == Len(text)
             E == To(text)
             Later(x, chars) == IF x <= L THEN x ELSE IF ch \in chars THEN L + 1 ELSE L + 2
         IN
         /\ L \in Nat /\ L # 0 /\ Len(text') = L + 1
         /\ Lettered(text) => /\ Colon(text) \in Nat /\ From(text) = Colon(text) + 3
                              /\ Colon(text') = Colon(text)
         /\ Lettered(text') <=> Lettered(text)
         /\ From(text) \in Nat /\ E \in Nat /\ From(text) # 0
         /\ From(text) <= E /\ E <= L + 1
         /\ PathEnd(text) \in Nat /\ E <= PathEnd(text) /\ PathEnd(text) <= L + 1
         /\ HashAt(text) \in Nat /\ E <= HashAt(text) /\ HashAt(text) <= L + 1
         /\ FragmentAt(text) \in Nat /\ HashAt(text) <= FragmentAt(text)
         /\ FragmentAt(text) <= L + 1
         /\ UserTo(text) \in Nat /\ UserTo(text) <= L + 1
         /\ From(text') = From(text)
         /\ To(text') = Later(E, Delimiters)
         /\ UserTo(text') = Later(UserTo(text), {"@"})
         /\ IF E <= L \/ ch \in Delimiters
              THEN /\ PathEnd(text') = Later(PathEnd(text), PathEnds)
                   /\ HashAt(text') = Later(HashAt(text), {"#"})
              ELSE PathEnd(text') = L + 2 /\ HashAt(text') = L + 2
         /\ FragmentAt(text') = IF HashAt(text) <= L THEN Later(FragmentAt(text), FragmentChars)
                                ELSE L + 2
         /\ SchemaRead(text', field_set', field')
         /\ IsPiece(field_set', field', "userinfo", 1, 1)
         /\ IsPiece(field_set', field', "port", 1, 1)
<1> DEFINE L == Len(text)
<1>1. /\ text \in Seq(Characters) /\ L \in Nat /\ Len(text') = L + 1
      /\ ch \in Characters /\ text' = Append(text, ch)
  BY ReadsFacts DEF Reads
<1>2. /\ SchemaRead(text, field_set, field)
      /\ IsPiece(field_set, field, "userinfo", 1, 1)
      /\ IsPiece(field_set, field, "port", 1, 1)
      /\ s \in Server \cup Behind
      /\ IF s \in Server THEN ServerRead(text, s) ELSE BehindRead(text, s)
  BY DEF Reads, UrlRead, UrlStates
<1>3. text = <<>> <=> L = 0
  BY <1>1, EmptySeq
<1>4. text # <<>> /\ (Lettered(text) => From(text) <= L + 1)
  <2>1. Colon(text) \in Nat
    BY <1>1, ColonGrown
  <2>2. CASE s \in Server
    BY <1>1, <1>2, <2>1, <2>2 DEF ServerRead, Lettered, From
  <2>3. CASE s \notin Server
    <3>1. BehindRead(text, s)
      BY <1>2, <2>3
    <3>2. CASE Lettered(text)
      BY <1>1, <2>1, <3>1, <3>2 DEF BehindRead, Lettered, From
    <3>3. CASE ~Lettered(text)
      <4>1. To(text) = 1 /\ To(text) <= L
        BY <3>1, <3>3 DEF BehindRead, To
      <4> QED
        BY <1>1, <1>3, <3>3, <4>1
    <3> QED
      BY <3>2, <3>3
  <2> QED
    BY <2>2, <2>3
<1>5. s' \notin Ahead /\ (s' \in DOMAIN UrlField => UrlField[s'] # "schema")
      /\ (s' \in DOMAIN UrlField => UrlField[s'] \notin {"userinfo", "port"})
  <2>1. /\ s' # "before_url"
        /\ s' = "schema" => s \in {"before_url", "schema"}
        /\ s' = "schema_slash" => s = "schema"
        /\ s' = "schema_slash_slash" => s = "schema_slash"
    BY UrlMoves DEF Reads
  <2> QED
    BY <2>1 DEF Ahead, UrlField
<1>6. /\ text' # <<>> /\ (Lettered(text') <=> Lettered(text))
      /\ Colon(text') = Grow(text, ch, Colon(text), {":"})
  BY <1>1, <1>4, ColonGrown
<1>7. /\ L \in Nat /\ L # 0 /\ From(text) \in Nat /\ From(text) # 0
      /\ Lettered(text) => /\ Colon(text) \in Nat /\ 1 <= Colon(text)
                           /\ From(text) = Colon(text) + 3
      /\ To(text) \in Nat /\ From(text) <= To(text) /\ To(text) <= L + 1
      /\ PathEnd(text) \in Nat /\ To(text) <= PathEnd(text) /\ PathEnd(text) <= L + 1
      /\ HashAt(text) \in Nat /\ To(text) <= HashAt(text) /\ HashAt(text) <= L + 1
      /\ FragmentAt(text) \in Nat /\ HashAt(text) <= FragmentAt(text)
      /\ FragmentAt(text) <= L + 1
      /\ UserTo(text) \in Nat /\ From(text) <= UserTo(text) /\ UserTo(text) <= L + 1
  BY <1>1, <1>4, PlaceFacts
<1>8. Lettered(text) => Colon(text') = Colon(text)
  BY <1>4, <1>6, <1>7 DEF Grow
<1>9. SchemaRead(text', field_set', field')
  <2>1. "schema" \in Fields
    BY DEF Fields
  <2> QED
    BY <1>2, <1>5, <1>6, <1>8, <2>1, ReadsFacts DEF SchemaRead
<1>10. IsPiece(field_set', field', "userinfo", 1, 1) /\ IsPiece(field_set', field', "port", 1, 1)
  <2>1. "userinfo" \in Fields /\ "port" \in Fields
    BY DEF Fields
  <2> QED
    BY <1>2, <1>5, <2>1, ReadsFacts
<1>11. /\ From(text') = From(text)
       /\ To(text') = Grow(text, ch, To(text), Delimiters)
       /\ UserTo(text') = Grow(text, ch, UserTo(text), {"@"})
       /\ IF To(text) <= L \/ ch \in Delimiters
            THEN /\ PathEnd(text') = Grow(text, ch, PathEnd(text), PathEnds)
                 /\ HashAt(text') = Grow(text, ch, HashAt(text), {"#"})
            ELSE PathEnd(text') = L + 2 /\ HashAt(text') = L + 2
       /\ FragmentAt(text') = IF HashAt(text) <= L
            THEN Grow(text, ch, FragmentAt(text), FragmentChars) ELSE L + 2
  BY <1>1, <1>4, PlacesGrown
<1> QED
  BY <1>1, <1>6, <1>7, <1>8, <1>9, <1>10, <1>11 DEF Grow

(* The authority.                                                          *)
LEMMA ServerStep ==
  ASSUME NEW ch, Reads(ch), s' \in {"server", "server_with_at"}
  PROVE  UrlReadNext
<1> DEFINE L == Len(text)
           F == From(text)
<1>1. /\ s \in Server /\ ch \notin Delimiters /\ (s' = "server_with_at" <=> ch = "@")
  BY UrlMoves DEF Reads
<1>2. s \notin Ahead /\ s' \in Server /\ s' \notin Ahead
  BY <1>1 DEF Ahead, Server
<1>3. /\ L \in Nat /\ L # 0 /\ Len(text') = L + 1
      /\ Lettered(text) => Colon(text) \in Nat /\ F = Colon(text) + 3 /\ Colon(text') = Colon(text)
      /\ Lettered(text') <=> Lettered(text)
      /\ F \in Nat /\ To(text) \in Nat /\ F # 0 /\ F <= To(text) /\ To(text) <= L + 1
      /\ PathEnd(text) \in Nat /\ To(text) <= PathEnd(text) /\ PathEnd(text) <= L + 1
      /\ HashAt(text) \in Nat /\ To(text) <= HashAt(text) /\ HashAt(text) <= L + 1
      /\ FragmentAt(text) \in Nat /\ HashAt(text) <= FragmentAt(text)
      /\ FragmentAt(text) <= L + 1
      /\ UserTo(text) \in Nat /\ UserTo(text) <= L + 1
      /\ From(text') = F
      /\ To(text') = IF To(text) <= L THEN To(text) ELSE L + 2
      /\ UserTo(text') = IF UserTo(text) <= L THEN UserTo(text)
                         ELSE IF ch = "@" THEN L + 1 ELSE L + 2
      /\ ~(To(text) <= L) => PathEnd(text') = L + 2 /\ HashAt(text') = L + 2
      /\ ~(HashAt(text) <= L) => FragmentAt(text') = L + 2
      /\ SchemaRead(text', field_set', field')
      /\ IsPiece(field_set', field', "userinfo", 1, 1)
      /\ IsPiece(field_set', field', "port", 1, 1)
  BY <1>1, <1>2, Beyond
<1>4. /\ Lettered(text) /\ Colon(text) + 2 <= L /\ To(text) = L + 1
      /\ s = "server_start" <=> Colon(text) + 2 = L
      /\ IsPiece(field_set, field, "host", F, To(text))
      /\ TailRead(text, field_set, field)
      /\ found_at <=> UserTo(text) < To(text)
      /\ found_at' = (found_at \/ s' = "server_with_at") /\ found_at \in BOOLEAN
  BY <1>1, <1>2 DEF Reads, UrlBounds, UrlRead, ServerRead, UserTo
<1>5. /\ To(text') = L + 2 /\ PathEnd(text') = L + 2 /\ HashAt(text') = L + 2
      /\ FragmentAt(text') = L + 2
      /\ PathEnd(text) = L + 1 /\ HashAt(text) = L + 1 /\ FragmentAt(text) = L + 1
  BY <1>3, <1>4
<1>6. /\ s' \in DOMAIN UrlField /\ UrlField[s'] = "host"
      /\ s # "server_start" => s \in DOMAIN UrlField /\ UrlField[s] = "host"
  BY <1>1 DEF UrlField, Server
<1>7. IsPiece(field_set', field', "host", F, L + 2)
  <2>1. F \in 1..L + 1 /\ (F <= L => s # "server_start")
    BY <1>3, <1>4
  <2> QED
    BY <1>4, <1>6, <2>1, ReadsFacts
<1>8. TailRead(text', field_set', field')
  <2>1. \A f \in {"path", "query", "fragment"} : f \in Fields /\ f # UrlField[s']
    BY <1>6 DEF Fields
  <2>2. /\ IsPiece(field_set', field', "path", L + 1, L + 1)
        /\ IsPiece(field_set', field', "query", L + 2, L + 1)
        /\ IsPiece(field_set', field', "fragment", L + 1, L + 1)
    BY <1>4, <1>5, <2>1, ReadsFacts DEF TailRead
  <2> QED
    BY <1>3, <1>5, <2>2 DEF TailRead, IsPiece, Piece
<1>9. ServerRead(text', s')
  BY <1>3, <1>4, <1>5 DEF ServerRead
<1>10. found_at' <=> UserTo(text') < To(text')
  <2>1. UserTo(text') < To(text') <=> UserTo(text) < To(text) \/ ch = "@"
    BY <1>3, <1>4, <1>5
  <2> QED
    BY <1>1, <1>4, <2>1, Zenon
<1> QED
  BY <1>2, <1>3, <1>4, <1>5, <1>7, <1>8, <1>9, <1>10, ReadsFacts
  DEF UrlReadNext, UrlRead, UserTo

(* Behind the authority: what has been settled when the path is read.      *)
LEMMA SettledStep ==
  ASSUME NEW ch, Reads(ch), s \notin Ahead, s' \in Behind,
         TailRead(text', field_set', field'),
         LET L == Len(text) + 1 IN
         CASE s' = "path" -> PathEnd(text') = L + 1 /\ HashAt(text') = L + 1
           [] s' = "query_string_start" -> PathEnd(text') = L /\ HashAt(text') = L + 1
           [] s' = "query_string" -> PathEnd(text') < L /\ HashAt(text') = L + 1
           [] s' = "fragment_start" -> /\ PathEnd(text') <= HashAt(text') /\ HashAt(text') <= L
                                       /\ FragmentAt(text') = L + 1
           [] OTHER -> /\ PathEnd(text') <= HashAt(text')
                       /\ HashAt(text') <= FragmentAt(text') /\ FragmentAt(text') <= L
  PROVE  UrlReadNext
<1> DEFINE L == Len(text)
           F == From(text)
           E == To(text)
<1>1. /\ L \in Nat /\ Len(text') = L + 1
      /\ Lettered(text) => Colon(text) \in Nat /\ F = Colon(text) + 3 /\ Colon(text') = Colon(text)
      /\ Lettered(text') <=> Lettered(text)
      /\ F \in Nat /\ E \in Nat /\ F # 0 /\ F <= E /\ E <= L + 1
      /\ UserTo(text) \in Nat /\ UserTo(text) <= L + 1
      /\ From(text') = F
      /\ To(text') = IF E <= L THEN E ELSE IF ch \in Delimiters THEN L + 1 ELSE L + 2
      /\ UserTo(text') = IF UserTo(text) <= L THEN UserTo(text)
                         ELSE IF ch \in {"@"} THEN L + 1 ELSE L + 2
      /\ SchemaRead(text', field_set', field')
      /\ IsPiece(field_set', field', "userinfo", 1, 1)
      /\ IsPiece(field_set', field', "port", 1, 1)
  BY Beyond
<1>2. /\ s \in Server \cup Behind
      /\ s \in Server => ch \in {"/", "?"}
      /\ s' # "server_with_at"
  <2>1. /\ s' = "path" => \/ s = "before_url" /\ ch \in {"/", "*"}
                          \/ s \in Server /\ ch = "/"
                          \/ s = "path" /\ ch \in UrlChars
        /\ s' = "query_string_start" => s \in Server \cup {"path"} /\ ch = "?"
        /\ s' = "query_string" => s \in Query /\ ch \in FragmentChars
        /\ s' = "fragment_start" => s \in {"path", "fragment_start"} \cup Query /\ ch = "#"
        /\ s' = "fragment" => s \in {"fragment_start", "fragment"}
    BY UrlMoves DEF Reads
  <2>2. s \in UrlStates
    BY DEF Reads, UrlRead
  <2> QED
    BY <2>1, <2>2 DEF UrlStates, Server, Behind, Query, Ahead
<1>3. /\ IF s \in Server THEN ServerRead(text, s) ELSE BehindRead(text, s)
      /\ IsPiece(field_set, field, "host", F, E)
      /\ found_at <=> Lettered(text) /\ UserTo(text) < E
      /\ found_at' = found_at
  BY <1>2 DEF Reads, UrlBounds, UrlRead, UserTo
<1>4. To(text') = E /\ (Lettered(text) => Colon(text) + 3 <= L + 1)
  <2>1. CASE s \in Server
    BY <1>1, <1>2, <1>3, <2>1 DEF ServerRead, Delimiters
  <2>2. CASE s \notin Server
    BY <1>1, <1>3, <2>2 DEF BehindRead
  <2> QED
    BY <2>1, <2>2
<1>5. IsPiece(field_set', field', "host", F, E)
  <2>1. "host" \in Fields /\ (s' \in DOMAIN UrlField => UrlField[s'] # "host")
    BY DEF Fields, Behind, Query, UrlField
  <2> QED
    BY <1>3, <2>1, ReadsFacts
<1>6. found_at' <=> Lettered(text') /\ UserTo(text') < To(text')
  <2>1. UserTo(text') < E <=> UserTo(text) < E
    <3>1. CASE UserTo(text) <= L
      BY <1>1, <3>1
    <3>2. CASE ~(UserTo(text) <= L)
      <4>1. UserTo(text') = L + 1 => ch = "@"
        BY <1>1, <3>2
      <4>2. UserTo(text') \in {L + 1, L + 2}
        BY <1>1, <3>2
      <4>3. ~(UserTo(text') < E)
        BY <1>1, <4>2
      <4> QED
        BY <1>1, <3>2, <4>3
    <3> QED
      BY <3>1, <3>2
  <2> QED
    BY <1>1, <1>3, <1>4, <2>1, Zenon
<1>7. BehindRead(text', s')
  BY <1>1, <1>4 DEF BehindRead
<1>8. s' \in UrlStates /\ s' \notin Ahead /\ s' \notin Server
  BY DEF UrlStates, Behind, Query, Ahead, Server
<1> QED
  BY <1>1, <1>4, <1>5, <1>6, <1>7, <1>8, ReadsFacts DEF UrlReadNext, UrlRead, UserTo

(* The first character of a URL without a schema.                          *)
LEMMA PathOnlyStep ==
  ASSUME NEW ch, Reads(ch), s = "before_url", s' = "path"
  PROVE  UrlReadNext
<1> DEFINE u == text'
<1>1. /\ text \in Seq(Characters) /\ ch \in Characters /\ u = Append(text, ch)
      /\ u \in Seq(Characters) /\ Len(u) = Len(text) + 1
      /\ ch \in {"/", "*"}
  <2>1. \/ s = "before_url" /\ ch \in {"/", "*"}
        \/ s \in Server /\ ch = "/"
        \/ s = "path" /\ ch \in UrlChars
    BY UrlMoves DEF Reads
  <2>2. "before_url" \notin Server
    BY DEF Server
  <2> QED
    BY <2>1, <2>2, ReadsFacts, Grown DEF Reads
<1>2. s \in Ahead /\ s' \notin Ahead /\ s' \notin Server
  BY DEF Ahead, Server
<1>3. /\ AheadRead(text, s) /\ found_at = FALSE /\ SchemaRead(text, field_set, field)
      /\ IsPiece(field_set, field, "userinfo", 1, 1) /\ IsPiece(field_set, field, "port", 1, 1)
      /\ \A f \in Fields \ {"schema"} : IsPiece(field_set, field, f, 1, 1)
      /\ found_at' = FALSE
  BY <1>2 DEF Reads, UrlRead, UrlBounds
<1>4. Len(text) = 0 /\ Len(u) = 1
  BY <1>1, <1>3 DEF AheadRead
<1>5. ~Lettered(u) /\ ~Lettered(text)
  <2>1. text = <<>>
    BY <1>1, <1>4, EmptySeq
  <2>2. Lettered(u) <=> ch \in Alpha
    BY <1>1, <2>1, ColonGrown
  <2> QED
    BY <1>1, <2>1, <2>2, CharFacts DEF Lettered
<1>6. From(u) = 1 /\ To(u) = 1
  BY <1>5 DEF From, To
<1>7. \A chars : FirstOf(u, chars, 1) = IF ch \in chars THEN 1 ELSE 2
  <2> TAKE chars
  <2>1. FirstOf(text, chars, Len(text) + 1) = Len(text) + 1
    BY <1>1, FirstAtEnd
  <2>2. FirstOf(text, chars, 1) = 1
    BY <1>4, <2>1
  <2>3. FirstOf(u, chars, 1) = IF FirstOf(text, chars, 1) <= Len(text)
                                 THEN FirstOf(text, chars, 1)
                               ELSE IF ch \in chars THEN Len(text) + 1 ELSE Len(text) + 2
    <3>1. ASSUME NEW i \in Nat, i = 1
          PROVE  FirstOf(Append(text, ch), chars, i) =
                   IF FirstOf(text, chars, i) <= Len(text) THEN FirstOf(text, chars, i)
                   ELSE IF ch \in chars THEN Len(text) + 1 ELSE Len(text) + 2
      <4>1. i # 0 /\ i <= Len(text) + 1 /\ text \in Seq(Characters) /\ ch \in Characters
        BY <1>1, <1>4, <3>1
      <4> QED
        BY <4>1, FirstGrown
    <3> QED
      BY <1>1, <3>1
  <2> QED
    BY <1>4, <2>2, <2>3
<1>8. PathEnd(u) = 2 /\ HashAt(u) = 2
  BY <1>1, <1>6, <1>7 DEF PathEnd, HashAt, PathEnds
<1>9. FragmentAt(u) = 2
  <2>1. FirstOf(u, FragmentChars, Len(u) + 1) = Len(u) + 1
    BY <1>1, FirstAtEnd
  <2> QED
    BY <1>4, <1>8, <2>1 DEF FragmentAt
<1>10. s' \in DOMAIN UrlField /\ UrlField[s'] = "path"
  BY DEF UrlField
<1>11. \A f \in Fields \ {"path", "schema"} : IsPiece(field_set', field', f, 1, 1)
  BY <1>3, <1>10, ReadsFacts
<1>12. IsPiece(field_set', field', "schema", 1, 1)
  <2>1. IsPiece(field_set, field, "schema", 1, 1)
    BY <1>3, <1>5 DEF SchemaRead
  <2>2. "schema" \in Fields
    BY DEF Fields
  <2> QED
    BY <1>10, <2>1, <2>2, ReadsFacts
<1>13. IsPiece(field_set', field', "path", 1, 2)
  <2>1. IsPiece(field_set, field, "path", 1, 1)
    BY <1>3 DEF Fields
  <2> QED
    BY <1>4, <1>10, <2>1, ReadsFacts
<1>14. TailRead(u, field_set', field')
  <2>1. IsPiece(field_set', field', "query", 1, 1) /\ IsPiece(field_set', field', "fragment", 1, 1)
    BY <1>11 DEF Fields
  <2> QED
    BY <1>4, <1>6, <1>8, <1>9, <1>13, <2>1 DEF TailRead, IsPiece, Piece
<1>15. SchemaRead(u, field_set', field')
  BY <1>5, <1>12 DEF SchemaRead
<1>16. BehindRead(u, s')
  BY <1>4, <1>5, <1>6, <1>8 DEF BehindRead
<1>17. /\ IsPiece(field_set', field', "host", From(u), To(u))
       /\ IsPiece(field_set', field', "userinfo", 1, 1) /\ IsPiece(field_set', field', "port", 1, 1)
  BY <1>6, <1>11 DEF Fields
<1> QED
  BY <1>2, <1>3, <1>5, <1>14, <1>15, <1>16, <1>17, ReadsFacts DEF UrlReadNext, UrlRead

(* The path, the query and the fragment.                                   *)
LEMMA BehindStep ==
  ASSUME NEW ch, Reads(ch), s \notin Ahead, s' \in Behind
  PROVE  UrlReadNext
<1> DEFINE L == Len(text)
           E == To(text)
           P == PathEnd(text)
           H == HashAt(text)
           G == FragmentAt(text)
<1>1. /\ L \in Nat /\ L # 0 /\ Len(text') = L + 1
      /\ E \in Nat /\ E # 0 /\ E <= L + 1 /\ P \in Nat /\ E <= P /\ P <= L + 1
      /\ H \in Nat /\ E <= H /\ H <= L + 1 /\ G \in Nat /\ H <= G /\ G <= L + 1
      /\ To(text') = IF E <= L THEN E ELSE IF ch \in Delimiters THEN L + 1 ELSE L + 2
      /\ E <= L \/ ch \in Delimiters =>
           /\ PathEnd(text') = IF P <= L THEN P ELSE IF ch \in PathEnds THEN L + 1 ELSE L + 2
           /\ HashAt(text') = IF H <= L THEN H ELSE IF ch \in {"#"} THEN L + 1 ELSE L + 2
      /\ FragmentAt(text') = IF H <= L
           THEN (IF G <= L THEN G ELSE IF ch \in FragmentChars THEN L + 1 ELSE L + 2)
           ELSE L + 2
  <2>1. From(text) \in Nat /\ From(text) # 0 /\ From(text) <= E
    BY Beyond
  <2>2. /\ L \in Nat /\ L # 0 /\ Len(text') = L + 1
        /\ E \in Nat /\ E <= L + 1 /\ P \in Nat /\ E <= P /\ P <= L + 1
        /\ H \in Nat /\ E <= H /\ H <= L + 1 /\ G \in Nat /\ H <= G /\ G <= L + 1
        /\ To(text') = IF E <= L THEN E ELSE IF ch \in Delimiters THEN L + 1 ELSE L + 2
        /\ IF E <= L \/ ch \in Delimiters
             THEN /\ PathEnd(text') = IF P <= L THEN P
                                      ELSE IF ch \in PathEnds THEN L + 1 ELSE L + 2
                  /\ HashAt(text') = IF H <= L THEN H ELSE IF ch \in {"#"} THEN L + 1 ELSE L + 2
             ELSE PathEnd(text') = L + 2 /\ HashAt(text') = L + 2
        /\ FragmentAt(text') = IF H <= L
             THEN (IF G <= L THEN G ELSE IF ch \in FragmentChars THEN L + 1 ELSE L + 2)
             ELSE L + 2
    BY Beyond
  <2> QED
    BY <2>1, <2>2
<1>2. /\ s' = "path" => \/ s = "before_url" /\ ch \in {"/", "*"}
                        \/ s \in Server /\ ch = "/"
                        \/ s = "path" /\ ch \in UrlChars
      /\ s' = "query_string_start" => s \in Server \cup {"path"} /\ ch = "?"
      /\ s' = "query_string" => s \in Query /\ ch \in FragmentChars
      /\ s' = "fragment_start" => s \in {"path", "fragment_start"} \cup Query /\ ch = "#"
      /\ s' = "fragment" => \/ s = "fragment_start" /\ ch \in FragmentChars
                            \/ s = "fragment" /\ ch \in FragmentChars \cup {"#"}
  BY UrlMoves DEF Reads
<1>3. /\ IF s \in Server THEN ServerRead(text, s) ELSE BehindRead(text, s)
      /\ TailRead(text, field_set, field)
  BY DEF Reads, UrlRead
<1>4. /\ IsPiece(field_set, field, "path", E, P)
      /\ IsPiece(field_set, field, "query", P + 1, H)
      /\ IsPiece(field_set, field, "fragment", G, L + 1)
  BY <1>3 DEF TailRead
<1>5. /\ s \in Server => E = L + 1
      /\ s \in Behind => /\ E <= L
                         /\ CASE s = "path" -> P = L + 1 /\ H = L + 1
                              [] s = "query_string_start" -> P = L /\ H = L + 1
                              [] s = "query_string" -> P < L /\ H = L + 1
                              [] s = "fragment_start" -> P <= H /\ H <= L /\ G = L + 1
                              [] OTHER -> P <= H /\ H <= G /\ G <= L
  BY <1>3 DEF ServerRead, BehindRead, Server, Behind, Query
<1>6. \A f \in Fields : (s' \in DOMAIN UrlField => f # UrlField[s']) =>
        \A i, j : IsPiece(field_set, field, f, i, j)
                  => IsPiece(field_set', field', f, i, j)
  BY ReadsFacts
<1>7. ASSUME NEW f \in Fields, s' \in DOMAIN UrlField, UrlField[s'] = f,
             NEW i \in 1..L + 1, IsPiece(field_set, field, f, i, L + 1),
             i <= L => s \in DOMAIN UrlField /\ UrlField[s] = f
      PROVE  IsPiece(field_set', field', f, i, L + 2)
  BY <1>7, ReadsFacts
<1>8. "path" \in Fields /\ "query" \in Fields /\ "fragment" \in Fields
  BY DEF Fields
<1> HIDE DEF L, E, P, H, G
<1>9. CASE s' = "path"
  <2>1. ch \notin PathEnds /\ ch # "#"
    BY <1>2, <1>9, CharFacts DEF PathEnds, Ahead, FragmentChars
  <2>2. (s \in Server /\ ch \in Delimiters) \/ s = "path"
    BY <1>2, <1>9 DEF Delimiters, Ahead
  <2>3. /\ P = L + 1 /\ H = L + 1 /\ G = L + 1 /\ To(text') = E
        /\ PathEnd(text') = L + 2 /\ HashAt(text') = L + 2 /\ FragmentAt(text') = L + 2
    BY <1>1, <1>5, <2>1, <2>2 DEF Behind
  <2>4. IsPiece(field_set', field', "path", E, L + 2)
    <3>1. E <= L => s = "path"
      BY <1>1, <1>5, <2>2
    <3>2. E \in 1..L + 1
      BY <1>1
    <3> QED
      BY <1>4, <1>7, <1>8, <1>9, <2>3, <3>1, <3>2 DEF UrlField
  <2>5. /\ IsPiece(field_set', field', "query", L + 2, L + 1)
        /\ IsPiece(field_set', field', "fragment", L + 1, L + 1)
    BY <1>1, <1>4, <1>6, <1>8, <1>9, <2>3 DEF UrlField
  <2>6. TailRead(text', field_set', field')
    BY <1>1, <2>3, <2>4, <2>5 DEF TailRead, IsPiece, Piece
  <2> QED
    BY <1>1, <1>9, <2>3, <2>6, SettledStep DEF L
<1>10. CASE s' = "query_string_start"
  <2>1. ch = "?" /\ ch \in PathEnds /\ ch # "#" /\ ch \in Delimiters
        /\ (s \in Server \/ s = "path")
    BY <1>2, <1>10 DEF PathEnds, Delimiters
  <2>2. /\ P = L + 1 /\ H = L + 1 /\ G = L + 1 /\ To(text') = E
        /\ PathEnd(text') = L + 1 /\ HashAt(text') = L + 2 /\ FragmentAt(text') = L + 2
    BY <1>1, <1>5, <2>1 DEF Behind
  <2>3. s' \notin DOMAIN UrlField
    BY <1>10 DEF UrlField
  <2>4. /\ IsPiece(field_set', field', "path", E, L + 1)
        /\ IsPiece(field_set', field', "query", L + 2, L + 1)
        /\ IsPiece(field_set', field', "fragment", L + 1, L + 1)
    BY <1>1, <1>4, <1>6, <1>8, <2>2, <2>3
  <2>5. TailRead(text', field_set', field')
    BY <1>1, <2>2, <2>4 DEF TailRead, IsPiece, Piece
  <2> QED
    BY <1>1, <1>10, <2>2, <2>5, SettledStep DEF L
<1>11. CASE s' = "query_string"
  <2>1. s \in Query /\ ch # "#" /\ s \in Behind
    BY <1>2, <1>11, CharFacts DEF Behind
  <2>2. /\ P <= L /\ H = L + 1 /\ G = L + 1 /\ To(text') = E /\ E <= L
        /\ PathEnd(text') = P /\ HashAt(text') = L + 2 /\ FragmentAt(text') = L + 2
        /\ P < L => s = "query_string"
    BY <1>1, <1>5, <2>1 DEF Query
  <2>3. IsPiece(field_set', field', "query", P + 1, L + 2)
    <3>1. P + 1 \in 1..L + 1 /\ (P + 1 <= L => s = "query_string")
      BY <1>1, <2>2
    <3> QED
      BY <1>4, <1>7, <1>8, <1>11, <2>2, <3>1 DEF UrlField
  <2>4. /\ IsPiece(field_set', field', "path", E, P)
        /\ IsPiece(field_set', field', "fragment", L + 1, L + 1)
    BY <1>1, <1>4, <1>6, <1>8, <1>11, <2>2 DEF UrlField
  <2>5. TailRead(text', field_set', field')
    BY <1>1, <2>2, <2>3, <2>4 DEF TailRead, IsPiece, Piece
  <2>6. PathEnd(text') < L + 1
    BY <1>1, <2>2
  <2> QED
    BY <1>1, <1>11, <2>2, <2>5, <2>6, SettledStep DEF L
<1>12. CASE s' = "fragment_start"
  <2>1. ch = "#" /\ ch \in PathEnds /\ ch \notin FragmentChars
        /\ s \in {"path", "fragment_start"} \cup Query /\ s \in Behind
    BY <1>2, <1>12, CharFacts DEF Behind, PathEnds
  <2>2. /\ To(text') = E /\ E <= L /\ G = L + 1 /\ FragmentAt(text') = L + 2
        /\ PathEnd(text') <= HashAt(text') /\ HashAt(text') <= L + 1
        /\ HashAt(text') = IF H <= L THEN H ELSE L + 1
        /\ PathEnd(text') = IF P <= L THEN P ELSE L + 1
        /\ PathEnd(text') = P
    BY <1>1, <1>5, <2>1 DEF Query
  <2>3. s' \notin DOMAIN UrlField
    BY <1>12 DEF UrlField
  <2>4. /\ IsPiece(field_set', field', "path", E, P)
        /\ IsPiece(field_set', field', "query", P + 1, H)
        /\ IsPiece(field_set', field', "fragment", G, L + 1)
    BY <1>4, <1>6, <1>8, <2>3
  <2>5. HashAt(text') = H
    BY <1>1, <2>2
  <2>6. TailRead(text', field_set', field')
    BY <1>1, <2>2, <2>4, <2>5 DEF TailRead, IsPiece, Piece
  <2>7. FragmentAt(text') = L + 1 + 1
    BY <1>1, <2>2
  <2> QED
    BY <1>1, <1>12, <2>2, <2>6, <2>7, SettledStep DEF L
<1>13. CASE s' = "fragment"
  <2>1. /\ s \in {"fragment_start", "fragment"} /\ s \in Behind
        /\ s = "fragment_start" => ch \in FragmentChars
    BY <1>2, <1>13 DEF Behind
  <2>2. /\ P <= H /\ H <= L /\ E <= L /\ (G <= L => s = "fragment")
        /\ s = "fragment_start" => G = L + 1
        /\ s = "fragment" => G <= L
    BY <1>1, <1>5, <2>1
  <2>3. /\ To(text') = E /\ PathEnd(text') = P /\ HashAt(text') = H /\ FragmentAt(text') = G
    BY <1>1, <2>1, <2>2
  <2>4. IsPiece(field_set', field', "fragment", G, L + 2)
    <3>1. G \in 1..L + 1
      BY <1>1
    <3> QED
      BY <1>4, <1>7, <1>8, <1>13, <2>2, <3>1 DEF UrlField
  <2>5. /\ IsPiece(field_set', field', "path", E, P)
        /\ IsPiece(field_set', field', "query", P + 1, H)
    BY <1>4, <1>6, <1>8, <1>13 DEF UrlField
  <2>6. TailRead(text', field_set', field')
    <3>1. Len(text') + 1 = L + 2
      BY <1>1
    <3> QED
      BY <2>3, <2>4, <2>5, <3>1 DEF TailRead
  <2>7. PathEnd(text') <= HashAt(text') /\ HashAt(text') <= FragmentAt(text')
        /\ FragmentAt(text') <= L + 1
    BY <1>1, <2>2, <2>3
  <2> QED
    BY <1>1, <1>13, <2>6, <2>7, SettledStep DEF L
<1> QED
  BY <1>9, <1>10, <1>11, <1>12, <1>13 DEF Behind, Query

LEMMA UrlReadStep ==
  ASSUME NEW ch, Reads(ch)
  PROVE  UrlReadNext
<1>1. s' \in UrlStates
  BY ReadsFacts
<1>2. CASE s' \in Ahead \cup {"server_start"}
  BY <1>2, AheadStep
<1>3. CASE s' \in {"server", "server_with_at"}
  BY <1>3, ServerStep
<1>4. CASE s' \in Behind /\ s \notin Ahead
  BY <1>4, BehindStep
<1>5. CASE s' \in Behind /\ s \in Ahead
  <2>1. /\ s' = "path" => \/ s = "before_url" /\ ch \in {"/", "*"}
                          \/ s \in Server /\ ch = "/"
                          \/ s = "path" /\ ch \in UrlChars
        /\ s' = "query_string_start" => s \in Server \cup {"path"}
        /\ s' = "query_string" => s \in Query
        /\ s' = "fragment_start" => s \in {"path", "fragment_start"} \cup Query
        /\ s' = "fragment" => s \in {"fragment_start", "fragment"}
    BY UrlMoves DEF Reads
  <2>2. s = "before_url" /\ s' = "path"
    BY <1>5, <2>1 DEF Ahead, Behind, Server, Query
  <2> QED
    BY <2>2, PathOnlyStep
<1> QED
  BY <1>1, <1>2, <1>3, <1>4, <1>5 DEF UrlStates, Server

-----------------------------------------------------------------------------
(* A step of the second automaton.                                         *)

LEMMA HostMoves ==
  ASSUME NEW ch, NEW st, NEW next, next = Moved(http_parse_host_char, st, ch), next # "dead"
  PROVE  /\ next \in {"userinfo", "host_start", "v6_start", "host", "port_start", "v6_end",
                      "v6", "zone_start", "zone", "port"}
         /\ next = "userinfo" => st \in OfUser /\ ch \in UserinfoChars
         /\ next = "host_start" => st \in OfUser /\ ch = "@"
         /\ next = "v6_start" => st = "host_start" /\ ch = "["
         /\ next = "host" => st \in {"host_start", "host"} /\ ch \in HostChars
         /\ next = "port_start" => st \in {"host", "v6_end"} /\ ch = ":"
         /\ next = "v6_end" => st \in {"v6", "zone"} /\ ch = "]"
         /\ next = "v6" => st \in {"v6_start", "v6"} /\ ch \in Hex \cup {":", "."}
         /\ next = "zone_start" => st = "v6" /\ ch = "%"
         /\ next = "zone" => st \in {"zone_start", "zone"} /\ ch \in ZoneChars
         /\ next = "port" => st \in {"port_start", "port"} /\ ch \in Digits
<1>1. PICK m \in http_parse_host_char : st \in m.from /\ ch \in m.on /\ next = m.to
  BY MovedIsMove
<1>2. /\ next \in {"userinfo", "host_start", "v6_start", "host", "port_start", "v6_end",
                   "v6", "zone_start", "zone", "port"}
      /\ next = "userinfo" => st \in OfUser /\ ch \in UserinfoChars
      /\ next = "host_start" => st \in OfUser /\ ch = "@"
      /\ next = "v6_start" => st = "host_start" /\ ch = "["
  BY <1>1 DEF http_parse_host_char, Move, OfUser
<1>3. /\ next = "host" => st \in {"host_start", "host"} /\ ch \in HostChars
      /\ next = "port_start" => st \in {"host", "v6_end"} /\ ch = ":"
      /\ next = "v6_end" => st \in {"v6", "zone"} /\ ch = "]"
      /\ next = "v6" => st \in {"v6_start", "v6"} /\ ch \in Hex \cup {":", "."}
  BY <1>1 DEF http_parse_host_char, Move
<1>4. /\ next = "zone_start" => st = "v6" /\ ch = "%"
      /\ next = "zone" => st \in {"zone_start", "zone"} /\ ch \in ZoneChars
      /\ next = "port" => st \in {"port_start", "port"} /\ ch \in Digits
  BY <1>1 DEF http_parse_host_char, Move
<1> QED
  BY <1>2, <1>3, <1>4

LEMMA HostCharFacts ==
  /\ "@" \notin UserinfoChars /\ "@" \notin ZoneChars \cup Digits \cup Hex \cup {":", ".", "%"}
  /\ "[" \notin HostChars /\ ":" \notin HostChars /\ "]" \notin ZoneChars
  /\ "]" \notin Hex \cup {":", ".", "%"} /\ HostChars \subseteq ZoneChars
BY DEF UserinfoChars, ZoneChars, HostChars, AlphaNum, Alpha, Digits, Hex

(* What a step does with the fields.                                       *)
HostEffect ==
  IF s' \notin DOMAIN HostField THEN UNCHANGED <<field_set, field>>
  ELSE LET uf == HostField[s'] IN
       /\ field_set' = field_set \cup {uf}
       /\ field' = [field EXCEPT ![uf] = Extended(@, uf, s')]

(* A character of the authority is read, and the offsets fit.              *)
HostReads ==
  /\ UrlBounds /\ phase = "host" /\ Len(text) < Width /\ at < end
  /\ AuthorityRead(text, s, found_at, field_set, field, at, end)
  /\ s' = Moved(http_parse_host_char, s, text[at + 1]) /\ s' # "dead" /\ at' = at + 1
  /\ end' = end /\ HostEffect

HostReadNext == AuthorityRead(text, s', found_at, field_set', field', at', end)

(* The places of an authority.                                             *)
LEMMA AuthorityPlaces ==
  ASSUME NEW t \in Seq(Characters), NEW fa \in BOOLEAN, Lettered(t),
         From(t) < To(t), fa <=> UserTo(t) < To(t), From(t) <= Len(t) + 1
  PROVE  LET H == HostAt(t, fa)
             B == Bracketed(t, fa)
             T == HostEnd(t, fa)
             N == FirstOf(t, {"@"}, H)
         IN
         /\ Len(t) \in Nat /\ From(t) \in Nat /\ From(t) # 0 /\ To(t) \in Nat
         /\ To(t) <= Len(t) + 1
         /\ UserTo(t) \in Nat /\ From(t) <= UserTo(t)
         /\ fa => t[UserTo(t)] = "@" /\ UserTo(t) <= Len(t)
         /\ \A k \in From(t)..UserTo(t) - 1 : t[k] # "@"
         /\ H = IF fa THEN UserTo(t) + 1 ELSE From(t)
         /\ H \in Nat /\ From(t) <= H /\ H <= To(t)
         /\ B \in {0, 1} /\ (B = 1 <=> t[H] = "[")
         /\ T \in Nat /\ H <= T /\ T <= Len(t) + 1
         /\ T = Len(t) + 1 \/ t[T] = IF B = 1 THEN "]" ELSE ":"
         /\ \A k \in H..T - 1 : t[k] # IF B = 1 THEN "]" ELSE ":"
         /\ N \in Nat /\ H <= N /\ N <= Len(t) + 1
         /\ N = Len(t) + 1 \/ t[N] = "@"
         /\ \A k \in H..N - 1 : t[k] # "@"
<1> DEFINE L == Len(t)
           F == From(t)
           E == To(t)
           U == UserTo(t)
           H == HostAt(t, fa)
           B == Bracketed(t, fa)
           T == HostEnd(t, fa)
           N == FirstOf(t, {"@"}, H)
<1>1. /\ L \in Nat /\ F \in Nat /\ F # 0 /\ E \in Nat /\ F <= E /\ E <= L + 1
      /\ U \in Nat /\ F <= U
  <2>1. t # <<>>
    BY DEF Lettered
  <2> QED
    BY <2>1, PlaceFacts
<1>2. (U = L + 1 \/ t[U] \in {"@"}) /\ \A k \in F..U - 1 : t[k] \notin {"@"}
  BY <1>1, FirstFacts DEF UserTo
<1>3. fa => t[U] = "@" /\ U <= L
  BY <1>1, <1>2
<1>4. H = (IF fa THEN U + 1 ELSE F) /\ H \in Nat /\ H # 0 /\ F <= H /\ H <= E
  BY <1>1, <1>2 DEF HostAt
<1>5. B \in {0, 1} /\ (B = 1 <=> t[H] = "[")
  BY DEF Bracketed
<1> DEFINE chars == IF B = 1 THEN {"]"} ELSE {":"}
<1>6. T = FirstOf(t, chars, H)
  BY DEF HostEnd
<1>7. H <= L + 1
  BY <1>1, <1>4
<1> HIDE DEF L, F, E, U, H, B, T, N
<1>8. /\ T \in Nat /\ H <= T /\ T <= L + 1 /\ (T = L + 1 \/ t[T] \in chars)
      /\ \A k \in H..T - 1 : t[k] \notin chars
  <2> HIDE DEF chars
  <2> QED
    BY <1>4, <1>6, <1>7, FirstFacts DEF L
<1>9. /\ N \in Nat /\ H <= N /\ N <= L + 1 /\ (N = L + 1 \/ t[N] \in {"@"})
      /\ \A k \in H..N - 1 : t[k] \notin {"@"}
  BY <1>4, <1>7, FirstFacts DEF L, N
<1>10. /\ T = L + 1 \/ t[T] = IF B = 1 THEN "]" ELSE ":"
       /\ \A k \in H..T - 1 : t[k] # IF B = 1 THEN "]" ELSE ":"
  BY <1>8
<1> QED
  BY <1>1, <1>2, <1>3, <1>4, <1>5, <1>8, <1>9, <1>10 DEF L, F, E, U, H, B, T, N

(* Where the second automaton is, and what a step does with the fields.    *)
LEMMA HostReadsFacts ==
  ASSUME HostReads
  PROVE  /\ text \in Seq(Characters) /\ Len(text) \in Nat /\ found_at \in BOOLEAN
         /\ at \in Nat /\ at' = at + 1 /\ at + 1 <= Len(text) /\ at + 2 <= To(text)
         /\ at' <= end' /\ end' = To(text) - 1
         /\ s' \in HostStates /\ SchemaRead(text, field_set', field')
         /\ TailRead(text, field_set', field') /\ "host" \in field_set'
         /\ \A f \in Fields : (s' \in DOMAIN HostField => f # HostField[s']) =>
              field'[f] = field[f] /\ (f \in field_set' <=> f \in field_set)
         /\ s' \in DOMAIN HostField =>
              LET g == field[HostField[s']] IN
              /\ HostField[s'] \in field_set' /\ g \in [off : Nat, len : Nat]
              /\ field'[HostField[s']] =
                   IF s = s' \/ s' \in {"zone_start", "zone"}
                     THEN [off |-> g.off, len |-> g.len + 1]
                     ELSE [off |-> at, len |-> 1]
<1>1. /\ text \in Seq(Characters) /\ found_at \in BOOLEAN /\ at \in Nat /\ end \in Nat
      /\ field \in [Fields -> [off : Nat, len : Nat]]
      /\ s \in DOMAIN HostField =>
           field[HostField[s]].off + field[HostField[s]].len <= at
      /\ s \in Unopened => field["host"].len = 0
      /\ Len(text) < Width /\ at < end /\ at' = at + 1
      /\ AuthorityRead(text, s, found_at, field_set, field, at, end)
      /\ HostEffect /\ end' = end
  BY DEF HostReads, UrlBounds
<1>2. /\ Lettered(text) /\ From(text) < To(text) /\ From(text) <= Len(text)
      /\ end = To(text) - 1
      /\ SchemaRead(text, field_set, field) /\ TailRead(text, field_set, field)
      /\ "host" \in field_set
  BY <1>1 DEF AuthorityRead
<1>3. Len(text) \in Nat /\ To(text) \in Nat /\ To(text) <= Len(text) + 1
  <2>1. text # <<>> /\ Len(text) \in Nat /\ Colon(text) \in Nat
    BY <1>1, <1>2, ColonGrown, LenProperties, FirstFacts DEF Lettered, Colon
  <2>2. From(text) <= Len(text) + 1
    BY <1>2, <2>1 DEF From
  <2> QED
    BY <1>1, <2>1, <2>2, PlaceFacts
<1>4. s' \in {"userinfo", "host_start", "v6_start", "host", "port_start", "v6_end",
              "v6", "zone_start", "zone", "port"}
      /\ (s' = "zone_start" => s = "v6") /\ (s' = "zone" => s \in {"zone_start", "zone"})
      /\ (s' = "host" => s \in {"host_start", "host"})
      /\ (s' = "v6" => s \in {"v6_start", "v6"})
  BY HostMoves DEF HostReads
<1>5. s' \in HostStates
  BY <1>4 DEF HostStates, Unopened, OfUser, OfAddress
<1>6. s' \in DOMAIN HostField => HostField[s'] \in {"userinfo", "host", "port"}
  BY DEF HostField
<1>7. \A f \in Fields : (s' \in DOMAIN HostField => f # HostField[s']) =>
        field'[f] = field[f] /\ (f \in field_set' <=> f \in field_set)
  <2>1. CASE s' \in DOMAIN HostField
    <3>1. /\ field_set' = field_set \cup {HostField[s']}
          /\ field' = [field EXCEPT ![HostField[s']] = Extended(@, HostField[s'], s')]
      BY <1>1, <2>1 DEF HostEffect
    <3>2. ASSUME NEW f \in Fields, f # HostField[s']
          PROVE  field'[f] = field[f] /\ (f \in field_set' <=> f \in field_set)
      <4>1. field \in [Fields -> [off : Nat, len : Nat]]
        BY <1>1
      <4> QED
        BY <3>1, <3>2, <4>1
    <3> QED
      BY <2>1, <3>2
  <2>2. CASE s' \notin DOMAIN HostField
    BY <1>1, <2>2 DEF HostEffect
  <2> QED
    BY <2>1, <2>2
<1>8. "host" \in field_set'
  BY <1>1, <1>2 DEF HostEffect
<1>9. SchemaRead(text, field_set', field') /\ TailRead(text, field_set', field')
  <2>1. \A f \in {"schema", "path", "query", "fragment"} :
          field'[f] = field[f] /\ (f \in field_set' <=> f \in field_set)
    BY <1>6, <1>7 DEF Fields
  <2> QED
    BY <1>2, <2>1 DEF SchemaRead, TailRead, IsPiece
<1>10. ASSUME s' \in DOMAIN HostField
       PROVE  LET g == field[HostField[s']] IN
              /\ HostField[s'] \in field_set' /\ g \in [off : Nat, len : Nat]
              /\ field'[HostField[s']] =
                   IF s = s' \/ s' \in {"zone_start", "zone"}
                     THEN [off |-> g.off, len |-> g.len + 1]
                     ELSE [off |-> at, len |-> 1]
  <2> DEFINE uf == HostField[s']
             g == field[uf]
  <2>1. uf \in Fields
    BY <1>6, <1>10 DEF Fields
  <2>2. uf \in field_set' /\ field'[uf] = Extended(g, uf, s')
        /\ g \in [off : Nat, len : Nat]
    BY <1>1, <1>10, <2>1 DEF HostEffect
  <2>3. Width \in Nat /\ at \in Nat /\ at + 1 < Width
    BY <1>1, <1>2, <1>3, UrlAssumption
  <2>4. CASE s = s' \/ s' \in {"zone_start", "zone"}
    <3>1. s \in DOMAIN HostField /\ HostField[s] = uf
      BY <1>4, <1>10, <2>4 DEF HostField
    <3>2. g.off + g.len <= at /\ g.off \in Nat /\ g.len \in Nat
      BY <1>1, <2>2, <3>1
    <3>3. (g.len + 1) % Width = g.len + 1
      <4> HIDE DEF g
      <4> QED
        BY <2>3, <3>2
    <3>4. Extended(g, uf, s') = [g EXCEPT !.len = (@ + 1) % Width]
      BY <2>4 DEF Extended, Longer
    <3>5. Extended(g, uf, s') = [off |-> g.off, len |-> g.len + 1]
      <4> HIDE DEF g, uf
      <4> QED
        BY <2>2, <3>3, <3>4
    <3> QED
      BY <2>2, <2>4, <3>5
  <2>5. CASE ~(s = s' \/ s' \in {"zone_start", "zone"})
    <3>1. Extended(g, uf, s') = IF uf = "host" THEN [Longer(g) EXCEPT !.off = at % Width]
                                               ELSE [off |-> at % Width, len |-> 1]
      BY <2>5 DEF Extended, Entered, Started
    <3>2. at % Width = at /\ 1 % Width = 1
      BY <2>3
    <3>3. uf = "host" => Longer(g) = [g EXCEPT !.len = 1]
      <4>1. uf = "host" => s \in Unopened
        BY <1>4, <1>10, <2>5 DEF HostField, Unopened
      <4>2. uf = "host" => g.len = 0
        BY <1>1, <4>1
      <4> QED
        BY <3>2, <4>2 DEF Longer
    <3>4. Extended(g, uf, s') = [off |-> at, len |-> 1]
      <4> HIDE DEF g, uf
      <4> QED
        BY <2>2, <3>1, <3>2, <3>3
    <3> QED
      BY <2>2, <2>5, <3>4
  <2> QED
    BY <2>4, <2>5
<1>11. at + 1 <= Len(text) /\ at + 2 <= To(text) /\ at' <= end'
  BY <1>1, <1>2, <1>3
<1> QED
  BY <1>1, <1>2, <1>3, <1>5, <1>7, <1>8, <1>9, <1>10, <1>11

(* In the user information, up to its @.                                   *)
LEMMA UserStep ==
  ASSUME HostReads, s \in OfUser
  PROVE  IF s' \in OfUser
           THEN UserRead(text, s', found_at, field_set', field', at')
           ELSE HostRead(text, s', found_at, field_set', field', at')
<1> DEFINE F == From(text)
           U == UserTo(text)
           H == HostAt(text, found_at)
           ch == text[at + 1]
           N == FirstOf(text, {"@"}, H)
<1>1. /\ text \in Seq(Characters) /\ found_at \in BOOLEAN /\ at \in Nat
      /\ at' = at + 1 /\ at + 1 <= Len(text) /\ Len(text) \in Nat
      /\ \A f \in Fields : (s' \in DOMAIN HostField => f # HostField[s']) =>
           field'[f] = field[f] /\ (f \in field_set' <=> f \in field_set)
  BY HostReadsFacts
<1>2. /\ Lettered(text) /\ F < To(text) /\ F <= Len(text)
      /\ (found_at <=> U < To(text))
      /\ UserRead(text, s, found_at, field_set, field, at)
  BY DEF HostReads, AuthorityRead
<1>3. /\ found_at /\ at < U /\ IsPiece(field_set, field, "userinfo", F, at + 1)
      /\ (IF s = "userinfo" THEN F <= at ELSE at = F - 1)
      /\ field["host"].len = 0 /\ IsPiece(field_set, field, "port", 1, 1)
  BY <1>2 DEF UserRead
<1>4. F \in Nat /\ F # 0
  <2>1. Colon(text) \in Nat /\ F = Colon(text) + 3
    BY <1>1, <1>2, FirstFacts DEF Colon, From
  <2> QED
    BY <2>1
<1>5. /\ U \in Nat /\ F <= U /\ text[U] = "@" /\ U <= Len(text)
      /\ \A k \in F..U - 1 : text[k] # "@"
      /\ H = U + 1 /\ H \in Nat /\ N \in Nat /\ H <= N
  <2>1. F <= Len(text) + 1
    BY <1>1, <1>2, <1>4
  <2> QED
    BY <1>1, <1>2, <1>3, <2>1, AuthorityPlaces
<1>6. s' \in {"userinfo", "host_start"} /\ (s' = "userinfo" => ch # "@")
      /\ (s' = "host_start" => ch = "@")
  <2>1. /\ s' \in {"userinfo", "host_start", "v6_start", "host", "port_start", "v6_end",
                   "v6", "zone_start", "zone", "port"}
        /\ (s' = "userinfo" => ch \in UserinfoChars) /\ (s' = "host_start" => ch = "@")
        /\ (s' = "v6_start" => s = "host_start") /\ (s' = "host" => s \in {"host_start", "host"})
        /\ (s' = "port_start" => s \in {"host", "v6_end"})
        /\ (s' = "v6_end" => s \in {"v6", "zone"}) /\ (s' = "v6" => s \in {"v6_start", "v6"})
        /\ (s' = "zone_start" => s = "v6") /\ (s' = "zone" => s \in {"zone_start", "zone"})
        /\ (s' = "port" => s \in {"port_start", "port"})
    BY HostMoves DEF HostReads
  <2> QED
    BY <2>1, HostCharFacts DEF OfUser
<1> HIDE DEF F, U, H, ch, N
<1>7. CASE s' = "userinfo"
  <2>1. field'["host"].len = 0 /\ IsPiece(field_set', field', "port", 1, 1)
    <3>1. /\ field'["host"] = field["host"] /\ field'["port"] = field["port"]
          /\ ("port" \in field_set' <=> "port" \in field_set)
      BY <1>1, <1>7 DEF HostField, Fields
    <3> QED
      BY <1>3, <3>1 DEF IsPiece
  <2>2. at + 1 < U
    <3>1. at + 1 # U
      BY <1>5, <1>6, <1>7 DEF ch
    <3> QED
      BY <1>1, <1>3, <1>5, <3>1
  <2>3. F <= at + 1
    BY <1>1, <1>3, <1>4
  <2>4. IsPiece(field_set', field', "userinfo", F, at + 2)
    <3>1. /\ "userinfo" \in field_set' /\ field["userinfo"] \in [off : Nat, len : Nat]
          /\ field'["userinfo"] =
               IF s = "userinfo"
                 THEN [off |-> field["userinfo"].off, len |-> field["userinfo"].len + 1]
                 ELSE [off |-> at, len |-> 1]
      BY <1>7, HostReadsFacts DEF HostField
    <3>2. field'["userinfo"] = [off |-> F - 1, len |-> at + 2 - F]
      <4>1. CASE s = "userinfo"
        <5>1. F < at + 1
          BY <1>1, <1>3, <1>4, <4>1
        <5>2. field["userinfo"] = [off |-> F - 1, len |-> at + 1 - F]
          BY <1>1, <1>3, <1>4, <5>1 DEF IsPiece, Piece
        <5> QED
          BY <1>1, <1>4, <3>1, <4>1, <5>2
      <4>2. CASE s # "userinfo"
        BY <1>1, <1>3, <1>4, <3>1, <4>2
      <4> QED
        BY <4>1, <4>2
    <3>3. F < at + 2
      BY <1>1, <1>4, <2>3
    <3> QED
      BY <1>1, <1>4, <3>1, <3>2, <3>3 DEF IsPiece, Piece
  <2>5. at' + 1 = at + 2
    BY <1>1
  <2> QED
    BY <1>1, <1>3, <1>7, <2>1, <2>2, <2>3, <2>4, <2>5 DEF UserRead, OfUser, F, U
<1>8. CASE s' = "host_start"
  <2>1. /\ field'["host"] = field["host"] /\ field'["port"] = field["port"]
        /\ field'["userinfo"] = field["userinfo"]
        /\ ("port" \in field_set' <=> "port" \in field_set)
        /\ ("userinfo" \in field_set' <=> "userinfo" \in field_set)
    BY <1>1, <1>8 DEF HostField, Fields
  <2>2. at + 1 = U
    <3>1. F <= at + 1
      BY <1>1, <1>3, <1>4
    <3>2. ~(at + 1 < U)
      <4>1. ASSUME at + 1 < U PROVE FALSE
        <5>1. at + 1 \in F..U - 1
          BY <1>1, <1>4, <1>5, <3>1, <4>1
        <5> QED
          BY <1>5, <1>6, <1>8, <5>1 DEF ch
      <4> QED
        BY <4>1
    <3> QED
      BY <1>1, <1>3, <1>5, <3>2
  <2>3. at' = H - 1 /\ at' < N /\ H - 1 = at + 1
    BY <1>1, <1>5, <2>2
  <2>4. /\ field'["host"].len = 0 /\ IsPiece(field_set', field', "port", 1, 1)
        /\ IsPiece(field_set', field', "userinfo", F, H - 1)
    BY <1>3, <2>1, <2>3 DEF IsPiece
  <2>5. HostRead(text, "host_start", found_at, field_set', field', at')
    BY <2>3, <2>4 DEF HostRead, OfAddress, F, H, N
  <2> QED
    BY <1>8, <2>5 DEF OfUser
<1> QED
  BY <1>6, <1>7, <1>8

(* In the host, its port and their delimiters.                             *)
LEMMA HostStep ==
  ASSUME HostReads, s \notin OfUser
  PROVE  s' \notin OfUser /\ HostRead(text, s', found_at, field_set', field', at')
<1> DEFINE F == From(text)
           H == HostAt(text, found_at)
           B == Bracketed(text, found_at)
           T == HostEnd(text, found_at)
           ch == text[at + 1]
           N == FirstOf(text, {"@"}, H)
           L == Len(text)
           g == field["host"]
           h == field'["host"]
           p == field["port"]
<1>1. /\ text \in Seq(Characters) /\ found_at \in BOOLEAN /\ at \in Nat /\ L \in Nat
      /\ at' = at + 1 /\ at + 1 <= L
      /\ \A f \in Fields : (s' \in DOMAIN HostField => f # HostField[s']) =>
           field'[f] = field[f] /\ (f \in field_set' <=> f \in field_set)
  BY HostReadsFacts
<1>2. /\ Lettered(text) /\ F < To(text) /\ F <= L
      /\ (found_at <=> UserTo(text) < To(text))
      /\ HostRead(text, s, found_at, field_set, field, at) /\ s \in HostStates
  BY DEF HostReads, AuthorityRead
<1>3. /\ IsPiece(field_set, field, "userinfo", F, H - 1)
      /\ at < N
      /\ (IF s = "port" THEN T + B < at /\ IsPiece(field_set, field, "port", T + B + 1, at + 1)
                        ELSE IsPiece(field_set, field, "port", 1, 1))
      /\ CASE s = "host_start" -> at = H - 1 /\ g.len = 0
           [] s = "v6_start" -> at = H /\ B = 1 /\ g.len = 0 /\ at < T
           [] s = "host" -> H <= at /\ at < T /\ B = 0 /\ g = Piece(H, at + 1)
           [] s \in OfAddress -> H < at /\ at < T /\ B = 1 /\ g = Piece(H + 1, at + 1)
           [] OTHER -> /\ H + B < T /\ g = Piece(H + B, T)
                       /\ (s = "v6_end" => B = 1 /\ at = T)
                       /\ (s = "port_start" => at = T + B)
  BY <1>2 DEF HostRead
<1>4. F \in Nat /\ F # 0
  <2>1. Colon(text) \in Nat /\ F = Colon(text) + 3
    BY <1>1, <1>2, FirstFacts DEF Colon, From
  <2> QED
    BY <2>1
<1>5. /\ H \in Nat /\ F <= H /\ B \in {0, 1} /\ (B = 1 <=> text[H] = "[")
      /\ T \in Nat /\ H <= T /\ T <= L + 1
      /\ T = L + 1 \/ text[T] = IF B = 1 THEN "]" ELSE ":"
      /\ \A k \in H..T - 1 : text[k] # IF B = 1 THEN "]" ELSE ":"
      /\ N \in Nat /\ H <= N /\ (N = L + 1 \/ text[N] = "@")
  <2>1. F <= L + 1
    BY <1>1, <1>2, <1>4
  <2> QED
    BY <1>1, <1>2, <2>1, AuthorityPlaces
<1>6. /\ s' \in {"v6_start", "host", "port_start", "v6_end", "v6", "zone_start", "zone", "port"}
      /\ s' = "v6_start" => s = "host_start" /\ ch = "["
      /\ s' = "host" => s \in {"host_start", "host"} /\ ch \in HostChars
      /\ s' = "port_start" => s \in {"host", "v6_end"} /\ ch = ":"
      /\ s' = "v6_end" => s \in {"v6", "zone"} /\ ch = "]"
      /\ s' = "v6" => s \in {"v6_start", "v6"} /\ ch \in Hex \cup {":", "."}
      /\ s' = "zone_start" => s = "v6" /\ ch = "%"
      /\ s' = "zone" => s \in {"zone_start", "zone"} /\ ch \in ZoneChars
      /\ s' = "port" => s \in {"port_start", "port"} /\ ch \in Digits
  <2>1. s' # "userinfo" /\ s' # "host_start"
    BY HostMoves DEF HostReads
  <2> QED
    BY <2>1, HostMoves DEF HostReads
<1>7. s' \notin OfUser
  BY <1>6 DEF OfUser
<1>8. ch # "@" /\ (s' \in {"host", "v6", "zone_start", "zone"} => ch # "]")
      /\ (s' = "host" => ch # "[" /\ ch # ":")
  BY <1>6, HostCharFacts
<1>9. s' \in DOMAIN HostField =>
        LET f == field[HostField[s']] IN
        /\ HostField[s'] \in field_set' /\ f \in [off : Nat, len : Nat]
        /\ field'[HostField[s']] =
             IF s = s' \/ s' \in {"zone_start", "zone"}
               THEN [off |-> f.off, len |-> f.len + 1]
               ELSE [off |-> at, len |-> 1]
  BY HostReadsFacts
<1> HIDE DEF F, H, B, T, ch, N, L, g, h, p
<1>10. IsPiece(field_set', field', "userinfo", F, H - 1)
  <2>1. /\ field'["userinfo"] = field["userinfo"]
        /\ ("userinfo" \in field_set' <=> "userinfo" \in field_set)
    BY <1>1, <1>6 DEF HostField, Fields
  <2> QED
    BY <1>3, <2>1 DEF IsPiece
<1>11. at' < N /\ at' \in Nat
  <2>1. at + 1 # N
    BY <1>1, <1>5, <1>8 DEF ch
  <2> QED
    BY <1>1, <1>3, <1>5, <2>1
<1>12. s' # "port" => IsPiece(field_set', field', "port", 1, 1)
  <2>1. s' # "port" => s # "port"
    BY <1>6
  <2>2. s' # "port" => /\ field'["port"] = field["port"]
                       /\ ("port" \in field_set' <=> "port" \in field_set)
    BY <1>1, <1>6 DEF HostField, Fields
  <2> QED
    BY <1>3, <2>1, <2>2 DEF IsPiece
<1>13. s' \notin {"host", "v6", "zone_start", "zone"} => h = g
  BY <1>1, <1>6 DEF HostField, Fields, h, g
<1>14. s' \in {"host", "v6", "zone_start", "zone"} =>
         /\ g \in [off : Nat, len : Nat]
         /\ h = IF s = s' \/ s' \in {"zone_start", "zone"}
                  THEN [off |-> g.off, len |-> g.len + 1] ELSE [off |-> at, len |-> 1]
  BY <1>9 DEF HostField, h, g
<1>15. ASSUME NEW i \in Nat, i # 0, i <= at, g = Piece(i, at + 1)
       PROVE  [off |-> g.off, len |-> g.len + 1] = Piece(i, at' + 1)
  <2>1. g = [off |-> i - 1, len |-> at + 1 - i]
    BY <1>1, <1>15 DEF Piece
  <2> QED
    BY <1>1, <1>15, <2>1 DEF Piece
<1>16. [off |-> at, len |-> 1] = Piece(at + 1, at' + 1)
  BY <1>1 DEF Piece
<1>17. H # 0
  BY <1>4, <1>5
<1>18. CASE s' = "v6_start"
  <2>1. at + 1 = H /\ g.len = 0
    BY <1>1, <1>3, <1>5, <1>6, <1>18 DEF OfAddress
  <2>2. B = 1 /\ H # T
    BY <1>1, <1>5, <1>6, <1>18, <2>1 DEF ch
  <2>3. at' = H /\ at' < T /\ h.len = 0
    BY <1>1, <1>5, <1>13, <1>18, <2>1, <2>2
  <2>4. HostRead(text, "v6_start", found_at, field_set', field', at')
    BY <1>10, <1>11, <1>12, <1>18, <2>2, <2>3 DEF HostRead, OfAddress, F, H, B, T, N, h
  <2> QED
    BY <1>7, <1>18, <2>4
<1>19. CASE s' = "host"
  <2>1. at + 1 <= T /\ H <= at + 1 /\ B = 0 /\ h = Piece(H, at' + 1)
    <3>1. CASE s = "host_start"
      <4>1. at + 1 = H
        BY <1>1, <1>3, <1>5, <3>1 DEF OfAddress
      <4>2. B = 0
        BY <1>5, <1>8, <1>19, <4>1 DEF ch
      <4>3. h = Piece(H, at' + 1)
        BY <1>14, <1>16, <1>19, <3>1, <4>1
      <4> QED
        BY <1>5, <4>1, <4>2, <4>3
    <3>2. CASE s = "host"
      <4>1. H <= at /\ at < T /\ B = 0 /\ g = Piece(H, at + 1)
        BY <1>3, <3>2 DEF OfAddress
      <4>2. h = Piece(H, at' + 1)
        BY <1>5, <1>14, <1>15, <1>17, <1>19, <3>2, <4>1
      <4> QED
        BY <1>1, <1>5, <4>1, <4>2
    <3> QED
      BY <1>6, <1>19, <3>1, <3>2
  <2>2. at + 1 # T
    BY <1>1, <1>5, <1>8, <1>19, <2>1 DEF ch
  <2>3. H <= at' /\ at' < T
    BY <1>1, <1>5, <2>1, <2>2
  <2>4. HostRead(text, "host", found_at, field_set', field', at')
    BY <1>10, <1>11, <1>12, <1>19, <2>1, <2>3 DEF HostRead, OfAddress, F, H, B, T, N, h
  <2> QED
    BY <1>7, <1>19, <2>4
<1>20. CASE s' = "port_start"
  <2>1. H + B < T /\ h = Piece(H + B, T) /\ at' = T + B
    <3>1. CASE s = "host"
      <4>1. H <= at /\ at < T /\ B = 0 /\ g = Piece(H, at + 1)
        BY <1>3, <3>1 DEF OfAddress
      <4>2. T = at + 1
        <5>1. ~(at + 1 < T)
          <6>1. ASSUME at + 1 < T PROVE FALSE
            <7>1. at + 1 \in H..T - 1
              BY <1>1, <1>5, <4>1, <6>1
            <7> QED
              BY <1>5, <1>6, <1>20, <4>1, <7>1 DEF ch
          <6> QED
            BY <6>1
        <5> QED
          BY <1>1, <1>5, <4>1, <5>1
      <4> QED
        BY <1>1, <1>5, <1>13, <1>20, <4>1, <4>2
    <3>2. CASE s = "v6_end"
      <4>1. H + B < T /\ g = Piece(H + B, T) /\ B = 1 /\ at = T
        BY <1>3, <3>2 DEF OfAddress
      <4> QED
        BY <1>1, <1>5, <1>13, <1>20, <4>1
    <3> QED
      BY <1>6, <1>20, <3>1, <3>2
  <2>2. HostRead(text, "port_start", found_at, field_set', field', at')
    BY <1>10, <1>11, <1>12, <1>20, <2>1 DEF HostRead, OfAddress, F, H, B, T, N, h
  <2> QED
    BY <1>7, <1>20, <2>2
<1>21. CASE s' = "v6_end"
  <2>1. H < at /\ at < T /\ B = 1 /\ g = Piece(H + 1, at + 1)
    BY <1>3, <1>6, <1>21 DEF OfAddress
  <2>2. T = at + 1
    <3>1. ~(at + 1 < T)
      <4>1. ASSUME at + 1 < T PROVE FALSE
        <5>1. at + 1 \in H..T - 1
          BY <1>1, <1>5, <2>1, <4>1
        <5> QED
          BY <1>5, <1>6, <1>21, <2>1, <5>1 DEF ch
      <4> QED
        BY <4>1
    <3> QED
      BY <1>1, <1>5, <2>1, <3>1
  <2>3. H + B < T /\ h = Piece(H + B, T) /\ at' = T
    BY <1>1, <1>5, <1>13, <1>21, <2>1, <2>2
  <2>4. HostRead(text, "v6_end", found_at, field_set', field', at')
    BY <1>10, <1>11, <1>12, <1>21, <2>1, <2>3 DEF HostRead, OfAddress, F, H, B, T, N, h
  <2> QED
    BY <1>7, <1>21, <2>4
<1>22. CASE s' \in OfAddress
  <2>1. H <= at /\ at < T /\ B = 1 /\ h = Piece(H + 1, at' + 1)
    <3>1. CASE s = "v6_start"
      <4>1. at = H /\ B = 1 /\ at < T
        BY <1>3, <3>1 DEF OfAddress
      <4>2. s' = "v6"
        BY <1>6, <1>22, <3>1 DEF OfAddress
      <4>3. h = Piece(H + 1, at' + 1)
        BY <1>14, <1>16, <3>1, <4>1, <4>2
      <4> QED
        BY <1>1, <4>1, <4>3
    <3>2. CASE s \in OfAddress
      <4>1. H < at /\ at < T /\ B = 1 /\ g = Piece(H + 1, at + 1)
        BY <1>3, <3>2 DEF OfAddress
      <4>2. s = s' \/ s' \in {"zone_start", "zone"}
        BY <1>6, <1>22, <3>2 DEF OfAddress
      <4>3. s' \in {"host", "v6", "zone_start", "zone"}
        BY <1>22 DEF OfAddress
      <4>4. h = [off |-> g.off, len |-> g.len + 1]
        BY <1>14, <4>2, <4>3
      <4>5. H + 1 \in Nat /\ H + 1 # 0 /\ H + 1 <= at
        BY <1>1, <1>5, <4>1
      <4>6. h = Piece(H + 1, at' + 1)
        BY <1>15, <4>1, <4>4, <4>5
      <4> QED
        BY <1>1, <1>5, <4>1, <4>6
    <3> QED
      BY <1>6, <1>22, <3>1, <3>2 DEF OfAddress
  <2>2. at + 1 # T
    BY <1>1, <1>5, <1>8, <1>22, <2>1 DEF ch, OfAddress
  <2>3. H < at' /\ at' < T
    BY <1>1, <1>5, <2>1, <2>2
  <2>4. s' \notin {"port", "host_start", "v6_start", "host"}
    BY <1>22 DEF OfAddress
  <2>5. HostRead(text, s', found_at, field_set', field', at')
    BY <1>10, <1>11, <1>12, <1>22, <2>1, <2>3, <2>4 DEF HostRead, F, H, B, T, N, h
  <2> QED
    BY <1>7, <2>5
<1>23. CASE s' = "port"
  <2>1. H + B < T /\ g = Piece(H + B, T)
    BY <1>3, <1>6, <1>23 DEF OfAddress
  <2>2. T + B <= at /\ IsPiece(field_set', field', "port", T + B + 1, at' + 1)
    <3>1. /\ "port" \in field_set' /\ p \in [off : Nat, len : Nat]
          /\ field'["port"] = IF s = s' THEN [off |-> p.off, len |-> p.len + 1]
                                        ELSE [off |-> at, len |-> 1]
      BY <1>9, <1>23 DEF HostField, p
    <3>2. CASE s = "port"
      <4>1. T + B < at /\ p = Piece(T + B + 1, at + 1)
        BY <1>3, <3>2 DEF IsPiece, p
      <4>2. p = [off |-> T + B, len |-> at - (T + B)]
        BY <1>1, <1>5, <4>1 DEF Piece
      <4>3. field'["port"] = [off |-> T + B, len |-> at + 1 - (T + B)]
        BY <1>1, <1>5, <1>23, <3>1, <3>2, <4>2
      <4>4. field'["port"] = Piece(T + B + 1, at' + 1) /\ T + B + 1 < at' + 1
        BY <1>1, <1>5, <4>1, <4>3 DEF Piece
      <4> QED
        BY <1>1, <1>5, <3>1, <4>1, <4>4 DEF IsPiece
    <3>3. CASE s = "port_start"
      <4>1. at = T + B
        BY <1>3, <3>3 DEF OfAddress
      <4>2. field'["port"] = Piece(T + B + 1, at' + 1)
        BY <1>16, <1>23, <3>1, <3>3, <4>1
      <4>3. T + B + 1 < at' + 1
        BY <1>1, <1>5, <4>1
      <4> QED
        BY <1>1, <1>5, <3>1, <4>1, <4>2, <4>3 DEF IsPiece
    <3> QED
      BY <1>6, <1>23, <3>2, <3>3
  <2>3. T + B < at'
    BY <1>1, <1>5, <2>2
  <2>4. h = Piece(H + B, T)
    BY <1>13, <1>23, <2>1
  <2>5. HostRead(text, "port", found_at, field_set', field', at')
    BY <1>10, <1>11, <2>1, <2>2, <2>3, <2>4 DEF HostRead, OfAddress, F, H, B, T, N, h
  <2> QED
    BY <1>7, <1>23, <2>5
<1>24. \/ s' = "v6_start" \/ s' = "host" \/ s' = "port_start" \/ s' = "v6_end"
       \/ s' \in OfAddress \/ s' = "port"
  BY <1>6 DEF OfAddress
<1> QED
  BY <1>18, <1>19, <1>20, <1>21, <1>22, <1>23, <1>24

LEMMA HostReadStep == HostReads => HostReadNext
<1> SUFFICES ASSUME HostReads PROVE HostReadNext
  OBVIOUS
<1>1. /\ at' <= end' /\ end' = To(text) - 1 /\ s' \in HostStates /\ end' = end
      /\ SchemaRead(text, field_set', field') /\ TailRead(text, field_set', field')
      /\ "host" \in field_set'
  BY HostReadsFacts DEF HostReads
<1>2. /\ Lettered(text) /\ From(text) < To(text) /\ From(text) <= Len(text)
      /\ (found_at <=> UserTo(text) < To(text))
  BY DEF HostReads, AuthorityRead
<1>3. IF s' \in OfUser THEN UserRead(text, s', found_at, field_set', field', at')
                       ELSE HostRead(text, s', found_at, field_set', field', at')
  <2>1. CASE s \in OfUser
    BY <2>1, UserStep
  <2>2. CASE s \notin OfUser
    <3>1. s' \notin OfUser /\ HostRead(text, s', found_at, field_set', field', at')
      BY <2>2, HostStep
    <3> QED
      BY <3>1
  <2> QED
    BY <2>1, <2>2
<1> QED
  BY <1>1, <1>2, <1>3 DEF HostReadNext, AuthorityRead

-----------------------------------------------------------------------------
(* Offsets and lengths of sixteen bits stay in the URL, however long it is.*)

LEMMA Wrapped == \A n \in Nat : n % Width \in Nat /\ n % Width <= n
<1> SUFFICES ASSUME NEW n \in Nat PROVE n % Width \in Nat /\ n % Width <= n
  OBVIOUS
<1>1. Width \in Nat /\ Width # 0
  BY UrlAssumption
<1>2. n % Width \in Nat /\ n % Width < Width
  BY <1>1
<1>3. n < Width => n % Width = n
  BY <1>1
<1> QED
  BY <1>1, <1>2, <1>3

LEMMA FailBounded ==
  ASSUME Bounded, Fail, UNCHANGED template, text' \in Seq(Characters), Len(text) <= Len(text')
  PROVE  Bounded'
<1>1. /\ text' \in Seq(Characters) /\ template' \in Templates /\ phase' = "error"
      /\ found_at' \in BOOLEAN /\ field' \in [Fields -> [off : Nat, len : Nat]]
      /\ at' \in Nat /\ end' \in Nat
  BY DEF Bounded, UrlBounds, Fail
<1>2. UrlBounds'
  BY <1>1 DEF UrlBounds
<1>3. Len(text) \in Nat /\ Len(text') \in Nat
  BY LenProperties DEF Bounded, UrlBounds
<1>4. FieldsInBuffer'
  <2>1. ASSUME NEW f \in Fields PROVE field'[f].off + field'[f].len <= Len(text')
    <3>1. /\ field'[f] = field[f] /\ field[f] \in [off : Nat, len : Nat]
          /\ field[f].off + field[f].len <= Len(text)
      BY DEF Bounded, UrlBounds, FieldsInBuffer, Fail
    <3> QED
      BY <1>3, <3>1
  <2>2. end' <= Len(text')
    <3>1. end' = end /\ end \in Nat /\ end <= Len(text)
      BY DEF Bounded, UrlBounds, FieldsInBuffer, Fail
    <3> QED
      BY <1>3, <3>1
  <2> QED
    BY <2>1, <2>2 DEF FieldsInBuffer
<1> QED
  BY <1>2, <1>4 DEF Bounded

LEMMA ReadUrlChar ==
  ASSUME Bounded, NEW ch, ReadUrl(ch)
  PROVE  /\ ch \in Characters /\ text \in Seq(Characters) /\ text' = Append(text, ch)
         /\ text' \in Seq(Characters) /\ Len(text) \in Nat /\ Len(text') = Len(text) + 1
<1>1. /\ text \in Seq(Characters) /\ template \in Seq(SUBSET Characters)
      /\ Len(text) < Len(template) /\ ch \in template[Len(text) + 1]
      /\ text' = Append(text, ch)
  BY UrlAssumption DEF Bounded, UrlBounds, ReadUrl
<1>2. Len(text) \in Nat /\ Len(template) \in Nat
  BY <1>1, LenProperties
<1>3. template[Len(text) + 1] \in SUBSET Characters
  BY <1>1, <1>2, ElementOfSeq
<1>4. ch \in Characters
  BY <1>1, <1>3
<1> QED
  BY <1>1, <1>2, <1>4, Grown

LEMMA ReadUrlBounded ==
  ASSUME Bounded, NEW ch, ReadUrl(ch)
  PROVE  Bounded'
<1> DEFINE next == Moved(parse_url_char, s, ch)
           L == Len(text)
<1>1. /\ text' \in Seq(Characters) /\ L \in Nat /\ Len(text') = L + 1
      /\ UNCHANGED template /\ phase = "url"
  BY ReadUrlChar DEF ReadUrl
<1>2. CASE next = "dead"
  <2>1. Fail /\ Len(text) <= Len(text')
    BY <1>1, <1>2 DEF ReadUrl
  <2> QED
    BY <1>1, <2>1, FailBounded
<1>3. CASE next # "dead"
  <2>1. /\ s' = next /\ found_at' = (found_at \/ next = "server_with_at")
        /\ IF next \notin DOMAIN UrlField THEN UNCHANGED <<old_uf, field_set, field>>
           ELSE field' = [field EXCEPT ![UrlField[next]] =
                            IF UrlField[next] = old_uf THEN Longer(@) ELSE Started(L)]
        /\ UNCHANGED <<phase, at, end, port>>
    BY <1>3 DEF ReadUrl
  <2>2. /\ field \in [Fields -> [off : Nat, len : Nat]] /\ template \in Templates
        /\ at \in Nat /\ end \in Nat /\ end <= L /\ found_at \in BOOLEAN
        /\ \A f \in Fields : field[f].off + field[f].len <= L
    BY DEF Bounded, UrlBounds, FieldsInBuffer
  <2>3. s' \in UrlStates
    BY <1>3, <2>1, UrlMoves
  <2>4. ASSUME NEW g \in [off : Nat, len : Nat], g.off + g.len <= L
        PROVE  /\ Longer(g) \in [off : Nat, len : Nat]
               /\ Longer(g).off + Longer(g).len <= L + 1
    <3>1. (g.len + 1) % Width \in Nat /\ (g.len + 1) % Width <= g.len + 1
      BY Wrapped
    <3> QED
      BY <1>1, <2>4, <3>1 DEF Longer
  <2>5. Started(L) \in [off : Nat, len : Nat] /\ Started(L).off + Started(L).len <= L + 1
    <3>1. L % Width \in Nat /\ L % Width <= L
      BY <1>1, Wrapped
    <3> QED
      BY <1>1, <3>1 DEF Started
  <2>6. ASSUME NEW f \in Fields
        PROVE  field'[f] \in [off : Nat, len : Nat] /\ field'[f].off + field'[f].len <= L + 1
    <3>1. field[f] \in [off : Nat, len : Nat] /\ field[f].off + field[f].len <= L
      BY <2>2
    <3>2. field'[f] \in {field[f], Longer(field[f]), Started(L)}
      BY <2>1, <2>2
    <3>3. CASE field'[f] = field[f]
      BY <1>1, <3>1, <3>3
    <3>4. CASE field'[f] = Longer(field[f])
      BY <2>4, <3>1, <3>4
    <3>5. CASE field'[f] = Started(L)
      BY <2>5, <3>5
    <3> QED
      BY <3>2, <3>3, <3>4, <3>5
  <2>7. field' \in [Fields -> [off : Nat, len : Nat]]
    <3>1. \A f \in Fields : field'[f] \in [off : Nat, len : Nat]
      BY <2>6
    <3>2. field' = [f \in Fields |-> field'[f]]
      <4> HIDE DEF next, L
      <4> QED
        BY <2>1, <2>2
    <3> QED
      BY <3>1, <3>2
  <2>8. found_at' \in BOOLEAN
    BY <2>1, <2>2
  <2>9. UrlBounds'
    BY <1>1, <2>1, <2>2, <2>3, <2>7, <2>8 DEF UrlBounds
  <2>10. FieldsInBuffer'
    <3>1. end' <= Len(text')
      BY <1>1, <2>1, <2>2
    <3> QED
      BY <1>1, <2>6, <3>1 DEF FieldsInBuffer
  <2> QED
    BY <2>9, <2>10 DEF Bounded
<1> QED
  BY <1>2, <1>3

LEMMA EndUrlBounded ==
  ASSUME Bounded, EndUrl
  PROVE  Bounded'
<1> DEFINE host == field["host"]
           L == Len(text)
<1>1. /\ text \in Seq(Characters) /\ template \in Templates /\ found_at \in BOOLEAN
      /\ field \in [Fields -> [off : Nat, len : Nat]] /\ at \in Nat /\ end \in Nat
      /\ end <= L /\ \A f \in Fields : field[f].off + field[f].len <= L
      /\ UNCHANGED <<template, text>>
  BY DEF Bounded, UrlBounds, FieldsInBuffer, EndUrl
<1>2. L \in Nat
  BY <1>1, LenProperties
<1>3. CASE Fail
  BY <1>1, <1>2, <1>3, FailBounded
<1>4. CASE /\ phase' = "host"
           /\ s' = IF found_at THEN "userinfo_start" ELSE "host_start"
           /\ at' = host.off /\ end' = host.off + host.len
           /\ field' = [field EXCEPT !["host"] = Emptied(@)]
           /\ UNCHANGED found_at
  <2>1. host \in [off : Nat, len : Nat] /\ host.off + host.len <= L
    BY <1>1 DEF Fields
  <2>2. Emptied(host) = [off |-> host.off, len |-> 0]
    BY <2>1 DEF Emptied
  <2>3. /\ field'["host"] = Emptied(host)
        /\ \A f \in Fields : f # "host" => field'[f] = field[f]
    BY <1>1, <1>4 DEF Fields
  <2> HIDE DEF host
  <2>10. ASSUME NEW f \in Fields
         PROVE  field'[f] \in [off : Nat, len : Nat] /\ field'[f].off + field'[f].len <= L
    <3>1. CASE f = "host"
      <4>1. field'[f] = [off |-> host.off, len |-> 0]
        BY <2>2, <2>3, <3>1
      <4>2. host.off \in Nat /\ host.off + 0 <= L
        BY <1>2, <2>1
      <4> QED
        BY <4>1, <4>2
    <3>2. CASE f # "host"
      <4>1. field'[f] = field[f]
        BY <2>3, <3>2
      <4> QED
        BY <1>1, <4>1
    <3> QED
      BY <3>1, <3>2
  <2>4. field' \in [Fields -> [off : Nat, len : Nat]]
    <3>1. field' = [f \in Fields |-> field'[f]]
      BY <1>1, <1>4
    <3>2. \A f \in Fields : field'[f] \in [off : Nat, len : Nat]
      BY <2>10
    <3> QED
      BY <3>1, <3>2
  <2>5. \A f \in Fields : field'[f].off + field'[f].len <= L
    BY <2>10
  <2>6. s' \in HostStates /\ s' \in Unopened /\ s' \notin DOMAIN HostField
    BY <1>4 DEF HostStates, Unopened, OfUser, OfAddress, HostField
  <2>7. at' \in Nat /\ end' \in Nat /\ at' <= end' /\ end' <= L
    BY <1>2, <1>4, <2>1
  <2>8. field'["host"].len = 0
    BY <2>2, <2>3
  <2>9. UrlBounds'
    BY <1>1, <1>4, <2>4, <2>6, <2>7, <2>8 DEF UrlBounds
  <2> QED
    BY <1>1, <2>5, <2>7, <2>9 DEF Bounded, FieldsInBuffer
<1>5. CASE phase' = "parsed" /\ UNCHANGED <<s, at, end, field, found_at>>
  <2>1. UrlBounds'
    BY <1>1, <1>5 DEF UrlBounds
  <2>2. FieldsInBuffer'
    BY <1>1, <1>5 DEF FieldsInBuffer
  <2> QED
    BY <2>1, <2>2 DEF Bounded
<1> QED
  BY <1>3, <1>4, <1>5 DEF EndUrl

LEMMA ReadHostBounded ==
  ASSUME Bounded, ReadHost
  PROVE  Bounded'
<1> DEFINE next == Moved(http_parse_host_char, s, text[at + 1])
           uf == HostField[next]
           host == field["host"]
<1>1. /\ text \in Seq(Characters) /\ template \in Templates /\ found_at \in BOOLEAN
      /\ field \in [Fields -> [off : Nat, len : Nat]] /\ at \in Nat /\ end \in Nat
      /\ end <= Len(text) /\ \A f \in Fields : field[f].off + field[f].len <= Len(text)
      /\ UNCHANGED <<template, text>> /\ phase = "host" /\ at < end
      /\ s \in DOMAIN HostField =>
           field[HostField[s]].off + field[HostField[s]].len <= at
      /\ s \in Unopened => host.len = 0
  BY DEF Bounded, UrlBounds, FieldsInBuffer, ReadHost
<1>2. Len(text) \in Nat
  BY <1>1, LenProperties
<1>3. CASE next = "dead"
  <2>1. Fail
    BY <1>3 DEF ReadHost
  <2> QED
    BY <1>1, <1>2, <2>1, FailBounded
<1>4. CASE next # "dead"
  <2>1. /\ s' = next /\ at' = at + 1
        /\ IF next \notin DOMAIN HostField THEN UNCHANGED <<field_set, field>>
           ELSE field' = [field EXCEPT ![uf] = Extended(@, uf, next)]
        /\ UNCHANGED <<phase, found_at, end>>
    BY <1>4 DEF ReadHost
  <2>2. /\ next \in {"userinfo", "host_start", "v6_start", "host", "port_start", "v6_end",
                     "v6", "zone_start", "zone", "port"}
        /\ next = "userinfo" => s \in OfUser
        /\ next = "host_start" => s \in OfUser
        /\ next = "v6_start" => s = "host_start"
        /\ next = "host" => s \in {"host_start", "host"}
        /\ next = "v6" => s \in {"v6_start", "v6"}
        /\ next = "zone_start" => s = "v6"
        /\ next = "zone" => s \in {"zone_start", "zone"}
    BY <1>4, HostMoves
  <2>3. next \in HostStates
    BY <2>2 DEF HostStates, Unopened, OfUser, OfAddress
  <2>4. next \in DOMAIN HostField => uf \in Fields /\ uf \in {"userinfo", "host", "port"}
    BY DEF HostField, Fields
  <2>5. ASSUME next \in DOMAIN HostField
        PROVE  /\ Extended(field[uf], uf, next) \in [off : Nat, len : Nat]
               /\ Extended(field[uf], uf, next).off + Extended(field[uf], uf, next).len <= at + 1
    <3> DEFINE g == field[uf]
    <3>1. g \in [off : Nat, len : Nat]
      BY <1>1, <2>4, <2>5
    <3>2. /\ (g.len + 1) % Width \in Nat /\ (g.len + 1) % Width <= g.len + 1
          /\ at % Width \in Nat /\ at % Width <= at /\ at \in Nat
      <4> HIDE DEF g
      <4>1. g.len + 1 \in Nat /\ at \in Nat
        BY <1>1, <3>1
      <4> QED
        BY <4>1, Wrapped
    <3>3. CASE s = next \/ next \in {"zone_start", "zone"}
      <4>1. s \in DOMAIN HostField /\ HostField[s] = uf
        BY <2>2, <2>5, <3>3 DEF HostField
      <4>2. g.off + g.len <= at
        BY <1>1, <4>1
      <4>3. Extended(g, uf, next) = [off |-> g.off, len |-> (g.len + 1) % Width]
        <5>1. Extended(g, uf, next) = [g EXCEPT !.len = (@ + 1) % Width]
          BY <3>3 DEF Extended, Longer
        <5> HIDE DEF g, uf, next
        <5> QED
          BY <3>1, <5>1
      <4> HIDE DEF g, uf, next
      <4> DEFINE m == (g.len + 1) % Width
      <4>5. m \in Nat /\ m <= g.len + 1 /\ g.off \in Nat /\ g.len \in Nat
        BY <3>1, <3>2
      <4> HIDE DEF m
      <4>4. g.off + m <= at + 1
        BY <3>2, <4>2, <4>5
      <4>6. Extended(g, uf, next) = [off |-> g.off, len |-> m]
        BY <4>3 DEF m
      <4> QED
        BY <4>4, <4>5, <4>6 DEF g
    <3>4. CASE ~(s = next \/ next \in {"zone_start", "zone"}) /\ uf = "host"
      <4>1. s \in Unopened
        BY <2>2, <2>5, <3>4 DEF HostField, Unopened
      <4>2. g.len = 0
        BY <1>1, <3>4, <4>1
      <4>3. Extended(g, uf, next) = [Longer(g) EXCEPT !.off = at % Width]
        BY <3>4 DEF Extended, Entered
      <4> HIDE DEF g, uf, next
      <4>4. Extended(g, uf, next) = [off |-> at % Width, len |-> (g.len + 1) % Width]
        BY <3>1, <4>3 DEF Longer
      <4> DEFINE m == (g.len + 1) % Width
                 k == at % Width
      <4>5. m \in Nat /\ m <= g.len + 1 /\ g.len \in Nat /\ k \in Nat /\ k <= at
        BY <3>1, <3>2
      <4> HIDE DEF m, k
      <4>6. k + m <= at + 1
        BY <3>2, <4>2, <4>5
      <4>7. Extended(g, uf, next) = [off |-> k, len |-> m]
        BY <4>4 DEF m, k
      <4> QED
        BY <4>5, <4>6, <4>7 DEF g
    <3>5. CASE ~(s = next \/ next \in {"zone_start", "zone"}) /\ uf # "host"
      <4>1. Extended(g, uf, next) = [off |-> at % Width, len |-> 1]
        BY <3>5 DEF Extended, Entered, Started
      <4> HIDE DEF g, uf, next
      <4>2. (at % Width) + 1 <= at + 1
        BY <1>1, <3>2
      <4> QED
        BY <3>2, <4>1, <4>2 DEF g
    <3> QED
      BY <3>3, <3>4, <3>5
  <2> HIDE DEF uf, next
  <2>6. /\ \A f \in Fields : (next \in DOMAIN HostField => f # uf) => field'[f] = field[f]
        /\ next \in DOMAIN HostField => field'[uf] = Extended(field[uf], uf, next)
    <3>1. CASE next \in DOMAIN HostField
      <4>1. field' = [field EXCEPT ![uf] = Extended(@, uf, next)]
        BY <2>1, <3>1
      <4>2. field'[uf] = Extended(field[uf], uf, next)
        BY <1>1, <2>4, <3>1, <4>1
      <4>3. ASSUME NEW f \in Fields, f # uf PROVE field'[f] = field[f]
        BY <1>1, <4>1, <4>3
      <4> QED
        BY <3>1, <4>2, <4>3
    <3>2. CASE next \notin DOMAIN HostField
      BY <2>1, <3>2
    <3> QED
      BY <3>1, <3>2
  <2>7. ASSUME NEW f \in Fields
        PROVE  field'[f] \in [off : Nat, len : Nat] /\ field'[f].off + field'[f].len <= Len(text)
    <3>1. CASE next \in DOMAIN HostField /\ f = uf
      <4>1. /\ field'[f] \in [off : Nat, len : Nat]
            /\ field'[f].off + field'[f].len <= at + 1
        BY <2>5, <2>6, <3>1
      <4> QED
        BY <1>1, <1>2, <4>1
    <3>2. CASE ~(next \in DOMAIN HostField /\ f = uf)
      <4>1. field'[f] = field[f]
        BY <2>6, <3>2
      <4> QED
        BY <1>1, <4>1
    <3> QED
      BY <3>1, <3>2
  <2>8. field' \in [Fields -> [off : Nat, len : Nat]]
    <3>1. \A f \in Fields : field'[f] \in [off : Nat, len : Nat]
      BY <2>7
    <3>2. field' = [f \in Fields |-> field'[f]]
      BY <1>1, <2>1
    <3> QED
      BY <3>1, <3>2
  <2>9. s' \in DOMAIN HostField =>
          field'[HostField[s']].off + field'[HostField[s']].len <= at'
    <3>1. s' \in DOMAIN HostField => field'[HostField[s']] = Extended(field[uf], uf, next)
      BY <2>1, <2>6 DEF uf
    <3> QED
      BY <2>1, <2>5, <3>1
  <2>10. s' \in Unopened => field'["host"].len = 0
    <3>1. next \in Unopened => s \in Unopened /\ (next \in DOMAIN HostField => uf # "host")
      BY <2>2 DEF Unopened, OfUser, HostField, uf
    <3>2. "host" \in Fields
      BY DEF Fields
    <3>3. next \in Unopened => field'["host"] = field["host"]
      BY <2>6, <3>1, <3>2
    <3> QED
      BY <1>1, <2>1, <3>1, <3>3
  <2>11. at' \in Nat /\ end' \in Nat /\ at' <= end' /\ end' <= Len(text)
    BY <1>1, <2>1
  <2>12. UrlBounds'
    <3>1. /\ text' \in Seq(Characters) /\ template' \in Templates /\ found_at' \in BOOLEAN
          /\ phase' = "host" /\ s' \in HostStates
      BY <1>1, <2>1, <2>3
    <3> QED
      BY <2>8, <2>9, <2>10, <2>11, <3>1 DEF UrlBounds
  <2> QED
    BY <1>1, <2>7, <2>11, <2>12 DEF Bounded, FieldsInBuffer
<1> QED
  BY <1>3, <1>4

LEMMA EndHostBounded ==
  ASSUME Bounded, EndHost
  PROVE  Bounded'
<1>1. /\ text \in Seq(Characters) /\ template \in Templates /\ found_at \in BOOLEAN
      /\ field \in [Fields -> [off : Nat, len : Nat]] /\ at \in Nat /\ end \in Nat
      /\ UNCHANGED <<template, text>>
  BY DEF Bounded, UrlBounds, EndHost
<1>2. Len(text) \in Nat
  BY <1>1, LenProperties
<1>3. CASE Fail
  BY <1>1, <1>2, <1>3, FailBounded
<1>4. CASE phase' = "parsed" /\ UNCHANGED <<s, found_at, field, at, end>>
  <2>1. UrlBounds'
    BY <1>1, <1>4 DEF UrlBounds
  <2>2. FieldsInBuffer'
    BY <1>1, <1>4 DEF Bounded, FieldsInBuffer
  <2> QED
    BY <2>1, <2>2 DEF Bounded
<1> QED
  BY <1>3, <1>4 DEF EndHost

LEMMA UrlInitBounded == UrlInit => Bounded
<1> SUFFICES ASSUME UrlInit PROVE Bounded
  OBVIOUS
<1>1. Len(text) = 0 /\ text \in Seq(Characters)
  BY EmptySeq DEF UrlInit
<1>2. UrlBounds
  BY <1>1 DEF UrlInit, UrlBounds, NoField, UrlStates, Ahead
<1>3. FieldsInBuffer
  BY <1>1 DEF UrlInit, FieldsInBuffer, NoField
<1> QED
  BY <1>2, <1>3 DEF Bounded

LEMMA UrlBounded == Bounded /\ [UrlNext]_url_vars => Bounded'
<1> SUFFICES ASSUME Bounded, [UrlNext]_url_vars PROVE Bounded'
  OBVIOUS
<1>1. ASSUME NEW ch, ReadUrl(ch) PROVE Bounded'
  BY <1>1, ReadUrlBounded
<1>2. CASE EndUrl
  BY <1>2, EndUrlBounded
<1>3. CASE ReadHost
  BY <1>3, ReadHostBounded
<1>4. CASE EndHost
  BY <1>4, EndHostBounded
<1>5. CASE UNCHANGED url_vars
  BY <1>5 DEF url_vars, Bounded, UrlBounds, FieldsInBuffer
<1> QED
  BY <1>1, <1>2, <1>3, <1>4, <1>5 DEF UrlNext

(* No field reaches behind the characters that were read, in URLs of any   *)
(* length (http_parser_parse_url, http_parse_host).                        *)
THEOREM FieldsStayInBuffer == Spec => []FieldsInBuffer
<1>1. Init => Bounded
  BY UrlInitBounded DEF Init
<1>2. Bounded /\ [Next]_vars => Bounded'
  <2>1. [Next]_vars => [UrlNext]_url_vars
    BY DEF Next, vars, ytdl_net_get_id_from_url
  <2> QED
    BY <2>1, UrlBounded
<1>3. Bounded => FieldsInBuffer
  BY DEF Bounded
<1> QED
  BY <1>1, <1>2, <1>3, PTL DEF Spec

-----------------------------------------------------------------------------
(* The invariant of the URL parser is inductive.                           *)

LEMMA UrlStarts == UrlInit => UrlInv
<1> SUFFICES ASSUME UrlInit PROVE UrlInv
  OBVIOUS
<1>1. /\ text = <<>> /\ phase = "url" /\ s = "before_url" /\ old_uf = "none"
      /\ found_at = FALSE /\ field_set = {} /\ field = [f \in Fields |-> NoField]
      /\ port = 0
  BY DEF UrlInit
<1>2. \A f \in Fields : IsPiece(field_set, field, f, 1, 1)
  BY <1>1 DEF IsPiece, Piece
<1>3. ~Lettered(text)
  BY <1>1 DEF Lettered
<1>4. SchemaRead(text, field_set, field)
  BY <1>2, <1>3 DEF SchemaRead, Fields
<1>5. AheadRead(text, "before_url") /\ "before_url" \in Ahead /\ "before_url" \in UrlStates
      /\ "before_url" \notin DOMAIN UrlField
  <2>1. Len(text) = 0
    BY <1>1, EmptySeq
  <2> QED
    BY <2>1 DEF AheadRead, Ahead, UrlStates, UrlField
<1>6. UrlRead(text, s, old_uf, found_at, field_set, field)
  <2>1. IsPiece(field_set, field, "userinfo", 1, 1) /\ IsPiece(field_set, field, "port", 1, 1)
    BY <1>2 DEF Fields
  <2> QED
    BY <1>1, <1>2, <1>4, <1>5, <2>1 DEF UrlRead
<1> QED
  BY <1>1, <1>6, UrlInitBounded DEF UrlInv

LEMMA ReadUrlRight ==
  ASSUME UrlInv, NEW ch, ReadUrl(ch)
  PROVE  UrlInv'
<1>1. Bounded /\ Bounded'
  BY ReadUrlBounded DEF UrlInv
<1>2. Len(text) \in Nat /\ Len(text') = Len(text) + 1 /\ ch \in Characters
      /\ text' = Append(text, ch) /\ phase = "url"
  BY <1>1, ReadUrlChar DEF ReadUrl
<1>3. CASE Fail
  BY <1>1, <1>3 DEF UrlInv, Fail
<1>4. CASE ~Fail /\ Len(text') < Width
  <2>1. Len(text) + 1 < Width /\ Len(text) < Width
    BY <1>2, <1>4, UrlAssumption
  <2>2. UrlRead(text, s, old_uf, found_at, field_set, field) /\ port = 0
    BY <1>2, <2>1 DEF UrlInv
  <2>3. /\ s' = Moved(parse_url_char, s, ch) /\ s' # "dead"
        /\ found_at' = (found_at \/ s' = "server_with_at")
        /\ phase' = "url" /\ port' = 0
    BY <1>2, <1>4, <2>2 DEF ReadUrl
  <2>4. UrlEffect
    <3>1. LET next == Moved(parse_url_char, s, ch)
              uf == UrlField[next]
          IN  IF next \notin DOMAIN UrlField THEN UNCHANGED <<old_uf, field_set, field>>
              ELSE /\ old_uf' = uf
                   /\ field_set' = field_set \cup {uf}
                   /\ field' = [field EXCEPT ![uf] =
                                  IF uf = old_uf THEN Longer(@) ELSE Started(Len(text))]
      BY <1>4 DEF ReadUrl
    <3> QED
      BY <2>3, <3>1 DEF UrlEffect
  <2>5. Reads(ch)
    BY <1>1, <1>2, <2>1, <2>2, <2>3, <2>4 DEF Reads, Bounded
  <2>6. UrlRead(text', s', old_uf', found_at', field_set', field')
    BY <2>5, UrlReadStep DEF UrlReadNext
  <2> QED
    BY <1>1, <2>3, <2>6 DEF UrlInv
<1>5. CASE ~(Len(text') < Width)
  BY <1>1, <1>5 DEF UrlInv
<1> QED
  BY <1>3, <1>4, <1>5

LEMMA ReadHostRight ==
  ASSUME UrlInv, ReadHost
  PROVE  UrlInv'
<1>1. Bounded /\ Bounded'
  BY ReadHostBounded DEF UrlInv
<1>2. phase = "host" /\ at < end /\ UNCHANGED <<template, text>>
  BY DEF ReadHost
<1>3. CASE Fail
  BY <1>1, <1>3 DEF UrlInv, Fail
<1>4. CASE ~Fail /\ Len(text) < Width
  <2>1. AuthorityRead(text, s, found_at, field_set, field, at, end)
    BY <1>2, <1>4 DEF UrlInv
  <2>2. /\ s' = Moved(http_parse_host_char, s, text[at + 1]) /\ s' # "dead"
        /\ at' = at + 1 /\ UNCHANGED <<phase, found_at, end>>
    BY <1>4 DEF ReadHost
  <2>3. HostEffect
    <3>1. LET next == Moved(http_parse_host_char, s, text[at + 1])
              uf == HostField[next]
          IN  IF next \notin DOMAIN HostField THEN UNCHANGED <<field_set, field>>
              ELSE /\ field_set' = field_set \cup {uf}
                   /\ field' = [field EXCEPT ![uf] = Extended(@, uf, next)]
      BY <1>4 DEF ReadHost
    <3> QED
      BY <2>2, <3>1 DEF HostEffect
  <2>4. HostReads
    BY <1>1, <1>2, <1>4, <2>1, <2>2, <2>3 DEF HostReads, Bounded
  <2>5. AuthorityRead(text', s', found_at', field_set', field', at', end')
    BY <1>2, <2>2, <2>4, HostReadStep DEF HostReadNext
  <2> QED
    BY <1>1, <1>2, <2>2, <2>5 DEF UrlInv
<1>5. CASE ~(Len(text) < Width)
  BY <1>1, <1>2, <1>5 DEF UrlInv
<1> QED
  BY <1>3, <1>4, <1>5

LEMMA NoNumber == Number(<<>>) = 0
<1> DEFINE value == CHOOSE v : v = [i \in 0..Len(<<>>) |-> IF i = 0 THEN 0 ELSE v[i - 1] * 10 + 1]
           zero == [i \in 0..0 |-> 0]
<1>1. Len(<<>>) = 0
  BY EmptySeq
<1>2. zero = [i \in 0..Len(<<>>) |-> IF i = 0 THEN 0 ELSE zero[i - 1] * 10 + 1]
  <2>1. \A i \in 0..0 : i = 0
    OBVIOUS
  <2> QED
    BY <1>1, <2>1
<1>3. \E v : v = [i \in 0..Len(<<>>) |-> IF i = 0 THEN 0 ELSE v[i - 1] * 10 + 1]
  <2> HIDE DEF zero
  <2> QED
    BY <1>2
<1>4. value = [i \in 0..Len(<<>>) |-> IF i = 0 THEN 0 ELSE value[i - 1] * 10 + 1]
  BY <1>3
<1>5. Number(<<>>) = value[Len(<<>>)]
  BY DEF Number
<1> HIDE DEF value
<1>6. 0 \in 0..Len(<<>>)
  BY <1>1
<1> QED
  BY <1>1, <1>4, <1>5, <1>6

(* Where the first automaton is at the end of a URL that is not refused.   *)
LEMMA UrlAtEnd ==
  ASSUME Bounded, UrlRead(text, s, old_uf, found_at, field_set, field), text # <<>>,
         ~("schema" \in field_set /\ "host" \notin field_set)
  PROVE  /\ text \in Seq(Characters) /\ Len(text) \in Nat
         /\ SchemaRead(text, field_set, field) /\ TailRead(text, field_set, field)
         /\ \A f \in {"userinfo", "port"} : IsPiece(field_set, field, f, 1, 1)
         /\ IsPiece(field_set, field, "host", From(text), To(text))
         /\ found_at \in BOOLEAN
         /\ found_at <=> Lettered(text) /\ UserTo(text) < To(text)
         /\ Lettered(text) => From(text) < To(text) /\ From(text) <= Len(text)
         /\ "host" \in field_set <=> Lettered(text)
<1> DEFINE L == Len(text)
           E == To(text)
           F == From(text)
<1>1. /\ text \in Seq(Characters) /\ found_at \in BOOLEAN /\ L \in Nat /\ L # 0
  <2>1. text \in Seq(Characters) /\ found_at \in BOOLEAN
    BY DEF Bounded, UrlBounds
  <2> QED
    BY <2>1, LenProperties, EmptySeq
<1>2. /\ SchemaRead(text, field_set, field) /\ s \in UrlStates
      /\ IsPiece(field_set, field, "userinfo", 1, 1) /\ IsPiece(field_set, field, "port", 1, 1)
  BY DEF UrlRead
<1>3. Lettered(text) => "schema" \in field_set
  <2>1. /\ Colon(text) \in Nat /\ 1 <= Colon(text)
        /\ Colon(text) = L + 1 \/ text[Colon(text)] \in {":"}
    BY <1>1, FirstFacts DEF Colon
  <2>2. Lettered(text) => Colon(text) # 1
    BY <1>1, <2>1, CharFacts DEF Lettered
  <2>3. Lettered(text) => 1 < Colon(text)
    BY <2>1, <2>2
  <2> QED
    BY <1>2, <2>3 DEF SchemaRead, IsPiece
<1>4. s \notin Ahead
  <2>1. SUFFICES ASSUME s \in Ahead PROVE FALSE
    OBVIOUS
  <2>2. AheadRead(text, s) /\ IsPiece(field_set, field, "host", 1, 1)
    BY <2>1 DEF UrlRead, Fields
  <2>3. "host" \notin field_set
    BY <2>2 DEF IsPiece
  <2>4. Lettered(text)
    BY <1>1, <2>2 DEF AheadRead
  <2> QED
    BY <1>3, <2>3, <2>4
<1>5. /\ IF s \in Server THEN ServerRead(text, s) ELSE BehindRead(text, s)
      /\ IsPiece(field_set, field, "host", F, E) /\ TailRead(text, field_set, field)
      /\ found_at <=> Lettered(text) /\ UserTo(text) < E
  BY <1>4 DEF UrlRead, UserTo
<1>6. "host" \in field_set <=> F < E
  BY <1>5 DEF IsPiece
<1>7. Lettered(text) => F < E
  BY <1>3, <1>6
<1>8. ~Lettered(text) => F = 1 /\ E = 1
  BY DEF From, To
<1>9. Lettered(text) => F <= L
  <2>1. SUFFICES ASSUME Lettered(text) PROVE F <= L
    OBVIOUS
  <2>2. F = Colon(text) + 3 /\ Colon(text) \in Nat
    BY <1>1, <2>1, FirstFacts DEF From, Colon
  <2>3. CASE s \in Server
    <3>1. E = L + 1
      BY <1>5, <2>3 DEF ServerRead
    <3> QED
      BY <1>1, <1>7, <2>1, <2>2, <3>1
  <2>4. CASE s \notin Server
    <3>1. BehindRead(text, s)
      BY <1>5, <2>4
    <3> QED
      BY <2>1, <2>2, <3>1 DEF BehindRead
  <2> QED
    BY <2>3, <2>4
<1>10. "host" \in field_set <=> Lettered(text)
  BY <1>6, <1>7, <1>8
<1> QED
  BY <1>1, <1>2, <1>5, <1>7, <1>9, <1>10

LEMMA AuthorityStart ==
  ASSUME Bounded, UrlRead(text, s, old_uf, found_at, field_set, field), text # <<>>,
         ~("schema" \in field_set /\ "host" \notin field_set), "host" \in field_set,
         s' = IF found_at THEN "userinfo_start" ELSE "host_start",
         at' = field["host"].off, end' = field["host"].off + field["host"].len,
         field' = [field EXCEPT !["host"] = Emptied(@)]
  PROVE  AuthorityRead(text, s', found_at, field_set, field', at', end')
<1> DEFINE L == Len(text)
           E == To(text)
           F == From(text)
           U == UserTo(text)
<1>1. /\ text \in Seq(Characters) /\ L \in Nat
      /\ SchemaRead(text, field_set, field) /\ TailRead(text, field_set, field)
      /\ \A f \in {"userinfo", "port"} : IsPiece(field_set, field, f, 1, 1)
      /\ IsPiece(field_set, field, "host", F, E)
      /\ found_at \in BOOLEAN
      /\ found_at <=> Lettered(text) /\ U < E
      /\ Lettered(text) => F < E /\ F <= L
      /\ Lettered(text)
  BY UrlAtEnd
<1>2. F \in Nat /\ F # 0 /\ E \in Nat /\ U \in Nat /\ F <= U
  <2>1. Colon(text) \in Nat /\ F = Colon(text) + 3
    BY <1>1, FirstFacts DEF Colon, From
  <2>2. F <= L + 1
    BY <1>1, <2>1
  <2> QED
    BY <1>1, <2>2, PlaceFacts
<1> HIDE DEF E, F, U, L
<1>3. at' = F - 1 /\ end' = E - 1
  <2>1. field["host"] = [off |-> F - 1, len |-> E - F]
    BY <1>1 DEF IsPiece, Piece
  <2> QED
    BY <1>2, <2>1
<1>4. /\ field'["host"].len = 0
      /\ \A f \in Fields : f # "host" => field'[f] = field[f]
  BY DEF Bounded, UrlBounds, Fields, Emptied
<1>5. SchemaRead(text, field_set, field') /\ TailRead(text, field_set, field')
  <2>1. \A f \in {"schema", "path", "query", "fragment"} : field'[f] = field[f]
    BY <1>4 DEF Fields
  <2> QED
    BY <1>1, <2>1 DEF SchemaRead, TailRead, IsPiece
<1>6. \A f \in {"userinfo", "port"} : IsPiece(field_set, field', f, 1, 1)
  <2>1. \A f \in {"userinfo", "port"} : field'[f] = field[f]
    BY <1>4 DEF Fields
  <2> QED
    BY <1>1, <2>1 DEF IsPiece
<1>7. /\ IsPiece(field_set, field', "userinfo", F, F)
      /\ IsPiece(field_set, field', "userinfo", F, F - 1)
  BY <1>2, <1>6 DEF IsPiece, Piece
<1>8. at' <= end' /\ s' \in HostStates
  BY <1>1, <1>2, <1>3 DEF HostStates, Unopened, OfUser
<1>9. CASE found_at
  <2>1. s' = "userinfo_start" /\ at' < U /\ at' = F - 1 /\ at' + 1 = F
    BY <1>2, <1>3, <1>9
  <2>2. UserRead(text, "userinfo_start", found_at, field_set, field', at')
    BY <1>4, <1>6, <1>7, <1>9, <2>1 DEF UserRead, F, U
  <2> QED
    BY <1>1, <1>3, <1>5, <1>8, <2>1, <2>2 DEF AuthorityRead, OfUser, F, E, U, L
<1>10. CASE ~found_at
  <2>1. s' = "host_start" /\ HostAt(text, found_at) = F
    BY <1>10 DEF HostAt, F
  <2>2. at' = F - 1 /\ at' < FirstOf(text, {"@"}, F)
    <3>1. U = FirstOf(text, {"@"}, F)
      BY DEF U, UserTo, F
    <3> QED
      BY <1>2, <1>3, <3>1
  <2>3. HostRead(text, "host_start", found_at, field_set, field', at')
    BY <1>4, <1>6, <1>7, <2>1, <2>2 DEF HostRead, OfAddress, F
  <2> QED
    BY <1>1, <1>3, <1>5, <1>8, <2>1, <2>3 DEF AuthorityRead, OfUser, F, E, U, L
<1> QED
  BY <1>9, <1>10

LEMMA EndUrlRight ==
  ASSUME UrlInv, EndUrl
  PROVE  UrlInv'
<1>1. Bounded /\ Bounded'
  BY EndUrlBounded DEF UrlInv
<1>2. phase = "url" /\ UNCHANGED <<template, text>>
  BY DEF EndUrl
<1>3. CASE Fail
  BY <1>1, <1>3 DEF UrlInv, Fail
<1>4. CASE ~Fail /\ Len(text) < Width
  <2>1. UrlRead(text, s, old_uf, found_at, field_set, field) /\ port = 0
    BY <1>2, <1>4 DEF UrlInv
  <2>2. text # <<>> /\ ~("schema" \in field_set /\ "host" \notin field_set)
        /\ UNCHANGED <<old_uf, found_at, field_set, port>>
    BY <1>4 DEF EndUrl
  <2>3. CASE "host" \in field_set
    <3>1. /\ phase' = "host" /\ s' = IF found_at THEN "userinfo_start" ELSE "host_start"
          /\ at' = field["host"].off /\ end' = field["host"].off + field["host"].len
          /\ field' = [field EXCEPT !["host"] = Emptied(@)]
      BY <1>4, <2>3 DEF EndUrl
    <3>2. AuthorityRead(text, s', found_at, field_set, field', at', end')
      BY <1>1, <2>1, <2>2, <2>3, <3>1, AuthorityStart
    <3>3. AuthorityRead(text', s', found_at', field_set', field', at', end')
      BY <1>2, <2>2, <3>2
    <3> QED
      BY <1>1, <3>1, <3>3 DEF UrlInv
  <2>4. CASE "host" \notin field_set
    <3>1. phase' = "parsed" /\ UNCHANGED <<s, at, end, field>>
      BY <1>4, <2>4 DEF EndUrl
    <3>2. /\ SchemaRead(text, field_set, field) /\ TailRead(text, field_set, field)
          /\ \A f \in {"userinfo", "port"} : IsPiece(field_set, field, f, 1, 1)
          /\ IsPiece(field_set, field, "host", From(text), To(text)) /\ ~Lettered(text)
      BY <1>1, <2>1, <2>2, <2>4, UrlAtEnd
    <3>3. From(text) = 1 /\ To(text) = 1
      BY <3>2 DEF From, To
    <3>4. ParsedRead(text, found_at, field_set, field)
      BY <2>2, <3>2, <3>3 DEF ParsedRead
    <3>5. Number(TextOf("port")) = 0
      <4>1. field["port"] = NoField
        BY <3>2 DEF IsPiece, Piece
      <4>2. TextOf("port") = <<>>
        BY <4>1, SubSeqEmpty DEF TextOf, NoField
      <4> QED
        BY <4>2, NoNumber
    <3>6. ParsedRead(text', found_at', field_set', field') /\ port' = 0
      BY <1>2, <2>1, <2>2, <3>1, <3>4
    <3>7. TextOf("port")' = TextOf("port")
      BY <1>2, <3>1 DEF TextOf
    <3>8. Number(TextOf("port")') = 0
      BY <3>5, <3>7
    <3>9. Number(TextOf("port"))' = Number(TextOf("port")')
      BY DEF Number
    <3> QED
      BY <1>1, <3>1, <3>6, <3>8, <3>9 DEF UrlInv
  <2> QED
    BY <2>3, <2>4
<1>5. CASE ~(Len(text) < Width)
  BY <1>1, <1>2, <1>5 DEF UrlInv
<1> QED
  BY <1>3, <1>4, <1>5

(* The authority at its end.                                               *)
LEMMA AuthorityEnd ==
  ASSUME Bounded, AuthorityRead(text, s, found_at, field_set, field, at, end),
         at = end, s \in {"host", "v6_end", "port"}
  PROVE  ParsedRead(text, found_at, field_set, field)
<1> DEFINE L == Len(text)
           E == To(text)
           F == From(text)
           H == HostAt(text, found_at)
           B == Bracketed(text, found_at)
           T == HostEnd(text, found_at)
           X == HostStop(text, found_at)
           N == FirstOf(text, {"@"}, H)
<1>1. /\ text \in Seq(Characters) /\ found_at \in BOOLEAN /\ at \in Nat
      /\ Lettered(text) /\ F < E /\ F <= L /\ (found_at <=> UserTo(text) < E)
      /\ SchemaRead(text, field_set, field) /\ TailRead(text, field_set, field)
      /\ "host" \in field_set /\ at = E - 1
      /\ HostRead(text, s, found_at, field_set, field, at)
  BY DEF Bounded, UrlBounds, AuthorityRead, OfUser
<1>2. /\ L \in Nat /\ F \in Nat /\ F # 0 /\ E \in Nat /\ E <= L + 1
      /\ H \in Nat /\ F <= H /\ H <= E /\ B \in {0, 1}
      /\ T \in Nat /\ H <= T /\ N \in Nat
  <2>1. L \in Nat /\ Colon(text) \in Nat /\ F = Colon(text) + 3
    BY <1>1, LenProperties, FirstFacts DEF Colon, From
  <2>2. F <= L + 1
    BY <1>1, <2>1
  <2> QED
    BY <1>1, <2>2, AuthorityPlaces
<1>3. /\ IsPiece(field_set, field, "userinfo", F, H - 1) /\ at < N
      /\ (IF s = "port" THEN T + B < at /\ IsPiece(field_set, field, "port", T + B + 1, at + 1)
                        ELSE IsPiece(field_set, field, "port", 1, 1))
      /\ s = "host" => H <= at /\ at < T /\ B = 0 /\ field["host"] = Piece(H, at + 1)
      /\ s = "v6_end" => H + B < T /\ field["host"] = Piece(H + B, T) /\ B = 1 /\ at = T
      /\ s = "port" => H + B < T /\ field["host"] = Piece(H + B, T)
  BY <1>1 DEF HostRead, OfAddress
<1>4. X = IF T < E THEN T ELSE E
  BY DEF HostStop
<1> HIDE DEF L, E, F, H, B, T, X, N
<1>5. /\ field["host"] = Piece(H + B, X) /\ H + B < X
      /\ IsPiece(field_set, field, "port", X + B + 1, E)
  <2>1. CASE s = "host"
    <3>1. X = E /\ B = 0 /\ H < E /\ at + 1 = E
      BY <1>1, <1>2, <1>3, <1>4, <2>1
    <3>2. field["host"] = Piece(H, E) /\ H + B = H
      BY <1>2, <1>3, <2>1, <3>1
    <3>3. IsPiece(field_set, field, "port", E + 1, E)
      <4>1. IsPiece(field_set, field, "port", 1, 1)
        BY <1>3, <2>1
      <4> QED
        BY <1>2, <4>1 DEF IsPiece, Piece
    <3>4. X + B + 1 = E + 1
      BY <1>2, <3>1
    <3> QED
      BY <3>1, <3>2, <3>3, <3>4
  <2>2. CASE s = "v6_end"
    <3>1. X = T /\ T + 1 = E /\ B = 1 /\ H + B < T /\ field["host"] = Piece(H + B, T)
      BY <1>1, <1>2, <1>3, <1>4, <2>2
    <3>2. IsPiece(field_set, field, "port", E + 1, E)
      <4>1. IsPiece(field_set, field, "port", 1, 1)
        BY <1>3, <2>2
      <4> QED
        BY <1>2, <4>1 DEF IsPiece, Piece
    <3>3. X + B + 1 = E + 1
      BY <1>2, <3>1
    <3> QED
      BY <3>1, <3>2, <3>3
  <2>3. CASE s = "port"
    <3>1. T < E /\ X = T /\ H + B < T /\ field["host"] = Piece(H + B, T) /\ at + 1 = E
      BY <1>1, <1>2, <1>3, <1>4, <2>3
    <3>2. IsPiece(field_set, field, "port", T + B + 1, E)
      BY <1>3, <2>3, <3>1
    <3> QED
      BY <3>1, <3>2
  <2> QED
    BY <2>1, <2>2, <2>3
<1>6. IsPiece(field_set, field, "host", H + B, X)
  BY <1>1, <1>5 DEF IsPiece
<1>7. E <= N
  BY <1>1, <1>2, <1>3
<1>8. text # <<>>
  BY <1>1 DEF Lettered
<1> QED
  BY <1>1, <1>3, <1>5, <1>6, <1>7, <1>8 DEF ParsedRead, L, E, F, H, B, X, N

LEMMA EndHostRight ==
  ASSUME UrlInv, EndHost
  PROVE  UrlInv'
<1>1. Bounded /\ Bounded'
  BY EndHostBounded DEF UrlInv
<1>2. phase = "host" /\ at = end /\ UNCHANGED <<template, text>>
  BY DEF EndHost
<1>3. CASE Fail
  BY <1>1, <1>3 DEF UrlInv, Fail
<1>4. CASE ~Fail /\ Len(text) < Width
  <2>1. /\ s \in {"host", "v6_end", "port"}
        /\ phase' = "parsed" /\ port' = Number(TextOf("port"))
        /\ UNCHANGED <<s, old_uf, found_at, field_set, field, at, end>>
    BY <1>4 DEF EndHost
  <2>2. AuthorityRead(text, s, found_at, field_set, field, at, end)
    BY <1>2, <1>4 DEF UrlInv
  <2>3. ParsedRead(text', found_at', field_set', field')
    <3>1. ParsedRead(text, found_at, field_set, field)
      BY <1>1, <1>2, <2>1, <2>2, AuthorityEnd
    <3> QED
      BY <1>2, <2>1, <3>1
  <2>4. port' = Number(TextOf("port"))'
    <3>1. TextOf("port")' = TextOf("port")
      BY <1>2, <2>1 DEF TextOf
    <3> QED
      BY <2>1, <3>1 DEF Number
  <2> QED
    BY <1>1, <2>1, <2>3, <2>4 DEF UrlInv
<1>5. CASE ~(Len(text) < Width)
  BY <1>1, <1>2, <1>5 DEF UrlInv
<1> QED
  BY <1>3, <1>4, <1>5

LEMMA UrlStep == UrlInv /\ [UrlNext]_url_vars => UrlInv'
<1> SUFFICES ASSUME UrlInv, [UrlNext]_url_vars PROVE UrlInv'
  OBVIOUS
<1>1. ASSUME NEW ch, ReadUrl(ch) PROVE UrlInv'
  BY <1>1, ReadUrlRight
<1>2. CASE EndUrl
  BY <1>2, EndUrlRight
<1>3. CASE ReadHost
  BY <1>3, ReadHostRight
<1>4. CASE EndHost
  BY <1>4, EndHostRight
<1>5. CASE UNCHANGED url_vars
  <2>1. Bounded'
    BY <1>5, UrlBounded DEF UrlInv
  <2>2. UNCHANGED <<text, phase, s, old_uf, found_at, field_set, field, at, end, port>>
    BY <1>5 DEF url_vars
  <2> QED
    BY <2>1, <2>2 DEF UrlInv, TextOf, Number
<1> QED
  BY <1>1, <1>2, <1>3, <1>4, <1>5 DEF UrlNext

LEMMA UrlAlways == Spec => []UrlInv
<1>1. Init => UrlInv
  BY UrlStarts DEF Init
<1>2. UrlInv /\ [Next]_vars => UrlInv'
  <2>1. [Next]_vars => [UrlNext]_url_vars
    BY DEF Next, vars, ytdl_net_get_id_from_url
  <2> QED
    BY <2>1, UrlStep
<1> QED
  BY <1>1, <1>2, PTL DEF Spec

-----------------------------------------------------------------------------
(* What was read is what is written.                                       *)

LEMMA PieceText ==
  ASSUME NEW t \in Seq(Characters), NEW i \in Nat, i # 0, NEW j \in Nat, j <= Len(t) + 1
  PROVE  /\ SubSeq(t, Piece(i, j).off + 1, Piece(i, j).off + Piece(i, j).len)
              = SubSeq(t, i, j - 1)
         /\ SubSeq(t, i, j - 1) # <<>> <=> i < j
<1>1. Len(t) \in Nat
  BY LenProperties
<1>2. CASE i < j
  <2>1. Piece(i, j).off + 1 = i /\ Piece(i, j).off + Piece(i, j).len = j - 1
    BY <1>2 DEF Piece
  <2>2. \A k \in i..j - 1 : t[k] \in Characters
    <3>1. \A k \in i..j - 1 : k \in 1..Len(t)
      BY <1>1
    <3> QED
      BY <3>1, ElementOfSeq
  <2>3. Len(SubSeq(t, i, j - 1)) = j - i
    <3>1. Len(SubSeq(t, i, j - 1)) = IF i <= j - 1 THEN j - 1 - i + 1 ELSE 0
      BY <2>2, SubSeqProperties
    <3> QED
      BY <1>2, <3>1
  <2>4. SubSeq(t, i, j - 1) # <<>>
    BY <1>2, <2>3, EmptySeq
  <2> QED
    BY <1>2, <2>1, <2>4
<1>3. CASE ~(i < j)
  <2>1. Piece(i, j).off = 0 /\ Piece(i, j).len = 0
    BY <1>3 DEF Piece, NoField
  <2>2. SubSeq(t, i, j - 1) = <<>> /\ SubSeq(t, 1, 0) = <<>>
    BY <1>3, SubSeqEmpty
  <2> QED
    BY <1>3, <2>1, <2>2
<1> QED
  BY <1>2, <1>3

(* The places of the property are those of the invariant.                  *)
LEMMA PlacesWritten ==
  ASSUME text \in Seq(Characters), ParsedRead(text, found_at, field_set, field),
         found_at \in BOOLEAN
  PROVE  /\ HasSchema <=> Lettered(text)
         /\ HasSchema => FirstIn({":"}, 1) = Colon(text)
         /\ AuthorityFrom = From(text) /\ AuthorityTo = To(text)
         /\ PathTo = PathEnd(text) /\ Hash = HashAt(text)
         /\ FirstIn(UrlChars \cup {"?"}, Hash) = FragmentAt(text)
         /\ Lettered(text) => /\ HostFrom = HostAt(text, found_at)
                              /\ Bracket = Bracketed(text, found_at)
                              /\ HostTo = HostStop(text, found_at)
         /\ ~Lettered(text) => HostFrom = 1 /\ Bracket = 0 /\ HostTo = 1
<1>1. text # <<>> /\ (Lettered(text) => From(text) <= Len(text)) /\ Len(text) \in Nat
  BY LenProperties DEF ParsedRead
<1>2. \A chars, i : FirstIn(chars, i) = FirstOf(text, chars, i)
  BY DEF FirstIn, FirstOf
<1>3. (HasSchema <=> Lettered(text)) /\ FirstIn({":"}, 1) = Colon(text)
  BY <1>1, <1>2 DEF HasSchema, Lettered, Colon
<1>4. AuthorityFrom = From(text)
  BY <1>3 DEF AuthorityFrom, From
<1>5. AuthorityTo = To(text)
  BY <1>2, <1>3, <1>4 DEF AuthorityTo, To, Delimiters
<1>6. PathTo = PathEnd(text) /\ Hash = HashAt(text)
  BY <1>2, <1>5 DEF PathTo, Hash, PathEnd, HashAt, PathEnds
<1>7. FirstIn(UrlChars \cup {"?"}, Hash) = FragmentAt(text)
  BY <1>2, <1>6 DEF FragmentAt, FragmentChars
<1>8. ASSUME Lettered(text)
      PROVE  /\ HostFrom = HostAt(text, found_at) /\ Bracket = Bracketed(text, found_at)
             /\ HostTo = HostStop(text, found_at)
  <2> DEFINE F == From(text)
             E == To(text)
             U == UserTo(text)
             H == HostAt(text, found_at)
             N == FirstOf(text, {"@"}, H)
             IsFrom(i) == /\ i = F \/ text[i - 1] = "@"
                          /\ \A k \in i..E - 1 : text[k] # "@"
  <2>1. F < E /\ (found_at <=> U < E) /\ E <= N
    BY <1>8 DEF ParsedRead
  <2>2. /\ F \in Nat /\ E \in Nat /\ U \in Nat /\ F <= U
        /\ (found_at => text[U] = "@")
        /\ H = (IF found_at THEN U + 1 ELSE F) /\ H \in Nat /\ F <= H /\ H <= E
        /\ \A k \in H..N - 1 : text[k] # "@"
        /\ N \in Nat
    <3>1. Colon(text) \in Nat /\ F = Colon(text) + 3
      BY <1>1, <1>8, FirstFacts DEF Colon, From
    <3>2. F <= Len(text) + 1
      BY <1>1, <1>8, <3>1
    <3> QED
      BY <1>8, <2>1, <3>2, AuthorityPlaces
  <2>3. HostFrom = CHOOSE i \in F..E : IsFrom(i)
    BY <1>4, <1>5 DEF HostFrom
  <2> HIDE DEF F, E, U, H, N
  <2>4. H \in F..E /\ IsFrom(H)
    <3>1. H = F \/ text[H - 1] = "@"
      BY <2>2
    <3>2. \A k \in H..E - 1 : text[k] # "@"
      BY <2>1, <2>2
    <3> QED
      BY <2>2, <3>1, <3>2
  <2>5. ASSUME NEW i \in F..E, IsFrom(i) PROVE i = H
    <3>1. ~(i < H)
      <4>1. ASSUME i < H PROVE FALSE
        <5>1. found_at /\ H = U + 1
          BY <2>2, <4>1
        <5>2. U \in i..E - 1 /\ text[U] = "@"
          BY <2>1, <2>2, <4>1, <5>1
        <5> QED
          BY <2>5, <5>2
      <4> QED
        BY <4>1
    <3>2. ~(H < i)
      <4>1. ASSUME H < i PROVE FALSE
        <5>1. text[i - 1] = "@"
          BY <2>2, <2>5, <4>1
        <5>2. i - 1 \in H..E - 1
          BY <2>2, <4>1
        <5> QED
          BY <2>4, <5>1, <5>2
      <4> QED
        BY <4>1
    <3> QED
      BY <2>2, <3>1, <3>2
  <2>6. HostFrom = H
    <3> HIDE DEF IsFrom
    <3>1. (CHOOSE i \in F..E : IsFrom(i)) = H
      BY <2>4, <2>5
    <3> QED
      BY <2>3, <3>1
  <2>7. Bracket = Bracketed(text, found_at)
    BY <1>3, <1>8, <2>6 DEF Bracket, Bracketed, H
  <2>8. HostTo = HostStop(text, found_at)
    <3>1. FirstIn(IF Bracket = 1 THEN {"]"} ELSE {":"}, HostFrom) = HostEnd(text, found_at)
      BY <1>2, <2>6, <2>7 DEF HostEnd, H
    <3> QED
      BY <1>5, <3>1 DEF HostTo, HostStop
  <2> QED
    BY <2>6, <2>7, <2>8 DEF H
<1>9. ASSUME ~Lettered(text)
      PROVE  HostFrom = 1 /\ Bracket = 0 /\ HostTo = 1
  <2>1. AuthorityFrom = 1 /\ AuthorityTo = 1
    BY <1>4, <1>5, <1>9 DEF From, To
  <2>2. HostFrom = 1
    <3>1. HostFrom = CHOOSE i \in 1..1 : /\ i = 1 \/ text[i - 1] = "@"
                                         /\ \A k \in i..1 - 1 : text[k] # "@"
      BY <2>1 DEF HostFrom
    <3>2. \A k \in 1..1 - 1 : text[k] # "@"
      OBVIOUS
    <3>3. \E i \in 1..1 : (i = 1 \/ text[i - 1] = "@") /\ \A k \in i..1 - 1 : text[k] # "@"
      BY <3>2
    <3> QED
      BY <3>1, <3>3
  <2>3. Bracket = 0
    BY <1>3, <1>9 DEF Bracket
  <2>4. HostTo = 1
    <3>1. FirstIn({":"}, 1) \in Nat /\ 1 <= FirstIn({":"}, 1)
      BY <1>1, <1>2, FirstFacts
    <3> QED
      BY <2>1, <2>2, <2>3, <3>1 DEF HostTo
  <2> QED
    BY <2>2, <2>3, <2>4
<1> QED
  BY <1>3, <1>4, <1>5, <1>6, <1>7, <1>8, <1>9

LEMMA FieldsWritten ==
  ASSUME text \in Seq(Characters), found_at \in BOOLEAN,
         ParsedRead(text, found_at, field_set, field)
  PROVE  /\ Len(text) \in Nat
         /\ \A f \in Fields : \E i \in Nat \ {0}, j \in Nat :
              /\ j <= Len(text) + 1 /\ IsPiece(field_set, field, f, i, j)
              /\ AsWritten(f) = SubSeq(text, i, j - 1)
         /\ To(text) \in Nat \ {0} /\ PathEnd(text) \in Nat /\ HashAt(text) \in Nat
         /\ To(text) <= PathEnd(text) /\ PathEnd(text) <= Len(text) + 1
         /\ HashAt(text) <= Len(text) + 1
         /\ Path = SubSeq(text, To(text), PathEnd(text) - 1)
         /\ AsWritten("query") = SubSeq(text, PathEnd(text) + 1, HashAt(text) - 1)
<1> DEFINE L == Len(text)
           E == To(text)
           F == From(text)
           H == HostAt(text, found_at)
           B == Bracketed(text, found_at)
           T == HostEnd(text, found_at)
           X == HostStop(text, found_at)
           Written(f, i, j) == /\ i \in Nat \ {0} /\ j \in Nat /\ j <= L + 1
                               /\ IsPiece(field_set, field, f, i, j)
                               /\ AsWritten(f) = SubSeq(text, i, j - 1)
<1>1. /\ L \in Nat /\ text # <<>> /\ (Lettered(text) => F <= L)
      /\ SchemaRead(text, field_set, field) /\ TailRead(text, field_set, field)
  BY LenProperties DEF ParsedRead
<1>2. /\ HasSchema <=> Lettered(text)
      /\ HasSchema => FirstIn({":"}, 1) = Colon(text)
      /\ AuthorityFrom = F /\ AuthorityTo = E
      /\ PathTo = PathEnd(text) /\ Hash = HashAt(text)
      /\ FirstIn(UrlChars \cup {"?"}, Hash) = FragmentAt(text)
      /\ Lettered(text) => HostFrom = H /\ Bracket = B /\ HostTo = X
      /\ ~Lettered(text) => HostFrom = 1 /\ Bracket = 0 /\ HostTo = 1
  BY PlacesWritten
<1>3. Colon(text) \in Nat /\ 1 <= Colon(text) /\ Colon(text) <= L + 1
  BY <1>1, FirstFacts DEF Colon
<1>4. /\ F \in Nat /\ F # 0 /\ E \in Nat /\ F <= E /\ E <= L + 1
      /\ PathEnd(text) \in Nat /\ E <= PathEnd(text) /\ PathEnd(text) <= L + 1
      /\ HashAt(text) \in Nat /\ E <= HashAt(text) /\ HashAt(text) <= L + 1
      /\ FragmentAt(text) \in Nat /\ HashAt(text) <= FragmentAt(text)
  <2>1. Lettered(text) => F <= L + 1
    <3>1. Lettered(text) => F = Colon(text) + 3
      BY DEF From
    <3> QED
      BY <1>1, <1>3, <3>1
  <2> QED
    BY <1>1, <2>1, PlaceFacts
<1>5. ASSUME Lettered(text)
      PROVE  /\ H \in Nat /\ F <= H /\ H <= E /\ B \in {0, 1}
             /\ X \in Nat /\ X <= L + 1 /\ H <= X
             /\ IsPiece(field_set, field, "userinfo", F, H - 1)
             /\ IsPiece(field_set, field, "host", H + B, X)
             /\ IsPiece(field_set, field, "port", X + B + 1, E)
             /\ F <= L
  <2>1. /\ F < E /\ (found_at <=> UserTo(text) < E)
        /\ IsPiece(field_set, field, "userinfo", F, H - 1)
        /\ IsPiece(field_set, field, "host", H + B, X)
        /\ IsPiece(field_set, field, "port", X + B + 1, E)
    BY <1>5 DEF ParsedRead
  <2>2. F <= L /\ F <= L + 1
    BY <1>1, <1>4, <1>5
  <2>3. H \in Nat /\ F <= H /\ H <= E /\ B \in {0, 1} /\ T \in Nat /\ H <= T /\ T <= L + 1
    BY <1>5, <2>1, <2>2, AuthorityPlaces
  <2>4. X = IF T < E THEN T ELSE E
    BY DEF HostStop
  <2> HIDE DEF L, E, F, H, B, T, X
  <2>5. X \in Nat /\ X <= L + 1 /\ H <= X
    BY <1>1, <1>4, <2>3, <2>4
  <2> QED
    BY <2>1, <2>2, <2>3, <2>5
<1> HIDE DEF L, E, F, H, B, T, X
<1>6. \E i, j : Written("schema", i, j)
  <2>1. CASE Lettered(text)
    <3>1. /\ IsPiece(field_set, field, "schema", 1, Colon(text))
          /\ AsWritten("schema") = SubSeq(text, 1, Colon(text) - 1)
      BY <1>1, <1>2, <2>1 DEF SchemaRead, AsWritten
    <3>2. Written("schema", 1, Colon(text))
      BY <1>3, <3>1
    <3> QED
      BY <3>2
  <2>2. CASE ~Lettered(text)
    <3>1. /\ IsPiece(field_set, field, "schema", 1, 1)
          /\ AsWritten("schema") = <<>>
      BY <1>1, <1>2, <2>2 DEF SchemaRead, AsWritten
    <3>2. SubSeq(text, 1, 1 - 1) = <<>>
      BY SubSeqEmpty
    <3>4. AsWritten("schema") = SubSeq(text, 1, 1 - 1)
      BY <3>1, <3>2
    <3>5. L \in Nat
      BY <1>1
    <3>3. Written("schema", 1, 1)
      BY <3>1, <3>4, <3>5
    <3> QED
      BY <3>3
  <2> QED
    BY <2>1, <2>2
<1>7. ASSUME ~Lettered(text), NEW f \in {"userinfo", "host", "port"}
      PROVE  \E i, j : Written(f, i, j)
  <2>1. IsPiece(field_set, field, f, 1, 1)
    BY <1>7 DEF ParsedRead
  <2>2. F = 1 /\ E = 1
    BY <1>7 DEF F, E, From, To
  <2>3. AsWritten(f) \in {SubSeq(text, 1, -1), SubSeq(text, 1, 0), SubSeq(text, 2, 0)}
    <3>1. AsWritten("userinfo") = SubSeq(text, 1, 1 - 2)
      BY <1>2, <1>7, <2>2 DEF AsWritten
    <3>2. AsWritten("host") = SubSeq(text, 1 + 0, 1 - 1)
      BY <1>2, <1>7, <2>2 DEF AsWritten
    <3>3. AsWritten("port") = SubSeq(text, 1 + 0 + 1, 1 - 1)
      BY <1>2, <1>7, <2>2 DEF AsWritten
    <3> QED
      BY <1>7, <3>1, <3>2, <3>3
  <2>4. AsWritten(f) = SubSeq(text, 1, 1 - 1)
    <3>1. SubSeq(text, 1, -1) = <<>> /\ SubSeq(text, 1, 0) = <<>> /\ SubSeq(text, 2, 0) = <<>>
      BY SubSeqEmpty
    <3> QED
      BY <2>3, <3>1
  <2>5. Written(f, 1, 1)
    BY <1>1, <2>1, <2>4
  <2> QED
    BY <2>5
<1>8. \E i, j : Written("userinfo", i, j)
  <2>1. CASE Lettered(text)
    <3>1. AsWritten("userinfo") = SubSeq(text, F, H - 2)
      BY <1>2, <2>1 DEF AsWritten
    <3>2. H - 1 \in Nat /\ H - 1 <= L + 1 /\ H - 2 = H - 1 - 1
      BY <1>1, <1>4, <1>5, <2>1
    <3>3. Written("userinfo", F, H - 1)
      BY <1>4, <1>5, <2>1, <3>1, <3>2
    <3> QED
      BY <3>3
  <2> QED
    BY <1>7, <2>1
<1>9. \E i, j : Written("host", i, j)
  <2>1. CASE Lettered(text)
    <3>1. AsWritten("host") = SubSeq(text, H + B, X - 1)
      BY <1>2, <2>1 DEF AsWritten
    <3>2. H + B \in Nat \ {0}
      BY <1>4, <1>5, <2>1
    <3>3. Written("host", H + B, X)
      BY <1>5, <2>1, <3>1, <3>2
    <3> QED
      BY <3>3
  <2> QED
    BY <1>7, <2>1
<1>10. \E i, j : Written("port", i, j)
  <2>1. CASE Lettered(text)
    <3>1. AsWritten("port") = SubSeq(text, X + B + 1, E - 1)
      BY <1>2, <2>1 DEF AsWritten
    <3>2. X + B + 1 \in Nat \ {0}
      BY <1>4, <1>5, <2>1
    <3>3. Written("port", X + B + 1, E)
      BY <1>4, <1>5, <2>1, <3>1, <3>2
    <3> QED
      BY <3>3
  <2> QED
    BY <1>7, <2>1
<1>11. /\ IsPiece(field_set, field, "path", E, PathEnd(text))
       /\ IsPiece(field_set, field, "query", PathEnd(text) + 1, HashAt(text))
       /\ IsPiece(field_set, field, "fragment", FragmentAt(text), L + 1)
  BY <1>1 DEF TailRead, E, L
<1>12. /\ AsWritten("path") = SubSeq(text, E, PathEnd(text) - 1)
       /\ AsWritten("query") = SubSeq(text, PathEnd(text) + 1, HashAt(text) - 1)
       /\ AsWritten("fragment") = SubSeq(text, FragmentAt(text), L)
  BY <1>2 DEF AsWritten, L
<1>13. Written("path", E, PathEnd(text))
  <2>1. E # 0
    BY <1>4
  <2> QED
    BY <1>4, <1>11, <1>12, <2>1
<1>14. Written("query", PathEnd(text) + 1, HashAt(text))
  <2>1. PathEnd(text) + 1 \in Nat \ {0}
    BY <1>4
  <2> QED
    BY <1>4, <1>11, <1>12, <2>1
<1>15. Written("fragment", FragmentAt(text), L + 1)
  <2>1. FragmentAt(text) # 0 /\ L + 1 \in Nat /\ L + 1 - 1 = L
    BY <1>1, <1>4
  <2> QED
    BY <1>1, <1>4, <1>11, <1>12, <2>1
<1>16. \A f \in Fields : \E i, j : Written(f, i, j)
  <2> HIDE DEF Written
  <2> QED
    BY <1>6, <1>8, <1>9, <1>10, <1>13, <1>14, <1>15 DEF Fields
<1>17. \A f \in Fields : \E i \in Nat \ {0}, j \in Nat :
         /\ j <= L + 1 /\ IsPiece(field_set, field, f, i, j)
         /\ AsWritten(f) = SubSeq(text, i, j - 1)
  BY <1>16
<1>18. E \in Nat \ {0} /\ L \in Nat
  BY <1>1, <1>4
<1> QED
  BY <1>4, <1>12, <1>17, <1>18 DEF Path, L, E

LEMMA UrlInvReads == UrlInv => ParsedAsWritten
<1> SUFFICES ASSUME UrlInv, phase = "parsed", Len(text) < Width
             PROVE  /\ \A f \in Fields : /\ TextOf(f) = AsWritten(f)
                                         /\ f \in field_set <=> AsWritten(f) # <<>>
                    /\ port = Number(AsWritten("port"))
  BY DEF ParsedAsWritten
<1>1. /\ text \in Seq(Characters) /\ found_at \in BOOLEAN
      /\ ParsedRead(text, found_at, field_set, field) /\ port = Number(TextOf("port"))
  BY DEF UrlInv, Bounded, UrlBounds
<1>2. ASSUME NEW f \in Fields
      PROVE  TextOf(f) = AsWritten(f) /\ (f \in field_set <=> AsWritten(f) # <<>>)
  <2>1. PICK i \in Nat \ {0}, j \in Nat :
          /\ j <= Len(text) + 1 /\ IsPiece(field_set, field, f, i, j)
          /\ AsWritten(f) = SubSeq(text, i, j - 1)
    BY <1>1, FieldsWritten
  <2>2. field[f] = Piece(i, j) /\ (f \in field_set <=> i < j)
    BY <2>1 DEF IsPiece
  <2>3. /\ SubSeq(text, Piece(i, j).off + 1, Piece(i, j).off + Piece(i, j).len)
             = SubSeq(text, i, j - 1)
        /\ SubSeq(text, i, j - 1) # <<>> <=> i < j
    BY <1>1, <2>1, PieceText
  <2>4. TextOf(f) = SubSeq(text, i, j - 1)
    BY <2>2, <2>3 DEF TextOf
  <2> QED
    BY <2>1, <2>2, <2>3, <2>4
<1>3. "port" \in Fields
  BY DEF Fields
<1>4. TextOf("port") = AsWritten("port")
  BY <1>2, <1>3
<1> QED
  BY <1>1, <1>2, <1>4

(* Each field of a parsed URL is what its delimiters enclose, and the port *)
(* is the number that is written (http_parser_parse_url, http_parse_host). *)
THEOREM FieldsAreWritten == Spec => []ParsedAsWritten
BY UrlAlways, UrlInvReads, PTL

-----------------------------------------------------------------------------
(* The id of a video.                                                      *)

TextIn(t, g) == SubSeq(t, g.off + 1, g.off + g.len)

(* IdAsWritten of fields that were read.                                   *)
IdRight(t, fd, a, chars) ==
  LET path == TextIn(t, fd["path"])
      query == TextIn(t, fd["query"])
  IN
  /\ a = "matched" =>
       /\ Len(chars) = YTDL_ID_LEN
       /\ \/ IsSuffix(<<"/">> \o chars, path)
          \/ \E i \in DOMAIN query : IsPrefix(Mark \o chars, Drop(query, i - 1))
       /\ AllValid(chars) \/ \E i \in 2..Len(path) : path[i] = "/"
  /\ \A named \in {SubSeq(t, i, i + YTDL_ID_LEN - 1) : i \in 1..Len(t) + 1 - YTDL_ID_LEN} :
       /\ Len(named) = YTDL_ID_LEN /\ AllValid(named)
       /\ TextIn(t, fd["host"]) \in Hosts
       /\ \/ path = <<"/">> \o named
          \/ Len(path) <= YTDL_ID_LEN /\ IsPrefix(Mark \o named, query)
       => a = "matched" /\ chars = named

(* A path and a query in the text; what follows a query is no character of *)
(* an id.                                                                  *)
InText(t, p, q) ==
  /\ t \in Seq(Characters)
  /\ p \in [off : Nat, len : Nat] /\ p.off + p.len <= Len(t)
  /\ q \in [off : Nat, len : Nat] /\ q.off + q.len <= Len(t)
  /\ q.len # 0 => q.off + q.len = Len(t) \/ t[q.off + q.len + 1] = "#"

Fetched == Characters \cup {"NUL"}

LEMMA IdCharFacts ==
  /\ "#" \notin yt_valid_id_map /\ "NUL" \notin yt_valid_id_map
  /\ "/" # "NUL" /\ "v" # "NUL" /\ "=" # "NUL"
BY DEF yt_valid_id_map, AlphaNum, Alpha, Digits

LEMMA FieldText ==
  ASSUME NEW t \in Seq(Characters), NEW g \in [off : Nat, len : Nat],
         g.off + g.len <= Len(t)
  PROVE  /\ TextIn(t, g) \in Seq(Characters) /\ Len(TextIn(t, g)) = g.len
         /\ Len(t) \in Nat /\ g.off \in Nat /\ g.len \in Nat
         /\ \A k \in 1..g.len : TextIn(t, g)[k] = t[g.off + k]
<1>1. Len(t) \in Nat /\ g.off \in Nat /\ g.len \in Nat
  BY LenProperties
<1> DEFINE m == g.off + 1
           n == g.off + g.len
<1>2. m \in Int /\ n \in Int
  BY <1>1
<1>3. \A k \in m..n : t[k] \in Characters
  <2>1. \A k \in m..n : k \in 1..Len(t)
    BY <1>1
  <2> QED
    BY <2>1, ElementOfSeq
<1>4. /\ TextIn(t, g) = SubSeq(t, m, n)
  BY DEF TextIn
<1>5. n - m + 1 = g.len /\ (m <= n <=> g.len # 0) /\ \A k \in 1..g.len : m + k - 1 = g.off + k
  BY <1>1
<1> HIDE DEF m, n
<1>6. /\ SubSeq(t, m, n) \in Seq(Characters)
      /\ Len(SubSeq(t, m, n)) = IF m <= n THEN n - m + 1 ELSE 0
      /\ \A k \in 1..n - m + 1 : SubSeq(t, m, n)[k] = t[m + k - 1]
  BY <1>2, <1>3, SubSeqProperties
<1>7. Len(SubSeq(t, m, n)) = g.len
  BY <1>1, <1>5, <1>6
<1>8. \A k \in 1..g.len : SubSeq(t, m, n)[k] = t[g.off + k]
  BY <1>5, <1>6
<1> QED
  BY <1>1, <1>4, <1>6, <1>7, <1>8

LEMMA FetchFacts ==
  ASSUME text \in Seq(Characters), NEW off \in Nat, NEW n \in Nat
  PROVE  /\ Fetch(off, n) \in Seq(Fetched) /\ Len(Fetch(off, n)) = n
         /\ DOMAIN Fetch(off, n) = 1..n
         /\ \A k \in 1..n : Fetch(off, n)[k] =
              IF off + k <= Len(text) THEN text[off + k] ELSE "NUL"
<1>1. Len(text) \in Nat
  BY LenProperties
<1>2. \A k \in 1..n : Fetch(off, n)[k] =
        IF off + k <= Len(text) THEN text[off + k] ELSE "NUL"
  BY DEF Fetch
<1>3. Fetch(off, n) \in [1..n -> Fetched]
  <2>1. \A k \in 1..n : (IF off + k <= Len(text) THEN text[off + k] ELSE "NUL") \in Fetched
    <3> SUFFICES ASSUME NEW k \in 1..n, off + k <= Len(text) PROVE text[off + k] \in Characters
      BY DEF Fetched
    <3>1. off + k \in 1..Len(text)
      BY <1>1
    <3> QED
      BY <3>1, ElementOfSeq
  <2> QED
    BY <2>1 DEF Fetch
<1>4. Fetch(off, n) \in Seq(Fetched)
  BY <1>3, SeqDef
<1>5. DOMAIN Fetch(off, n) = 1..n
  BY DEF Fetch
<1>6. Len(Fetch(off, n)) \in Nat /\ DOMAIN Fetch(off, n) = 1..Len(Fetch(off, n))
  BY <1>4, LenProperties
<1>7. Len(Fetch(off, n)) = n
  <2> DEFINE m == Len(Fetch(off, n))
  <2>1. m \in Nat /\ 1..m = 1..n
    BY <1>5, <1>6
  <2> HIDE DEF m
  <2>2. m = n
    BY <2>1
  <2> QED
    BY <2>2 DEF m
<1> QED
  BY <1>2, <1>4, <1>5, <1>7

LEMMA SuffixIs ==
  ASSUME NEW S, NEW x \in Seq(S), NEW t \in Seq(S), Len(x) <= Len(t),
         \A i \in 1..Len(x) : x[i] = t[Len(t) - Len(x) + i]
  PROVE  IsSuffix(x, t)
<1> DEFINE m == Len(x)
           n == Len(t)
           rx == Reverse(x)
           rt == Reverse(t)
<1>1. m \in Nat /\ n \in Nat /\ m <= n
  BY LenProperties
<1>2. rx \in Seq(S) /\ Len(rx) = m /\ \A i \in 1..m : rx[i] = x[m - i + 1]
  <2>1. rx = [i \in 1..m |-> x[(m - i) + 1]]
    BY DEF Reverse
  <2>2. \A i \in 1..m : x[(m - i) + 1] \in S
    <3> SUFFICES ASSUME NEW i \in 1..m PROVE x[(m - i) + 1] \in S
      OBVIOUS
    <3>1. (m - i) + 1 \in 1..Len(x)
      BY <1>1
    <3> QED
      BY <3>1, ElementOfSeq
  <2>3. rx \in [1..m -> S]
    <3> HIDE DEF rx, m
    <3> QED
      BY <2>1, <2>2
  <2> QED
    BY <1>1, <2>1, <2>3, ListIsSeq
<1>3. rt \in Seq(S) /\ Len(rt) = n /\ \A i \in 1..n : rt[i] = t[n - i + 1]
  <2>1. rt = [i \in 1..n |-> t[(n - i) + 1]]
    BY DEF Reverse
  <2>2. \A i \in 1..n : t[(n - i) + 1] \in S
    <3> SUFFICES ASSUME NEW i \in 1..n PROVE t[(n - i) + 1] \in S
      OBVIOUS
    <3>1. (n - i) + 1 \in 1..Len(t)
      BY <1>1
    <3> QED
      BY <3>1, ElementOfSeq
  <2>3. rt \in [1..n -> S]
    <3> HIDE DEF rt, n
    <3> QED
      BY <2>1, <2>2
  <2> QED
    BY <1>1, <2>1, <2>3, ListIsSeq
<1> HIDE DEF rx, rt
<1>4. ASSUME NEW i \in 1..m PROVE rx[i] = rt[i]
  <2>1. m - i + 1 \in 1..m /\ n - m + (m - i + 1) = n - i + 1 /\ i \in 1..n
    BY <1>1
  <2>2. x[m - i + 1] = t[n - m + (m - i + 1)]
    BY <2>1
  <2> QED
    BY <1>2, <1>3, <2>1, <2>2
<1>5. SubSeq(rx, 1, m) = SubSeq(rt, 1, m)
  <2>1. \A i \in 1..m : rx[i] \in S /\ rt[i] \in S
    BY <1>1, <1>2, <1>3, <1>4, ElementOfSeq
  <2>2. /\ SubSeq(rx, 1, m) \in Seq(S) /\ SubSeq(rt, 1, m) \in Seq(S)
        /\ Len(SubSeq(rx, 1, m)) = m /\ Len(SubSeq(rt, 1, m)) = m
        /\ \A i \in 1..m : SubSeq(rx, 1, m)[i] = rx[i] /\ SubSeq(rt, 1, m)[i] = rt[i]
    <3>1. m - 1 + 1 = m /\ (1 <= m <=> m # 0) /\ \A i \in 1..m : 1 + i - 1 = i
      BY <1>1
    <3>2. /\ SubSeq(rx, 1, m) \in Seq(S) /\ Len(SubSeq(rx, 1, m)) = IF 1 <= m THEN m - 1 + 1 ELSE 0
          /\ \A i \in 1..m - 1 + 1 : SubSeq(rx, 1, m)[i] = rx[1 + i - 1]
      BY <1>1, <2>1, SubSeqProperties
    <3>3. /\ SubSeq(rt, 1, m) \in Seq(S) /\ Len(SubSeq(rt, 1, m)) = IF 1 <= m THEN m - 1 + 1 ELSE 0
          /\ \A i \in 1..m - 1 + 1 : SubSeq(rt, 1, m)[i] = rt[1 + i - 1]
      BY <1>1, <2>1, SubSeqProperties
    <3> QED
      BY <1>1, <3>1, <3>2, <3>3
  <2> QED
    BY <1>4, <2>2, SeqEqual
<1> QED
  BY <1>1, <1>2, <1>3, <1>5 DEF IsSuffix, IsPrefix, rx, rt

LEMMA PrefixIs ==
  ASSUME NEW S, NEW x \in Seq(S), NEW t \in Seq(S)
  PROVE  IsPrefix(x, t) <=> Len(x) <= Len(t) /\ \A i \in 1..Len(x) : x[i] = t[i]
<1> DEFINE m == Len(x)
<1>1. m \in Nat /\ Len(t) \in Nat
  BY LenProperties
<1>2. IsPrefix(x, t) <=> m <= Len(t) /\ SubSeq(x, 1, m) = SubSeq(t, 1, m)
  BY DEF IsPrefix
<1>3. ASSUME m <= Len(t)
      PROVE  SubSeq(x, 1, m) = SubSeq(t, 1, m) <=> \A i \in 1..m : x[i] = t[i]
  <2>1. \A i \in 1..m : x[i] \in S /\ t[i] \in S
    <3>1. \A i \in 1..m : i \in 1..Len(x) /\ i \in 1..Len(t)
      BY <1>1, <1>3
    <3> QED
      BY <3>1, ElementOfSeq
  <2> HIDE DEF m
  <2>2. m - 1 + 1 = m /\ (1 <= m <=> m # 0) /\ \A i \in 1..m : 1 + i - 1 = i
    BY <1>1
  <2>3. /\ SubSeq(x, 1, m) \in Seq(S) /\ Len(SubSeq(x, 1, m)) = IF 1 <= m THEN m - 1 + 1 ELSE 0
        /\ \A i \in 1..m - 1 + 1 : SubSeq(x, 1, m)[i] = x[1 + i - 1]
    BY <1>1, <2>1, SubSeqProperties
  <2>4. /\ SubSeq(t, 1, m) \in Seq(S) /\ Len(SubSeq(t, 1, m)) = IF 1 <= m THEN m - 1 + 1 ELSE 0
        /\ \A i \in 1..m - 1 + 1 : SubSeq(t, 1, m)[i] = t[1 + i - 1]
    BY <1>1, <2>1, SubSeqProperties
  <2>5. /\ SubSeq(x, 1, m) \in Seq(S) /\ SubSeq(t, 1, m) \in Seq(S)
        /\ Len(SubSeq(x, 1, m)) = m /\ Len(SubSeq(t, 1, m)) = m
        /\ \A i \in 1..m : SubSeq(x, 1, m)[i] = x[i] /\ SubSeq(t, 1, m)[i] = t[i]
    BY <1>1, <2>2, <2>3, <2>4
  <2>6. (\A i \in 1..m : x[i] = t[i]) => SubSeq(x, 1, m) = SubSeq(t, 1, m)
    <3> SUFFICES ASSUME \A i \in 1..m : x[i] = t[i]
                 PROVE  SubSeq(x, 1, m) = SubSeq(t, 1, m)
      OBVIOUS
    <3>1. \A i \in 1..m : SubSeq(x, 1, m)[i] = SubSeq(t, 1, m)[i]
      BY <2>5
    <3> QED
      BY <2>5, <3>1, SeqEqual
  <2> QED
    BY <2>5, <2>6
<1> QED
  BY <1>2, <1>3

(* Characters of the text, and those that are put around an id.            *)
Spelled == Fetched \cup {"v", "=", "/"}

LEMMA Marked ==
  ASSUME NEW c \in Seq(Spelled)
  PROVE  /\ Len(c) \in Nat /\ \A i \in 1..Len(c) : c[i] \in Spelled
         /\ <<"/">> \o c \in Seq(Spelled) /\ Len(<<"/">> \o c) = Len(c) + 1
         /\ (<<"/">> \o c)[1] = "/" /\ \A i \in 1..Len(c) : (<<"/">> \o c)[i + 1] = c[i]
         /\ Mark \o c \in Seq(Spelled) /\ Len(Mark \o c) = Len(c) + 2
         /\ (Mark \o c)[1] = "v" /\ (Mark \o c)[2] = "="
         /\ \A i \in 1..Len(c) : (Mark \o c)[i + 2] = c[i]
<1>1. Len(c) \in Nat /\ \A i \in 1..Len(c) : c[i] \in Spelled
  BY LenProperties, ElementOfSeq
<1>2. /\ <<"/">> \in Seq(Spelled) /\ Len(<<"/">>) = 1 /\ <<"/">>[1] = "/"
      /\ Mark \in Seq(Spelled) /\ Len(Mark) = 2 /\ Mark[1] = "v" /\ Mark[2] = "="
  BY DEF Spelled, Mark
<1>3. /\ <<"/">> \o c \in Seq(Spelled) /\ Len(<<"/">> \o c) = 1 + Len(c)
      /\ \A i \in 1..1 + Len(c) : (<<"/">> \o c)[i] = IF i <= 1 THEN <<"/">>[i] ELSE c[i - 1]
  <2>1. \A x \in Seq(Spelled) : /\ x \o c \in Seq(Spelled) /\ Len(x \o c) = Len(x) + Len(c)
                               /\ \A i \in 1..Len(x) + Len(c) :
                                    (x \o c)[i] = IF i <= Len(x) THEN x[i] ELSE c[i - Len(x)]
    BY ConcatProperties
  <2> QED
    BY <1>2, <2>1
<1>4. /\ Mark \o c \in Seq(Spelled) /\ Len(Mark \o c) = 2 + Len(c)
      /\ \A i \in 1..2 + Len(c) : (Mark \o c)[i] = IF i <= 2 THEN Mark[i] ELSE c[i - 2]
  <2>1. \A x \in Seq(Spelled) : /\ x \o c \in Seq(Spelled) /\ Len(x \o c) = Len(x) + Len(c)
                               /\ \A i \in 1..Len(x) + Len(c) :
                                    (x \o c)[i] = IF i <= Len(x) THEN x[i] ELSE c[i - Len(x)]
    BY ConcatProperties
  <2>2. Mark \in Seq(Spelled) /\ Len(Mark) = 2
    BY <1>2
  <2> QED
    BY <2>1, <2>2
<1>5. /\ (<<"/">> \o c)[1] = "/" /\ (Mark \o c)[1] = "v" /\ (Mark \o c)[2] = "="
  <2>1. 1 \in 1..1 + Len(c) /\ 1 \in 1..2 + Len(c) /\ 2 \in 1..2 + Len(c)
    BY <1>1
  <2> QED
    BY <1>2, <1>3, <1>4, <2>1
<1>6. ASSUME NEW i \in 1..Len(c)
      PROVE  (<<"/">> \o c)[i + 1] = c[i] /\ (Mark \o c)[i + 2] = c[i]
  <2>1. /\ i + 1 \in 1..1 + Len(c) /\ ~(i + 1 <= 1) /\ i + 1 - 1 = i
        /\ i + 2 \in 1..2 + Len(c) /\ ~(i + 2 <= 2) /\ i + 2 - 2 = i
    BY <1>1
  <2> QED
    BY <1>3, <1>4, <2>1
<1>7. Len(<<"/">> \o c) = Len(c) + 1 /\ Len(Mark \o c) = Len(c) + 2
  BY <1>1, <1>3, <1>4
<1> QED
  BY <1>1, <1>3, <1>4, <1>5, <1>6, <1>7

(* An id that is taken from the path.                                      *)
LEMMA PathMatch ==
  ASSUME NEW q, InText(text, field["path"], q), PathHasId
  PROVE  LET c == TailOf(field["path"])
             path == TextIn(text, field["path"])
         IN  /\ Len(c) = YTDL_ID_LEN /\ IsSuffix(<<"/">> \o c, path)
             /\ AllValid(c) \/ \E i \in 2..Len(path) : path[i] = "/"
<1> DEFINE p == field["path"]
           c == TailOf(p)
           h == Fetch(p.off + 1, YTDL_ID_LEN)
           path == TextIn(text, p)
           K == YTDL_ID_LEN
           d == p.off + p.len - K
           x == Fetch(d - 1, 1)
           L == Len(text)
<1>1. /\ text \in Seq(Characters) /\ p \in [off : Nat, len : Nat] /\ p.off + p.len <= L
  BY DEF InText
<1>2. /\ path \in Seq(Characters) /\ Len(path) = p.len /\ L \in Nat
      /\ p.off \in Nat /\ p.len \in Nat
      /\ \A k \in 1..p.len : path[k] = text[p.off + k]
  BY <1>1, FieldText
<1>3. p.len >= K + 1 /\ x = <<"/">> /\ AllValid(h)
  <2>1. p.len >= K + 1 /\ Fetch(p.off + p.len - K - 1, 1) = <<"/">> /\ AllValid(h)
    BY DEF PathHasId
  <2>2. p.off + p.len - K - 1 = d - 1
    <3>1. p.off \in Nat /\ p.len \in Nat /\ K \in Nat
      BY <1>2, IdAssumption
    <3> HIDE DEF p, K
    <3> QED
      BY <3>1
  <2> HIDE DEF p, K, d, h
  <2> QED
    BY <2>1, <2>2
<1>4. K \in Nat /\ K # 0
  BY IdAssumption
<1> HIDE DEF K
<1>5. d \in Nat /\ d - 1 \in Nat /\ p.off + 1 \in Nat /\ d + K = p.off + p.len
      /\ d - 1 + 1 = d /\ p.len >= K + 1
  <2>1. p.off \in Nat /\ p.len \in Nat /\ p.len >= K + 1
    BY <1>2, <1>3
  <2> HIDE DEF p
  <2> QED
    BY <1>4, <2>1
<1>6. /\ c \in Seq(Fetched) /\ Len(c) = K
      /\ \A k \in 1..K : c[k] = IF d + k <= L THEN text[d + k] ELSE "NUL"
  <2>1. c = Fetch(d, K)
    BY DEF TailOf, K
  <2> HIDE DEF c, d
  <2>2. text \in Seq(Characters) /\ d \in Nat
    BY <1>1, <1>5
  <2> QED
    BY <1>4, <2>1, <2>2, FetchFacts
<1>7. /\ DOMAIN h = 1..K
      /\ \A k \in 1..K : h[k] = IF p.off + 1 + k <= L THEN text[p.off + 1 + k] ELSE "NUL"
  <2>1. h = Fetch(p.off + 1, K)
    BY DEF K
  <2> HIDE DEF h, p
  <2>2. text \in Seq(Characters) /\ p.off + 1 \in Nat
    BY <1>1, <1>5
  <2> QED
    BY <1>4, <2>1, <2>2, FetchFacts
<1>8. text[d] = "/"
  <2>1. x[1] = IF d - 1 + 1 <= L THEN text[d - 1 + 1] ELSE "NUL"
    <3>1. x = Fetch(d - 1, 1)
      OBVIOUS
    <3>2. 1 \in 1..1 /\ 1 \in Nat
      OBVIOUS
    <3> HIDE DEF x, d
    <3>4. text \in Seq(Characters) /\ d - 1 \in Nat
      BY <1>1, <1>5
    <3> QED
      BY <3>1, <3>2, <3>4, FetchFacts
  <2>2. x[1] = "/"
    BY <1>3
  <2>3. d - 1 + 1 = d
    BY <1>5
  <2> QED
    BY <2>1, <2>2, <2>3, IdCharFacts
<1>14. d = p.off + p.len - K
  OBVIOUS
<1> HIDE DEF p, c, h, x, path, L, d
<1>15. /\ p.off \in Nat /\ p.len \in Nat /\ K \in Nat /\ K # 0 /\ p.len >= K + 1
       /\ d \in Nat /\ d = p.off + p.len - K
  BY <1>2, <1>4, <1>5, <1>14
<1>9. \A k \in 1..K : c[k] = text[d + k]
  BY <1>1, <1>2, <1>4, <1>5, <1>6
<1>10. c \in Seq(Spelled) /\ path \in Seq(Spelled)
  <2>1. Fetched \subseteq Spelled /\ Characters \subseteq Spelled
    BY DEF Spelled, Fetched
  <2> QED
    BY <1>2, <1>6, <2>1, SeqMonotonic
<1> DEFINE m == <<"/">> \o c
<1>11. /\ m \in Seq(Spelled) /\ Len(m) = K + 1 /\ m[1] = "/"
       /\ \A i \in 1..K : m[i + 1] = c[i]
  BY <1>6, <1>10, Marked
<1> HIDE DEF m
<1>12. IsSuffix(m, path)
  <2>1. ASSUME NEW i \in 1..K + 1 PROVE m[i] = path[p.len - (K + 1) + i]
    <3>1. p.len - (K + 1) + i \in 1..p.len /\ p.off + (p.len - (K + 1) + i) = d + (i - 1)
      BY <1>15
    <3>2. path[p.len - (K + 1) + i] = text[d + (i - 1)]
      BY <1>2, <3>1
    <3>3. CASE i = 1
      <4>1. d + (i - 1) = d
        BY <1>5, <3>3
      <4> QED
        BY <1>8, <1>11, <3>2, <3>3, <4>1
    <3>4. CASE i # 1
      <4>1. i - 1 \in 1..K /\ i - 1 + 1 = i
        BY <1>4, <3>4
      <4>2. m[i] = c[i - 1] /\ c[i - 1] = text[d + (i - 1)]
        BY <1>9, <1>11, <4>1
      <4> QED
        BY <3>2, <4>2
    <3> QED
      BY <3>3, <3>4
  <2>2. Len(m) <= Len(path)
    BY <1>2, <1>3, <1>4, <1>11
  <2>3. \A i \in 1..Len(m) : m[i] = path[Len(path) - Len(m) + i]
    BY <1>2, <1>11, <2>1
  <2> QED
    BY <1>10, <1>11, <2>2, <2>3, SuffixIs
<1>13. AllValid(c) \/ \E i \in 2..Len(path) : path[i] = "/"
  <2>1. CASE p.len = K + 1
    <3>1. d = p.off + 1
      BY <1>2, <1>4, <1>5, <2>1
    <3>2. \A k \in 1..K : c[k] = h[k]
      BY <1>6, <1>7, <3>1
    <3>3. DOMAIN c = 1..K
      BY <1>6, LenProperties
    <3> QED
      BY <1>3, <1>7, <3>2, <3>3 DEF AllValid
  <2>2. CASE p.len # K + 1
    <3>1. p.len - K \in 2..p.len /\ p.off + (p.len - K) = d
      BY <1>15, <2>2
    <3>2. p.len - K \in 1..p.len
      BY <1>2, <1>4, <3>1
    <3>3. path[p.len - K] = "/"
      BY <1>2, <1>8, <3>1, <3>2
    <3> QED
      BY <1>2, <3>1, <3>3
  <2> QED
    BY <2>1, <2>2
<1> QED
  BY <1>6, <1>12, <1>13 DEF m, K, c, path, p

(* The mark that is found first.                                           *)
LEMMA FirstMarkFacts ==
  ASSUME Marks # {}, field["query"] \in [off : Nat, len : Nat]
  PROVE  /\ FirstMark \in Nat /\ FirstMark + YTDL_ID_LEN + 1 <= field["query"].len
         /\ IsMark(FirstMark) /\ \A y \in Marks : FirstMark <= y
         /\ field["query"].len >= YTDL_ID_LEN + 2
<1> DEFINE n == field["query"].len
           K == YTDL_ID_LEN
<1>1. n \in Nat /\ K \in Nat
  BY IdAssumption
<1>2. ~(n < K + 2) /\ Marks = {x \in Places : IsMark(x)}
  BY DEF Marks
<1>3. Places = 0..n - K - 1
  BY DEF Places
<1> HIDE DEF n, K
<1>4. Marks \subseteq Nat /\ \A x \in Marks : x + K + 1 <= n /\ IsMark(x)
  BY <1>1, <1>2, <1>3
<1>5. \E x \in Marks : \A y \in Marks : x <= y
  BY <1>4, NatMin
<1>6. FirstMark \in Marks /\ \A y \in Marks : FirstMark <= y
  BY <1>5 DEF FirstMark
<1>7. n >= K + 2
  BY <1>1, <1>2
<1> QED
  BY <1>4, <1>6, <1>7 DEF n, K

(* An id that is taken from the query.                                     *)
LEMMA QueryMatch ==
  ASSUME NEW p, InText(text, p, field["query"]), Marks # {}, AllValid(QueryId)
  PROVE  LET query == TextIn(text, field["query"]) IN
         /\ Len(QueryId) = YTDL_ID_LEN
         /\ \E i \in DOMAIN query : IsPrefix(Mark \o QueryId, Drop(query, i - 1))
<1> DEFINE q == field["query"]
           m == FirstMark
           e == q.off + m
           query == TextIn(text, q)
           K == YTDL_ID_LEN
           L == Len(text)
           c == QueryId
           rest == Drop(query, m)
<1>1. /\ text \in Seq(Characters) /\ q \in [off : Nat, len : Nat] /\ q.off + q.len <= L
      /\ q.len # 0 => q.off + q.len = L \/ text[q.off + q.len + 1] = "#"
  BY DEF InText
<1>2. /\ query \in Seq(Characters) /\ Len(query) = q.len /\ L \in Nat
      /\ q.off \in Nat /\ q.len \in Nat
      /\ \A k \in 1..q.len : query[k] = text[q.off + k]
  BY <1>1, FieldText
<1>3. K \in Nat /\ K # 0
  BY IdAssumption
<1>4. m \in Nat /\ m + K + 1 <= q.len /\ IsMark(m)
  BY <1>1, FirstMarkFacts
<1>5. Fetch(e, 2) = <<"v", "=">>
  BY <1>4 DEF IsMark
<1>6. c = Fetch(e + 2, K)
  BY DEF QueryId
<1>7. e = q.off + m
  OBVIOUS
<1> HIDE DEF q, m, e, query, K, L, c
<1>8. e \in Nat /\ e + 2 \in Nat
  BY <1>2, <1>4, <1>7
<1>9. text[e + 1] = "v" /\ text[e + 2] = "="
  <2>1. \A k \in 1..2 : Fetch(e, 2)[k] = IF e + k <= L THEN text[e + k] ELSE "NUL"
    <3>1. text \in Seq(Characters) /\ e \in Nat /\ 2 \in Nat
      BY <1>1, <1>8
    <3> QED
      BY <3>1, FetchFacts DEF L
  <2>2. /\ Fetch(e, 2)[1] = IF e + 1 <= L THEN text[e + 1] ELSE "NUL"
        /\ Fetch(e, 2)[2] = IF e + 2 <= L THEN text[e + 2] ELSE "NUL"
    BY <2>1
  <2>3. Fetch(e, 2)[1] = "v" /\ Fetch(e, 2)[2] = "="
    BY <1>5
  <2> QED
    BY <2>2, <2>3, IdCharFacts
<1>10. /\ c \in Seq(Fetched) /\ Len(c) = K /\ DOMAIN c = 1..K
       /\ \A k \in 1..K : c[k] = IF e + 2 + k <= L THEN text[e + 2 + k] ELSE "NUL"
  <2>1. text \in Seq(Characters) /\ e + 2 \in Nat /\ K \in Nat
    BY <1>1, <1>3, <1>8
  <2> QED
    BY <1>6, <2>1, FetchFacts DEF L
<1>11. \A k \in 1..K : c[k] # "#" /\ c[k] # "NUL"
  <2>1. AllValid(c)
    BY DEF c
  <2> QED
    BY <1>10, <2>1, IdCharFacts DEF AllValid
<1>12. m + K + 2 <= q.len
  <2>1. K \in 1..K
    BY <1>3
  <2>2. e + 2 + K <= L /\ text[e + 2 + K] # "#"
    BY <1>10, <1>11, <2>1
  <2>3. SUFFICES ASSUME m + K + 1 = q.len PROVE FALSE
    BY <1>2, <1>3, <1>4
  <2>4. q.off + q.len + 1 = e + 2 + K /\ q.len # 0
    BY <1>2, <1>3, <1>4, <1>7, <2>3
  <2>5. q.off + q.len # L
    BY <1>2, <2>2, <2>4
  <2>6. text[e + 2 + K] = "#"
    BY <1>1, <2>4, <2>5
  <2> QED
    BY <2>2, <2>6
<1>13. \A k \in 1..K : c[k] = text[e + 2 + k]
  <2> SUFFICES ASSUME NEW k \in 1..K PROVE e + 2 + k <= L
    BY <1>10
  <2> QED
    BY <1>1, <1>2, <1>3, <1>4, <1>7, <1>12
<1>14. /\ rest \in Seq(Characters) /\ Len(rest) = q.len - m
       /\ \A k \in 1..q.len - m : rest[k] = text[e + k]
  <2>1. rest = SubSeq(query, m + 1, q.len)
    BY <1>2 DEF Drop
  <2>2. \A k \in m + 1..q.len : query[k] \in Characters
    <3>1. \A k \in m + 1..q.len : k \in 1..Len(query)
      BY <1>2, <1>4
    <3> QED
      BY <1>2, <3>1, ElementOfSeq
  <2> HIDE DEF rest
  <2>3. m + 1 \in Int /\ q.len \in Int
    BY <1>2, <1>4
  <2>4. /\ rest \in Seq(Characters)
        /\ Len(rest) = IF m + 1 <= q.len THEN q.len - (m + 1) + 1 ELSE 0
        /\ \A k \in 1..q.len - (m + 1) + 1 : rest[k] = query[m + 1 + k - 1]
    BY <2>1, <2>2, <2>3, SubSeqProperties
  <2>5. q.len - (m + 1) + 1 = q.len - m /\ m + 1 <= q.len
    BY <1>2, <1>3, <1>4
  <2>6. ASSUME NEW k \in 1..q.len - m PROVE rest[k] = text[e + k]
    <3>1. m + 1 + k - 1 = m + k /\ m + k \in 1..q.len /\ q.off + (m + k) = e + k
      BY <1>2, <1>4, <1>7
    <3> QED
      BY <1>2, <2>4, <2>5, <3>1
  <2> QED
    BY <2>4, <2>5, <2>6
<1>15. c \in Seq(Spelled) /\ rest \in Seq(Spelled)
  <2>1. Fetched \subseteq Spelled /\ Characters \subseteq Spelled
    BY DEF Spelled, Fetched
  <2> QED
    BY <1>10, <1>14, <2>1, SeqMonotonic
<1> HIDE DEF rest
<1> DEFINE w == Mark \o c
<1>16. /\ w \in Seq(Spelled) /\ Len(w) = K + 2 /\ w[1] = "v" /\ w[2] = "="
       /\ \A i \in 1..K : w[i + 2] = c[i]
  BY <1>10, <1>15, Marked
<1> HIDE DEF w
<1>17. IsPrefix(w, rest)
  <2>1. K + 2 <= q.len - m
    BY <1>2, <1>3, <1>4, <1>12
  <2>2. ASSUME NEW i \in 1..K + 2 PROVE w[i] = rest[i]
    <3>1. rest[i] = text[e + i]
      <4>1. i \in 1..q.len - m
        BY <1>2, <1>3, <1>4, <2>1
      <4> QED
        BY <1>14, <4>1
    <3>2. CASE i \in {1, 2}
      BY <1>9, <1>16, <3>1, <3>2
    <3>3. CASE i \notin {1, 2}
      <4>1. i - 2 \in 1..K /\ i - 2 + 2 = i /\ e + 2 + (i - 2) = e + i
        BY <1>3, <1>8, <3>3
      <4>2. w[i] = c[i - 2] /\ c[i - 2] = text[e + i]
        BY <1>13, <1>16, <4>1
      <4> QED
        BY <3>1, <4>2
    <3> QED
      BY <3>2, <3>3
  <2>3. Len(w) <= Len(rest) /\ \A i \in 1..Len(w) : w[i] = rest[i]
    BY <1>14, <1>16, <2>1, <2>2
  <2> QED
    BY <1>15, <1>16, <2>3, PrefixIs
<1>18. m + 1 \in DOMAIN query /\ (m + 1) - 1 = m
  <2>1. DOMAIN query = 1..q.len
    BY <1>2, LenProperties
  <2> QED
    BY <1>2, <1>3, <1>4, <2>1
<1>19. IsPrefix(Mark \o c, Drop(query, (m + 1) - 1))
  BY <1>17, <1>18 DEF w, rest
<1>20. \E i \in DOMAIN query : IsPrefix(Mark \o c, Drop(query, i - 1))
  <2>1. m + 1 \in DOMAIN query
    BY <1>18
  <2> WITNESS m + 1 \in DOMAIN query
  <2> QED
    BY <1>19
<1> QED
  BY <1>10, <1>20 DEF K, c, query, q

LEMMA FetchIs ==
  ASSUME text \in Seq(Characters), NEW off \in Nat, NEW c \in Seq(Spelled),
         off + Len(c) <= Len(text), \A k \in 1..Len(c) : c[k] = text[off + k]
  PROVE  Fetch(off, Len(c)) = c
<1> DEFINE n == Len(c)
           f == Fetch(off, n)
<1>1. n \in Nat /\ Len(text) \in Nat /\ off + n <= Len(text)
  BY LenProperties
<1>2. \A k \in 1..n : c[k] = text[off + k]
  OBVIOUS
<1> HIDE DEF n
<1>3. /\ f \in Seq(Fetched) /\ Len(f) = n
      /\ \A k \in 1..n : f[k] = IF off + k <= Len(text) THEN text[off + k] ELSE "NUL"
  BY <1>1, FetchFacts
<1> HIDE DEF f
<1>4. f \in Seq(Spelled)
  <2>1. Fetched \subseteq Spelled
    BY DEF Spelled
  <2> QED
    BY <1>3, <2>1, SeqMonotonic
<1>5. \A k \in 1..n : f[k] = c[k]
  <2> SUFFICES ASSUME NEW k \in 1..n PROVE f[k] = c[k]
    OBVIOUS
  <2>1. off + k <= Len(text)
    BY <1>1
  <2> QED
    BY <1>2, <1>3, <2>1
<1>6. f = c
  BY <1>3, <1>4, <1>5, SeqEqual DEF n
<1> QED
  BY <1>6 DEF f, n

(* The id of a URL in its usual forms is found.                            *)
LEMMA UsualPath ==
  ASSUME NEW q, InText(text, field["path"], q), NEW named \in Seq(Spelled),
         Len(named) = YTDL_ID_LEN, AllValid(named),
         TextIn(text, field["path"]) = <<"/">> \o named
  PROVE  PathHasId /\ TailOf(field["path"]) = named
<1> DEFINE p == field["path"]
           path == TextIn(text, p)
           K == YTDL_ID_LEN
           L == Len(text)
<1>1. text \in Seq(Characters) /\ p \in [off : Nat, len : Nat] /\ p.off + p.len <= L
  BY DEF InText
<1>2. /\ Len(path) = p.len /\ L \in Nat /\ p.off \in Nat /\ p.len \in Nat
      /\ \A k \in 1..p.len : path[k] = text[p.off + k]
  BY <1>1, FieldText
<1>3. K \in Nat /\ K # 0 /\ Len(named) = K
  BY IdAssumption
<1>4. /\ Len(path) = K + 1 /\ path[1] = "/" /\ \A i \in 1..K : path[i + 1] = named[i]
      /\ <<"/">> \in Seq(Spelled) /\ Len(<<"/">>) = 1 /\ <<"/">>[1] = "/"
  BY <1>3, Marked DEF Spelled
<1> HIDE DEF path, K, L, p
<1>5. p.len = K + 1 /\ p.off + 1 \in Nat /\ p.off + 1 + K <= L /\ p.off + 1 <= L
  BY <1>1, <1>2, <1>3, <1>4
<1>6. Fetch(p.off, 1) = <<"/">>
  <2>1. text[p.off + 1] = "/"
    <3>1. 1 \in 1..p.len
      BY <1>3, <1>5
    <3> QED
      BY <1>2, <1>4, <3>1
  <2>2. \A k \in 1..1 : <<"/">>[k] = text[p.off + k]
    BY <2>1
  <2>3. text \in Seq(Characters) /\ p.off \in Nat /\ p.off + Len(<<"/">>) <= Len(text)
        /\ \A k \in 1..Len(<<"/">>) : <<"/">>[k] = text[p.off + k]
    BY <1>1, <1>2, <1>4, <1>5, <2>2 DEF L
  <2>4. Fetch(p.off, Len(<<"/">>)) = <<"/">>
    BY <1>4, <2>3, FetchIs
  <2> QED
    BY <1>4, <2>4
<1>7. Fetch(p.off + 1, K) = named
  <2>1. ASSUME NEW k \in 1..K PROVE named[k] = text[p.off + 1 + k]
    <3> DEFINE n == p.off
    <3>1. n \in Nat /\ K \in Nat /\ p.len = K + 1 /\ k \in 1..K
      BY <1>2, <1>3, <1>5
    <3> HIDE DEF n
    <3>2. k + 1 \in 1..p.len /\ n + (k + 1) = n + 1 + k /\ k + 1 \in 1..K + 1
      BY <3>1
    <3> QED
      BY <1>2, <1>4, <3>1, <3>2 DEF n
  <2>2. text \in Seq(Characters) /\ p.off + 1 \in Nat /\ p.off + 1 + Len(named) <= Len(text)
        /\ \A k \in 1..Len(named) : named[k] = text[p.off + 1 + k]
    BY <1>1, <1>3, <1>5, <2>1 DEF L
  <2>3. Fetch(p.off + 1, Len(named)) = named
    BY <2>2, FetchIs
  <2> QED
    BY <1>3, <2>3
<1>8. p.off + p.len - K - 1 = p.off /\ p.off + p.len - K = p.off + 1 /\ p.len >= K + 1
  BY <1>2, <1>3, <1>5
<1>9. TailOf(p) = named
  BY <1>7, <1>8 DEF TailOf, K
<1>10. PathHasId
  <2>1. Fetch(p.off + p.len - K - 1, 1) = <<"/">> /\ AllValid(Fetch(p.off + 1, K))
    BY <1>6, <1>7, <1>8
  <2> QED
    BY <1>8, <2>1 DEF PathHasId, p, K
<1> QED
  BY <1>9, <1>10 DEF p

LEMMA UsualQuery ==
  ASSUME InText(text, field["path"], field["query"]), NEW named \in Seq(Spelled),
         Len(named) = YTDL_ID_LEN, AllValid(named),
         Len(TextIn(text, field["path"])) <= YTDL_ID_LEN,
         IsPrefix(Mark \o named, TextIn(text, field["query"]))
  PROVE  ~PathHasId /\ Marks # {} /\ QueryId = named
<1> DEFINE p == field["path"]
           q == field["query"]
           query == TextIn(text, q)
           K == YTDL_ID_LEN
           L == Len(text)
           w == Mark \o named
<1>1. /\ text \in Seq(Characters) /\ p \in [off : Nat, len : Nat] /\ p.off + p.len <= L
      /\ q \in [off : Nat, len : Nat] /\ q.off + q.len <= L
  BY DEF InText
<1>2. /\ query \in Seq(Characters) /\ Len(query) = q.len /\ L \in Nat
      /\ q.off \in Nat /\ q.len \in Nat
      /\ \A k \in 1..q.len : query[k] = text[q.off + k]
  BY <1>1, FieldText
<1>3. K \in Nat /\ K # 0 /\ Len(named) = K
  BY IdAssumption
<1>4. Len(TextIn(text, p)) = p.len /\ p.len \in Nat
  BY <1>1, FieldText
<1>5. ~PathHasId
  <2>1. p.len <= K
    BY <1>4
  <2>2. PathHasId => p.len >= K + 1
    BY DEF PathHasId
  <2> HIDE DEF p, K
  <2> QED
    BY <1>3, <1>4, <2>1, <2>2
<1>6. /\ w \in Seq(Spelled) /\ Len(w) = K + 2 /\ w[1] = "v" /\ w[2] = "="
      /\ \A i \in 1..K : w[i + 2] = named[i]
      /\ Mark \in Seq(Spelled) /\ Len(Mark) = 2 /\ Mark[1] = "v" /\ Mark[2] = "="
  BY <1>3, Marked DEF Spelled, Mark
<1>7. IsPrefix(w, query)
  OBVIOUS
<1> HIDE DEF query, w
<1>8. Len(w) <= Len(query) /\ \A i \in 1..Len(w) : w[i] = query[i]
  <2>1. query \in Seq(Spelled)
    <3>1. Characters \subseteq Spelled
      BY DEF Spelled, Fetched
    <3> QED
      BY <1>2, <3>1, SeqMonotonic
  <2>2. IsPrefix(w, query) <=> Len(w) <= Len(query) /\ \A i \in 1..Len(w) : w[i] = query[i]
    BY <1>6, <2>1, PrefixIs
  <2> QED
    BY <1>7, <2>2
<1>9. q.len >= K + 2 /\ \A i \in 1..K + 2 : w[i] = text[q.off + i]
  <2> HIDE DEF q, K, L
  <2>1. K + 2 <= q.len
    BY <1>2, <1>6, <1>8
  <2>2. ASSUME NEW i \in 1..K + 2 PROVE w[i] = text[q.off + i]
    <3>1. i \in 1..q.len
      BY <1>2, <1>3, <2>1
    <3> QED
      BY <1>2, <1>6, <1>8, <3>1
  <2> QED
    BY <1>2, <1>3, <2>1, <2>2
<1>10. IsMark(0)
  <2> HIDE DEF q, K, L
  <2>1. \A k \in 1..2 : Mark[k] = text[q.off + k]
    <3>1. 1 \in 1..K + 2 /\ 2 \in 1..K + 2
      BY <1>3
    <3> QED
      BY <1>6, <1>9, <3>1
  <2>2. text \in Seq(Characters) /\ q.off \in Nat /\ q.off + Len(Mark) <= Len(text)
        /\ \A k \in 1..Len(Mark) : Mark[k] = text[q.off + k]
    BY <1>1, <1>2, <1>3, <1>6, <1>9, <2>1 DEF L
  <2>3. Fetch(q.off, Len(Mark)) = Mark
    BY <1>6, <2>2, FetchIs
  <2>4. q.off + 0 = q.off
    BY <1>2
  <2>5. Fetch(q.off + 0, 2) = <<"v", "=">>
    BY <1>6, <2>3, <2>4 DEF Mark
  <2> QED
    BY <2>5 DEF IsMark, q
<1>11. 0 \in Marks
  <2>1. 0 \in 0..q.len - K - 1 /\ ~(q.len < K + 2)
    <3> HIDE DEF q, K, L
    <3> QED
      BY <1>2, <1>3, <1>9
  <2> QED
    BY <1>10, <2>1 DEF Marks, Places
<1>12. FirstMark = 0
  <2>1. FirstMark \in Nat /\ FirstMark <= 0
    BY <1>1, <1>11, FirstMarkFacts
  <2> QED
    BY <2>1
<1>13. QueryId = named
  <2> HIDE DEF q, K, L
  <2>1. ASSUME NEW k \in 1..K PROVE named[k] = text[q.off + 2 + k]
    <3> DEFINE n == q.off
    <3>1. n \in Nat /\ K \in Nat /\ k \in 1..K
      BY <1>2, <1>3
    <3> HIDE DEF n
    <3>2. k + 2 \in 1..K + 2 /\ n + (k + 2) = n + 2 + k
      BY <3>1
    <3> QED
      BY <1>6, <1>9, <3>1, <3>2 DEF n
  <2>2. text \in Seq(Characters) /\ q.off + 2 \in Nat /\ q.off + 2 + Len(named) <= Len(text)
        /\ \A k \in 1..Len(named) : named[k] = text[q.off + 2 + k]
    BY <1>1, <1>2, <1>3, <1>9, <2>1 DEF L
  <2>3. Fetch(q.off + 2, Len(named)) = named
    BY <2>2, FetchIs
  <2>4. q.off + 0 + 2 = q.off + 2
    BY <1>2
  <2>5. QueryId = Fetch(q.off + 0 + 2, K)
    BY <1>12 DEF QueryId, q, K
  <2> QED
    BY <1>3, <2>3, <2>4, <2>5
<1> QED
  BY <1>5, <1>11, <1>13

(* The path and the query of a URL that was parsed.                        *)
LEMMA ParsedInText ==
  ASSUME UrlInv, phase = "parsed", Len(text) < Width
  PROVE  /\ InText(text, field["path"], field["query"])
         /\ field["host"] \in [off : Nat, len : Nat]
         /\ field["host"].off + field["host"].len <= Len(text)
<1> DEFINE q == field["query"]
           L == Len(text)
           P == PathEnd(text)
           H == HashAt(text)
<1>1. /\ text \in Seq(Characters) /\ found_at \in BOOLEAN
      /\ field \in [Fields -> [off : Nat, len : Nat]] /\ FieldsInBuffer
      /\ ParsedRead(text, found_at, field_set, field)
  BY DEF UrlInv, Bounded, UrlBounds
<1>2. \A f \in Fields : field[f] \in [off : Nat, len : Nat] /\ field[f].off + field[f].len <= L
  BY <1>1 DEF FieldsInBuffer
<1>3. "path" \in Fields /\ "query" \in Fields /\ "host" \in Fields
  BY DEF Fields
<1>4. q = Piece(P + 1, H)
  BY <1>1 DEF ParsedRead, TailRead, IsPiece
<1>5. L \in Nat /\ To(text) \in Nat \ {0} /\ To(text) <= L + 1 /\ P \in Nat
  <2>1. L \in Nat
    BY <1>1, LenProperties
  <2>2. /\ To(text) \in Nat \ {0} /\ P \in Nat /\ To(text) <= P /\ P <= L + 1
    BY <1>1, FieldsWritten
  <2> QED
    BY <2>1, <2>2
<1>6. H \in Nat /\ (H = L + 1 \/ text[H] = "#")
  <2>1. To(text) # 0
    BY <1>5
  <2>2. FirstOf(text, {"#"}, To(text)) = Len(text) + 1
        \/ text[FirstOf(text, {"#"}, To(text))] \in {"#"}
    BY <1>1, <1>5, <2>1, FirstFacts
  <2>3. FirstOf(text, {"#"}, To(text)) \in Nat
    BY <1>1, <1>5, <2>1, FirstFacts
  <2> QED
    BY <2>2, <2>3 DEF HashAt
<1> HIDE DEF L, P, H
<1>7. q.len # 0 => q.off + q.len = L \/ text[q.off + q.len + 1] = "#"
  <2>1. CASE P + 1 < H
    <3>1. q.off = P /\ q.len = H - (P + 1)
      BY <1>4, <1>5, <2>1 DEF Piece
    <3>2. q.off + q.len = H - 1 /\ q.off + q.len + 1 = H
      BY <1>5, <1>6, <3>1
    <3> HIDE DEF q
    <3> QED
      BY <1>5, <1>6, <3>2
  <2>2. CASE ~(P + 1 < H)
    BY <1>4, <2>2 DEF Piece, NoField
  <2> QED
    BY <2>1, <2>2
<1> QED
  BY <1>1, <1>2, <1>3, <1>7 DEF InText, L, q

(* A part of the text that could be an id.                                 *)
LEMMA NamedSpelled ==
  ASSUME text \in Seq(Characters),
         NEW named \in {SubSeq(text, i, i + YTDL_ID_LEN - 1) :
                          i \in 1..Len(text) + 1 - YTDL_ID_LEN}
  PROVE  named \in Seq(Spelled)
<1> DEFINE K == YTDL_ID_LEN
           L == Len(text)
<1>1. K \in Nat /\ L \in Nat
  BY IdAssumption, LenProperties
<1>2. PICK i \in 1..L + 1 - K : named = SubSeq(text, i, i + K - 1)
  OBVIOUS
<1> HIDE DEF K, L
<1>3. i \in Int /\ i + K - 1 \in Int /\ \A k \in i..i + K - 1 : k \in 1..L
  BY <1>1
<1>4. \A k \in i..i + K - 1 : text[k] \in Characters
  BY <1>3, ElementOfSeq DEF L
<1>5. SubSeq(text, i, i + K - 1) \in Seq(Characters)
  BY <1>3, <1>4, SubSeqProperties
<1>6. Characters \subseteq Spelled
  BY DEF Spelled, Fetched
<1> QED
  BY <1>2, <1>5, <1>6, SeqMonotonic

(* A known host passes the comparison.                                     *)
LEMMA KnownHostPasses ==
  ASSUME text \in Seq(Characters), field["host"] \in [off : Nat, len : Nat],
         field["host"].off + field["host"].len <= Len(text),
         TextIn(text, field["host"]) \in Hosts
  PROVE  ValidHost
<1> DEFINE h == TextIn(text, field["host"])
<1>1. h \in Seq(Characters)
  BY FieldText
<1>2. TextOf("host") = h
  BY DEF TextOf, TextIn
<1> HIDE DEF h
<1>3. IsPrefix(h, h)
  <2>1. Len(h) \in Nat
    BY <1>1, LenProperties
  <2> QED
    BY <1>1, <2>1, PrefixIs
<1> QED
  BY <1>2, <1>3 DEF ValidHost, h

(* The answer, whichever branch gives it.                                  *)
LEMMA AnswerRight ==
  ASSUME UrlInv, phase = "parsed", Len(text) < Width, ytdl_net_get_id_from_url
  PROVE  IdRight(text, field, answer', id')
<1> DEFINE path == TextIn(text, field["path"])
           query == TextIn(text, field["query"])
           Named == {SubSeq(text, i, i + YTDL_ID_LEN - 1) :
                       i \in 1..Len(text) + 1 - YTDL_ID_LEN}
           InPath(c) == IsSuffix(<<"/">> \o c, path)
           InQuery(c) == \E i \in DOMAIN query : IsPrefix(Mark \o c, Drop(query, i - 1))
           Segments == \E i \in 2..Len(path) : path[i] = "/"
           UsualInPath(c) == path = <<"/">> \o c
           UsualInQuery(c) == Len(path) <= YTDL_ID_LEN /\ IsPrefix(Mark \o c, query)
<1>1. /\ InText(text, field["path"], field["query"]) /\ text \in Seq(Characters)
      /\ field["host"] \in [off : Nat, len : Nat]
      /\ field["host"].off + field["host"].len <= Len(text)
  BY ParsedInText DEF InText
<1>2. \/ ~ValidHost /\ answer' = "unmatched"
      \/ PathHasId /\ answer' = "matched" /\ id' = TailOf(field["path"])
      \/ /\ ~PathHasId /\ Marks # {} /\ AllValid(QueryId)
         /\ answer' = "matched" /\ id' = QueryId
      \/ /\ ~PathHasId /\ ~(Marks # {} /\ AllValid(QueryId)) /\ answer' = "unmatched"
  <2>1. phase # "error"
    OBVIOUS
  <2> QED
    BY <2>1 DEF ytdl_net_get_id_from_url, Answer
<1>3. "matched" # "unmatched"
  OBVIOUS
<1>4. answer' = "matched" =>
        /\ Len(id') = YTDL_ID_LEN /\ (InPath(id') \/ InQuery(id'))
        /\ AllValid(id') \/ Segments
  <2>1. ASSUME PathHasId, id' = TailOf(field["path"])
        PROVE  /\ Len(id') = YTDL_ID_LEN /\ InPath(id')
               /\ AllValid(id') \/ Segments
    BY <1>1, <2>1, PathMatch
  <2>2. ASSUME Marks # {}, AllValid(QueryId), id' = QueryId
        PROVE  Len(id') = YTDL_ID_LEN /\ InQuery(id') /\ AllValid(id')
    BY <1>1, <2>2, QueryMatch
  <2> HIDE DEF InPath, InQuery, Segments
  <2> QED
    BY <1>2, <1>3, <2>1, <2>2
<1>5. ASSUME NEW named \in Named, Len(named) = YTDL_ID_LEN, AllValid(named),
             TextIn(text, field["host"]) \in Hosts,
             UsualInPath(named) \/ UsualInQuery(named)
      PROVE  answer' = "matched" /\ id' = named
  <2>1. named \in Seq(Spelled)
    BY <1>1, <1>5, NamedSpelled
  <2>2. ValidHost
    BY <1>1, <1>5, KnownHostPasses
  <2>3. CASE UsualInPath(named)
    <3>1. PathHasId /\ TailOf(field["path"]) = named
      BY <1>1, <1>5, <2>1, <2>3, UsualPath
    <3> QED
      BY <1>2, <2>2, <3>1
  <2>4. CASE UsualInQuery(named)
    <3>1. ~PathHasId /\ Marks # {} /\ QueryId = named
      BY <1>1, <1>5, <2>1, <2>4, UsualQuery
    <3>2. AllValid(QueryId)
      BY <1>5, <3>1
    <3> QED
      BY <1>2, <2>2, <3>1, <3>2
  <2> QED
    BY <1>5, <2>3, <2>4
<1> QED
  BY <1>4, <1>5 DEF IdRight

(* What the search has answered about a URL that was parsed.               *)
IdInv ==
  /\ UrlInv
  /\ answer # "none" => phase \in {"parsed", "error"}
  /\ (answer # "none" /\ phase = "parsed" /\ Len(text) < Width) =>
       IdRight(text, field, answer, id)

LEMMA IdStarts == Init => IdInv
BY UrlStarts DEF Init, IdInv

LEMMA IdStep == IdInv /\ [Next]_vars => IdInv'
<1> SUFFICES ASSUME IdInv, [Next]_vars PROVE IdInv'
  OBVIOUS
<1>1. [UrlNext]_url_vars
  BY DEF Next, vars, ytdl_net_get_id_from_url
<1>2. UrlInv /\ UrlInv'
  BY <1>1, UrlStep DEF IdInv
<1>3. CASE UrlNext /\ UNCHANGED <<answer, id>>
  <2>1. phase \in {"url", "host"}
    BY <1>3 DEF UrlNext, ReadUrl, EndUrl, ReadHost, EndHost
  <2>2. answer = "none"
    BY <2>1 DEF IdInv
  <2> QED
    BY <1>2, <1>3, <2>2 DEF IdInv
<1>4. CASE ytdl_net_get_id_from_url
  <2>1. phase \in {"parsed", "error"} /\ UNCHANGED url_vars
    BY <1>4 DEF ytdl_net_get_id_from_url
  <2>2. phase' = phase /\ text' = text /\ field' = field
    BY <2>1 DEF url_vars
  <2>3. ASSUME phase = "parsed", Len(text) < Width
        PROVE  IdRight(text, field, answer', id')
    BY <1>2, <1>4, <2>3, AnswerRight
  <2> QED
    BY <1>2, <2>1, <2>2, <2>3 DEF IdInv
<1>5. CASE UNCHANGED vars
  <2>1. phase' = phase /\ text' = text /\ field' = field /\ answer' = answer /\ id' = id
    BY <1>5 DEF vars, url_vars
  <2> QED
    BY <1>2, <2>1 DEF IdInv
<1> QED
  BY <1>3, <1>4, <1>5 DEF Next

LEMMA IdInvReads == IdInv => IdAsWritten
<1> SUFFICES ASSUME IdInv, answer # "none", phase = "parsed", Len(text) < Width
             PROVE  /\ answer = "matched" =>
                         /\ Len(id) = YTDL_ID_LEN
                         /\ \/ IsSuffix(<<"/">> \o id, Path)
                            \/ \E i \in DOMAIN AsWritten("query") :
                                 IsPrefix(Mark \o id, Drop(AsWritten("query"), i - 1))
                         /\ AllValid(id) \/ HasSegments
                    /\ \A chars \in {SubSeq(text, i, i + YTDL_ID_LEN - 1) :
                                       i \in 1..Len(text) + 1 - YTDL_ID_LEN} :
                         NamesVideo(chars) => answer = "matched" /\ id = chars
  BY DEF IdAsWritten
<1>1. \A f \in Fields : TextIn(text, field[f]) = AsWritten(f)
  <2>1. ParsedAsWritten
    BY UrlInvReads DEF IdInv
  <2> QED
    BY <2>1 DEF ParsedAsWritten, TextOf, TextIn
<1>2. /\ TextIn(text, field["path"]) = Path
      /\ TextIn(text, field["query"]) = AsWritten("query")
      /\ TextIn(text, field["host"]) = AsWritten("host")
  BY <1>1 DEF Path, Fields
<1>3. IdRight(text, field, answer, id)
  BY DEF IdInv
<1> QED
  BY <1>2, <1>3 DEF IdRight, NamesVideo, HasSegments

(* An id that is returned stands in the URL, behind the last slash of the  *)
(* path or behind v= in the query, and the id of a URL in its usual form   *)
(* is found (ytdl_net_get_id_from_url).                                    *)
THEOREM IdsAreWritten == Spec => []IdAsWritten
<1>1. Spec => []IdInv
  BY IdStarts, IdStep, PTL DEF Spec
<1> QED
  BY <1>1, IdInvReads, PTL
=============================================================================
