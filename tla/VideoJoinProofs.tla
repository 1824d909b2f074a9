-------------------------- MODULE VideoJoinProofs --------------------------
(***************************************************************************)
(* Proofs about VideoJoin and the muxer it calls, for any videos and any   *)
(* packets.  LoopInv is the invariant of the loop in ytdl_mux_files, and   *)
(* JoinInv relates what the two downloads of a video share.                *)
(***************************************************************************)
EXTENDS VideoJoin, Integers, NaturalsInduction, WellFoundedInduction,
        SequenceTheorems, FiniteSetTheorems, TLAPS

-----------------------------------------------------------------------------
(* Loops.                                                                  *)

(* The least number of a set, and induction for sets of numbers.           *)
LEMMA NatMin ==
  ASSUME NEW T, T \subseteq Nat, T # {}
  PROVE  \E m \in T : \A n \in T : m <= n
<1> DEFINE R == OpToRel(<, Nat)
<1>1. IsWellFoundedOn(R, Nat)
  BY NatLessThanWellFounded
<1>2. PICK m \in T : \A n \in T : ~(<<n, m>> \in R)
  <2> HIDE DEF R
  <2> QED
    BY <1>1, WFMin, Zenon
<1>3. \A n \in T : m <= n
  <2> TAKE n \in T
  <2>1. ~(n < m)
    BY <1>2 DEF OpToRel
  <2> QED
    BY <2>1
<1> QED
  BY <1>3

LEMMA NatInd ==
  ASSUME NEW S, 0 \in S, \A n \in Nat : n \in S => n + 1 \in S
  PROVE  \A n \in Nat : n \in S
<1> DEFINE T == {n \in Nat : n \notin S}
<1> SUFFICES ASSUME T # {} PROVE FALSE
  OBVIOUS
<1>1. PICK m \in T : \A n \in T : m <= n
  <2> HIDE DEF T
  <2>1. T \subseteq Nat
    BY DEF T
  <2> QED
    BY <2>1, NatMin
<1>2. m # 0 /\ m - 1 \in Nat /\ m - 1 \notin T
  BY <1>1
<1> QED
  BY <1>2

(* Every function on states can be iterated from every state.              *)
LEMMA Iterated ==
  ASSUME NEW S, NEW b \in S, NEW F \in [S -> S]
  PROVE  \E g \in [Nat -> S] : g[0] = b /\ \A n \in Nat : g[n + 1] = F[g[n]]
<1> DEFINE Upto(n) == {g \in [0..n -> S] : /\ g[0] = b
                                           /\ \A k \in 0..n - 1 : g[k + 1] = F[g[k]]}
<1>1. \A n \in Nat : Upto(n) # {}
  <2> DEFINE I == {n \in Nat : Upto(n) # {}}
  <2>1. 0 \in I
    <3>1. [k \in 0..0 |-> b] \in Upto(0)
      OBVIOUS
    <3> QED
      BY <3>1
  <2>2. ASSUME NEW n \in Nat, n \in I PROVE n + 1 \in I
    <3>1. PICK g \in [0..n -> S] : g[0] = b /\ \A k \in 0..n - 1 : g[k + 1] = F[g[k]]
      BY <2>2
    <3> DEFINE h == [k \in 0..n + 1 |-> IF k <= n THEN g[k] ELSE F[g[n]]]
    <3>2. h \in [0..n + 1 -> S]
      BY <3>1
    <3>3. h[0] = b
      BY <3>1
    <3>4. ASSUME NEW k \in 0..n + 1 - 1 PROVE h[k + 1] = F[h[k]]
      <4>1. CASE k = n
        BY <4>1
      <4>2. CASE k # n
        <5>1. k \in 0..n - 1 /\ h[k] = g[k] /\ h[k + 1] = g[k + 1]
          BY <4>2
        <5> QED
          BY <3>1, <5>1
      <4> QED
        BY <4>1, <4>2
    <3>5. h \in Upto(n + 1)
      BY <3>2, <3>3, <3>4
    <3> QED
      BY <3>5
  <2> HIDE DEF I
  <2>3. \A n \in Nat : n \in I
    BY <2>1, <2>2, NatInd
  <2> QED
    BY <2>3 DEF I
<1>2. ASSUME NEW n \in Nat, NEW g \in Upto(n), NEW h \in Upto(n + 1)
      PROVE  \A k \in Nat : k <= n => g[k] = h[k]
  <2> DEFINE I == {k \in Nat : k <= n => g[k] = h[k]}
  <2>1. 0 \in I
    OBVIOUS
  <2>2. ASSUME NEW k \in Nat, k \in I PROVE k + 1 \in I
    <3>1. SUFFICES ASSUME k + 1 <= n PROVE g[k + 1] = h[k + 1]
      OBVIOUS
    <3>2. k \in 0..n - 1 /\ k \in 0..n + 1 - 1 /\ g[k] = h[k]
      BY <2>2, <3>1
    <3> QED
      BY <3>2
  <2> HIDE DEF I
  <2>3. \A k \in Nat : k \in I
    BY <2>1, <2>2, NatInd
  <2> QED
    BY <2>3 DEF I
<1> HIDE DEF Upto
<1> DEFINE c == [n \in Nat |-> CHOOSE h \in Upto(n) : TRUE]
           g == [n \in Nat |-> c[n][n]]
<1>3. \A n \in Nat : c[n] \in Upto(n)
  BY <1>1
<1> HIDE DEF c
<1>4. \A n \in Nat : g[n] \in S
  BY <1>3 DEF Upto
<1>5. g[0] = b
  BY <1>3 DEF Upto
<1>6. ASSUME NEW n \in Nat PROVE g[n + 1] = F[g[n]]
  <2>1. c[n + 1][n] = c[n][n]
    BY <1>2, <1>3
  <2>2. n \in 0..n + 1 - 1 /\ c[n + 1] \in Upto(n + 1)
    BY <1>3
  <2>3. c[n + 1][n + 1] = F[c[n + 1][n]]
    BY <2>2 DEF Upto
  <2> QED
    BY <2>1, <2>3
<1> QED
  BY <1>4, <1>5, <1>6

-----------------------------------------------------------------------------

(* The packets of the stream s in out.                                     *)
OwnOf(out, s) == {j \in 1..Len(out) : out[j].stream = s}

(* A packet and the one before it of its stream; the other stream, as long *)
(* as it goes on, has come at least as far as the earlier of the two.      *)
Behind(r) ==
  \A k, i \in 1..Len(r.out) :
    k < i /\ r.out[k].stream = r.out[i].stream =>
      \A t \in Streams : t # r.out[i].stream /\ r.encode[t] =>
        r.out[k].pts <= next_pts(r, t)

LoopInv(ends, r) ==
  /\ \A s \in Streams : /\ r.at[s] = Cardinality(OwnOf(r.out, s))
                        /\ r.at[s] <= ends[s]
                        /\ ~r.encode[s] => r.at[s] = ends[s]
  /\ InOrder(r.out) /\ KeepsPace(r.out) /\ Behind(r)

LoopStates(ends) ==
  {r \in [out : Seq(OutPackets), at : [Streams -> Nat],
          encode : [Streams -> BOOLEAN]] : LoopInv(ends, r)}

(* A video and its two downloads: one that is complete has stopped, one    *)
(* that runs writes to an open file, and what they share is freed when     *)
(* both are complete, by the muxer, which is then called for the first     *)
(* time.                                                                   *)
PairInv(v) ==
  /\ video[v] = "none" => \A s \in Streams : ctx[v][s] = "none"
  /\ muxed[v] = IF video[v] = "freed" THEN 1 ELSE 0
  /\ video[v] = "freed" => \A s \in Streams : is_done[v][s]
  /\ \A s \in Streams : is_done[v][s] <=> ctx[v][s] \in {"stopped", "freed"}
  /\ \A s \in Streams : ctx[v][s] = "running" => fd[v][s] = "open"
  /\ ctx[v]["video"] # "manifest"
  /\ ctx[v]["audio"] = "manifest" =>
       ctx[v]["video"] = "none" /\ \A s \in Streams : fd[v][s] = "open"
  /\ \A s \in Streams :
       file[v][s] = "removed" <=> (video[v] = "freed" /\ ~is_debug)

OutputInv ==
  /\ KeepsPace(output.packets) /\ InOrder(output.packets)
  /\ output.made => \E v \in Videos : muxed[v] = 1

JoinInv == /\ TypeOK /\ OutputInv /\ misuse = {}
           /\ \A v \in Videos : PairInv(v)

-----------------------------------------------------------------------------
(* The loop of the muxer.                                                  *)

LEMMA PacketFacts ==
  /\ \A s \in Streams :
       /\ Packets[s] \in Seq(Nat) /\ Lengths[s] = Len(Packets[s])
       /\ Lengths[s] \in Nat
       /\ \A n \in 1..Lengths[s] : Packets[s][n] \in Nat
       /\ \A n, m \in 1..Lengths[s] : n <= m => Packets[s][n] <= Packets[s][m]
  /\ \A ends \in AllEnds : \A s \in Streams :
       ends[s] \in Nat /\ ends[s] <= Lengths[s]
<1>1. \A s \in Streams :
        /\ Packets[s] \in Seq(Nat) /\ Lengths[s] = Len(Packets[s])
        /\ Lengths[s] \in Nat
        /\ DOMAIN Packets[s] = 1..Lengths[s]
  BY PacketsAssumption DEF Streams, Lengths
<1>2. ASSUME NEW s \in Streams, NEW n \in 1..Lengths[s]
      PROVE  Packets[s][n] \in Nat
  BY <1>1, ElementOfSeq
<1>3. ASSUME NEW s \in Streams, NEW n \in 1..Lengths[s], NEW m \in 1..Lengths[s],
             n <= m
      PROVE  Packets[s][n] <= Packets[s][m]
  <2>1. s \in DOMAIN Packets
    BY PacketsAssumption DEF Streams
  <2> QED
    BY <1>1, <1>3, <2>1, PacketsAssumption
<1>4. \A ends \in AllEnds : \A s \in Streams :
        ends[s] \in Nat /\ ends[s] <= Lengths[s]
  BY <1>1 DEF AllEnds
<1> QED
  BY <1>1, <1>2, <1>3, <1>4

(* The packets of a stream are counted when one more is written.           *)
LEMMA OwnFacts ==
  ASSUME NEW out \in Seq(OutPackets), NEW s \in Streams
  PROVE  /\ IsFiniteSet(OwnOf(out, s)) /\ Cardinality(OwnOf(out, s)) \in Nat
         /\ \A i \in 1..Len(out) : out[i].stream = s =>
              /\ Rank(out, i) \in Nat \ {0}
              /\ Rank(out, i) <= Cardinality(OwnOf(out, s))
<1>1. Len(out) \in Nat
  BY LenProperties
<1>2. IsFiniteSet(OwnOf(out, s)) /\ Cardinality(OwnOf(out, s)) \in Nat
  <2>1. IsFiniteSet(1..Len(out)) /\ OwnOf(out, s) \in SUBSET (1..Len(out))
    BY <1>1, FS_Interval DEF OwnOf
  <2> QED
    BY <2>1, FS_Subset, FS_CardinalityType
<1>3. ASSUME NEW i \in 1..Len(out), out[i].stream = s
      PROVE  Rank(out, i) \in Nat \ {0} /\ Rank(out, i) <= Cardinality(OwnOf(out, s))
  <2> DEFINE T == {j \in 1..i : out[j].stream = out[i].stream}
  <2>1. T \in SUBSET OwnOf(out, s) /\ i \in T /\ Rank(out, i) = Cardinality(T)
    BY <1>1, <1>3 DEF OwnOf, Rank
  <2> HIDE DEF T
  <2>2. IsFiniteSet(T) /\ Cardinality(T) \in Nat
        /\ Cardinality(T) <= Cardinality(OwnOf(out, s))
    BY <1>2, <2>1, FS_Subset, FS_CardinalityType
  <2>3. Cardinality(T) # 0
    BY <2>1, <2>2, FS_EmptySet
  <2> QED
    BY <2>1, <2>2, <2>3
<1> QED
  BY <1>2, <1>3

(* The stream whose turn it is has not come further than the other.        *)
LEMMA TurnFacts ==
  ASSUME NEW ends \in AllEnds, NEW r \in LoopStates(ends),
         ~(\A s \in Streams : ~r.encode[s])
  PROVE  \E s \in Streams :
           /\ Round(ends, r) = ytdl__mux_write_frame(ends, r, s)
           /\ r.encode[s]
           /\ \A t \in Streams : t # s /\ r.encode[t] =>
                next_pts(r, s) <= next_pts(r, t)
<1>1. \A s \in Streams : /\ r.at[s] \in Nat /\ r.at[s] <= Lengths[s]
                         /\ next_pts(r, s) \in Nat
  <2> TAKE s \in Streams
  <2>1. r.at[s] \in Nat /\ r.at[s] <= Lengths[s]
    BY PacketFacts DEF LoopStates, LoopInv
  <2> QED
    BY <2>1, PacketFacts DEF next_pts
<1>2. "audio" \in Streams /\ "video" \in Streams
      /\ \A t \in Streams : t = "audio" \/ t = "video"
  BY DEF Streams
<1> DEFINE a == next_pts(r, "audio")
           v == next_pts(r, "video")
<1>3. a \in Nat /\ v \in Nat
  BY <1>1, <1>2
<1>4. CASE TakesAudio(r)
  <2>1. r.encode["audio"] /\ (r.encode["video"] => a <= v)
    BY <1>4 DEF TakesAudio
  <2>2. Round(ends, r) = ytdl__mux_write_frame(ends, r, "audio")
    BY <1>4 DEF Round
  <2> HIDE DEF a, v
  <2>3. \A t \in Streams : t # "audio" /\ r.encode[t] => a <= next_pts(r, t)
    BY <1>2, <2>1 DEF v
  <2> QED
    BY <1>2, <2>1, <2>2, <2>3 DEF a
<1>5. CASE ~TakesAudio(r)
  <2>1. ~(r.encode["audio"] /\ (r.encode["video"] => a <= v))
    BY <1>5 DEF TakesAudio
  <2>2. Round(ends, r) = ytdl__mux_write_frame(ends, r, "video")
    BY <1>5 DEF Round
  <2>3. r.encode["video"] /\ (r.encode["audio"] => ~(a <= v))
    BY <1>2, <2>1
  <2> HIDE DEF a, v
  <2>4. \A t \in Streams : t # "video" /\ r.encode[t] => v <= next_pts(r, t)
    BY <1>2, <1>3, <2>3 DEF a
  <2> QED
    BY <1>2, <2>2, <2>3, <2>4 DEF v
<1> QED
  BY <1>4, <1>5

(* From r to q a packet of s is written.                                   *)
Writes(ends, r, q, s) ==
  /\ r.encode[s] /\ r.at[s] # ends[s]
  /\ \A t \in Streams : t # s /\ r.encode[t] => next_pts(r, s) <= next_pts(r, t)
  /\ q.out = Append(r.out, [stream |-> s, pts |-> Packets[s][r.at[s] + 1]])
  /\ q.encode = r.encode
  /\ \A t \in Streams : q.at[t] = IF t = s THEN r.at[t] + 1 ELSE r.at[t]

LEMMA PacketKeepsLoop ==
  ASSUME NEW ends \in AllEnds, NEW r \in LoopStates(ends), NEW s \in Streams,
         NEW q \in [out : Seq(OutPackets), at : [Streams -> Nat],
                    encode : [Streams -> BOOLEAN]],
         Writes(ends, r, q, s)
  PROVE  LoopInv(ends, q)
<1> DEFINE n == Len(r.out) + 1
<1>w. PICK x : /\ x = Packets[s][r.at[s] + 1]
               /\ r.encode[s] /\ r.at[s] # ends[s]
               /\ \A t \in Streams : t # s /\ r.encode[t] =>
                    next_pts(r, s) <= next_pts(r, t)
               /\ q.out = Append(r.out, [stream |-> s, pts |-> x])
               /\ q.encode = r.encode
               /\ \A t \in Streams :
                    q.at[t] = IF t = s THEN r.at[t] + 1 ELSE r.at[t]
  BY DEF Writes
<1>l. /\ \A t \in Streams : /\ Lengths[t] \in Nat /\ ends[t] \in Nat
                            /\ ends[t] <= Lengths[t]
      /\ \A m \in 1..Lengths[s] : Packets[s][m] \in Nat
  BY PacketFacts
<1> USE <1>w
<1>1. /\ r.out \in Seq(OutPackets)
      /\ \A t \in Streams : /\ r.at[t] \in Nat /\ ends[t] \in Nat
                            /\ r.at[t] <= ends[t] /\ ends[t] <= Lengths[t]
                            /\ r.at[t] = Cardinality(OwnOf(r.out, t))
                            /\ ~r.encode[t] => r.at[t] = ends[t]
  BY <1>l DEF LoopStates, LoopInv
<1>2. InOrder(r.out) /\ KeepsPace(r.out) /\ Behind(r)
  BY DEF LoopStates, LoopInv
<1>0. \A t \in Streams :
        r.at[t] \in Nat /\ r.at[t] <= Lengths[t] /\ Lengths[t] \in Nat
  BY <1>1, <1>l
<1>3. /\ r.at[s] + 1 \in 1..Lengths[s] /\ r.at[s] + 1 <= ends[s]
      /\ Lengths[s] \in Nat /\ x \in Nat
  BY <1>1, <1>l
<1>4. /\ Len(r.out) \in Nat /\ Len(q.out) = n
      /\ \A i \in 1..Len(r.out) : q.out[i] = r.out[i] /\ Rank(q.out, i) = Rank(r.out, i)
      /\ q.out[n].stream = s /\ q.out[n].pts = x
      /\ Rank(q.out, n) = r.at[s] + 1
      /\ \A t \in Streams : Cardinality(OwnOf(q.out, t)) = q.at[t]
  <2> DEFINE p == [stream |-> s, pts |-> x]
             out == r.out
             new == q.out
  <2>1. p \in OutPackets /\ p.stream = s /\ p.pts = x
    BY <1>3 DEF OutPackets
  <2>2. out \in Seq(OutPackets) /\ new = Append(out, p)
    BY <1>1
  <2> HIDE DEF p, out, new
  <2>3. /\ Len(out) \in Nat /\ Len(new) = Len(out) + 1
        /\ \A i \in 1..Len(out) : new[i] = out[i]
        /\ new[Len(out) + 1] = p
    BY <2>1, <2>2, AppendProperties, LenProperties
  <2>4. ASSUME NEW i \in 1..Len(out) PROVE Rank(new, i) = Rank(out, i)
    <3>1. {j \in 1..i : new[j].stream = new[i].stream}
            = {j \in 1..i : out[j].stream = out[i].stream}
      BY <2>3, SMTT(30)
    <3> QED
      BY <3>1 DEF Rank
  <2>5. ASSUME NEW t \in Streams
        PROVE  Cardinality(OwnOf(new, t)) =
                 IF t = s THEN Cardinality(OwnOf(out, t)) + 1
                          ELSE Cardinality(OwnOf(out, t))
    <3>1. OwnOf(new, t) =
            IF t = s THEN OwnOf(out, t) \cup {Len(out) + 1} ELSE OwnOf(out, t)
      BY <2>1, <2>3 DEF OwnOf
    <3>2. IsFiniteSet(OwnOf(out, t)) /\ Len(out) + 1 \notin OwnOf(out, t)
      BY <2>2, <2>3, OwnFacts DEF OwnOf
    <3>3. Cardinality(OwnOf(out, t) \cup {Len(out) + 1}) = Cardinality(OwnOf(out, t)) + 1
      BY <3>2, FS_AddElement
    <3> QED
      BY <3>1, <3>3
  <2>6. Rank(new, n) = Cardinality(OwnOf(out, s)) + 1
    <3>1. {j \in 1..n : new[j].stream = new[n].stream} = OwnOf(new, s)
      BY <2>1, <2>3 DEF OwnOf, out
    <3>2. Rank(new, n) = Cardinality(OwnOf(new, s))
      BY <3>1 DEF Rank
    <3> QED
      BY <2>5, <3>2
  <2>7. \A t \in Streams : /\ r.at[t] = Cardinality(OwnOf(out, t))
                           /\ q.at[t] = IF t = s THEN r.at[t] + 1 ELSE r.at[t]
    BY <1>1 DEF out
  <2>8. /\ Rank(new, n) = r.at[s] + 1
        /\ \A t \in Streams : Cardinality(OwnOf(new, t)) = q.at[t]
    BY <2>5, <2>6, <2>7
  <2> QED
    BY <2>1, <2>3, <2>4, <2>8 DEF out, new
<1>5. \A i \in 1..Len(r.out) : r.out[i].stream \in Streams /\ r.out[i].pts \in Nat
  <2> TAKE i \in 1..Len(r.out)
  <2>1. r.out[i] \in OutPackets
    BY <1>1, ElementOfSeq
  <2> QED
    BY <2>1 DEF OutPackets
<1>6. \A i \in 1..Len(q.out) : i \in 1..Len(r.out) \/ i = n
  BY <1>4
<1>7. InOrder(q.out)
  <2> SUFFICES ASSUME NEW i \in 1..Len(q.out)
               PROVE  /\ Rank(q.out, i) <= Lengths[q.out[i].stream]
                      /\ q.out[i].pts = Packets[q.out[i].stream][Rank(q.out, i)]
    BY DEF InOrder
  <2>1. CASE i \in 1..Len(r.out)
    BY <1>2, <1>4, <2>1 DEF InOrder
  <2>2. CASE i = n
    BY <1>3, <1>4, <2>2
  <2> QED
    BY <1>6, <2>1, <2>2
<1>8. next_pts(r, s) \in Nat /\ next_pts(q, s) = x /\ next_pts(r, s) <= x
      /\ \A t \in Streams : t # s => next_pts(q, t) = next_pts(r, t)
  <2>1. r.at[s] # 0 => r.at[s] \in 1..Lengths[s]
    BY <1>1, <1>3
  <2>2. next_pts(r, s) \in Nat /\ next_pts(r, s) <= x
    <3>1. CASE r.at[s] = 0
      BY <1>3, <3>1 DEF next_pts
    <3>2. CASE r.at[s] # 0
      <4> DEFINE m == r.at[s]
      <4>1. m \in 1..Lengths[s] /\ m + 1 \in 1..Lengths[s] /\ m <= m + 1
        BY <1>3, <2>1, <3>2
      <4>2. x = Packets[s][m + 1] /\ next_pts(r, s) = Packets[s][m]
        BY <3>2 DEF next_pts
      <4> HIDE DEF m
      <4> HIDE <1>w
      <4>3. Packets[s][m] \in Nat /\ Packets[s][m] <= Packets[s][m + 1]
        BY <4>1, PacketFacts
      <4> QED
        BY <4>2, <4>3
    <3> QED
      BY <3>1, <3>2
  <2>3. next_pts(q, s) = x
    BY <1>1 DEF next_pts
  <2>4. \A t \in Streams : t # s => next_pts(q, t) = next_pts(r, t)
    BY DEF next_pts
  <2> QED
    BY <2>2, <2>3, <2>4
<1>9. \A t \in Streams : r.encode[t] => /\ next_pts(r, t) \in Nat
                                        /\ next_pts(q, t) \in Nat
                                        /\ next_pts(r, t) <= next_pts(q, t)
  <2> TAKE t \in Streams
  <2>1. next_pts(r, t) \in Nat
    <3>1. r.at[t] # 0 => r.at[t] \in 1..Lengths[t]
      BY <1>0
    <3> QED
      BY <3>1, PacketFacts DEF next_pts
  <2> QED
    BY <1>3, <1>8, <2>1
<1> HIDE <1>w
(* What was written of s before is not later than the last of it.          *)
<1>10. ASSUME NEW k \in 1..Len(r.out), r.out[k].stream = s
       PROVE  r.out[k].pts <= next_pts(r, s)
  <2>1. /\ Rank(r.out, k) \in Nat \ {0} /\ Rank(r.out, k) <= r.at[s]
        /\ r.out[k].pts = Packets[s][Rank(r.out, k)]
    BY <1>1, <1>2, <1>10, OwnFacts DEF InOrder
  <2>2. /\ r.at[s] # 0 /\ r.at[s] \in 1..Lengths[s]
        /\ Rank(r.out, k) \in 1..Lengths[s]
    BY <1>1, <1>3, <2>1
  <2> QED
    BY <2>1, <2>2, PacketFacts DEF next_pts
<1>11. KeepsPace(q.out)
  <2> SUFFICES ASSUME NEW k \in 1..Len(q.out), NEW i \in 1..Len(q.out),
                      NEW j \in 1..Len(q.out), k < i, i < j,
                      q.out[k].stream = q.out[i].stream,
                      q.out[i].stream # q.out[j].stream
               PROVE  q.out[k].pts <= q.out[j].pts
    BY DEF KeepsPace
  <2>1. k \in 1..Len(r.out) /\ i \in 1..Len(r.out)
    BY <1>4, <1>6
  <2>2. CASE j \in 1..Len(r.out)
    BY <1>2, <1>4, <2>1, <2>2 DEF KeepsPace
  <2>3. CASE j = n
    <3>1. /\ r.out[k].stream = r.out[i].stream /\ s # r.out[i].stream
          /\ q.out[k].pts = r.out[k].pts /\ q.out[j].pts = x
      BY <1>4, <2>1, <2>3
    <3>2. r.out[k].pts <= next_pts(r, s)
      <4>1. r.encode[s]
        BY <1>w
      <4> QED
        BY <1>2, <2>1, <3>1, <4>1 DEF Behind
    <3>3. r.out[k].pts \in Nat
      BY <1>5, <2>1
    <3>4. r.out[k].pts <= x
      BY <1>3, <1>8, <3>2, <3>3
    <3> QED
      BY <3>1, <3>4
  <2> QED
    BY <1>6, <2>2, <2>3
<1>12. Behind(q)
  <2> SUFFICES ASSUME NEW k \in 1..Len(q.out), NEW i \in 1..Len(q.out), k < i,
                      q.out[k].stream = q.out[i].stream,
                      NEW t \in Streams, t # q.out[i].stream, r.encode[t]
               PROVE  q.out[k].pts <= next_pts(q, t)
    <3>1. q.encode = r.encode
      BY <1>w
    <3> QED
      BY <3>1 DEF Behind
  <2>1. k \in 1..Len(r.out) /\ q.out[k] = r.out[k] /\ r.out[k].pts \in Nat
    BY <1>4, <1>5, <1>6
  <2>2. CASE i \in 1..Len(r.out)
    <3>1. r.out[k].pts <= next_pts(r, t)
      <4>1. r.out[k].stream = r.out[i].stream /\ t # r.out[i].stream
        BY <1>4, <2>1, <2>2
      <4> QED
        BY <1>2, <2>1, <2>2, <4>1 DEF Behind
    <3>2. /\ next_pts(r, t) \in Nat /\ next_pts(q, t) \in Nat
          /\ next_pts(r, t) <= next_pts(q, t)
      BY <1>9
    <3> DEFINE a == q.out[k].pts
               b == next_pts(r, t)
               d == next_pts(q, t)
    <3>3. a \in Nat /\ a <= b /\ b \in Nat /\ d \in Nat /\ b <= d
      BY <2>1, <3>1, <3>2, Zenon
    <3> HIDE DEF a, b, d
    <3>4. a <= d
      BY <3>3
    <3> QED
      BY <3>4 DEF a, d
  <2>3. CASE i = n
    <3>1. r.out[k].stream = s /\ t # s
      BY <1>4, <2>1, <2>3
    <3>2. r.out[k].pts <= next_pts(r, s) /\ next_pts(r, s) <= next_pts(r, t)
      BY <1>10, <1>w, <2>1, <3>1
    <3>3. next_pts(r, s) \in Nat /\ next_pts(r, t) \in Nat
          /\ next_pts(q, t) = next_pts(r, t)
      BY <1>8, <1>9, <3>1
    <3> QED
      BY <2>1, <3>2, <3>3
  <2> QED
    BY <1>6, <2>2, <2>3
<1>13. \A t \in Streams : /\ q.at[t] = Cardinality(OwnOf(q.out, t))
                          /\ q.at[t] <= ends[t]
                          /\ ~q.encode[t] => q.at[t] = ends[t]
  BY <1>1, <1>3, <1>4, <1>w
<1> QED
  BY <1>7, <1>11, <1>12, <1>13 DEF LoopInv

(* Rounds that go on: one for every packet and one for every end.          *)
RoundsOf(r) == r.at["audio"] + r.at["video"]
               + (IF r.encode["audio"] THEN 0 ELSE 1)
               + (IF r.encode["video"] THEN 0 ELSE 1)

AllEnded(r) == \A s \in Streams : ~r.encode[s]

LEMMA RoundKeepsLoop ==
  ASSUME NEW ends \in AllEnds, NEW r \in LoopStates(ends)
  PROVE  /\ Round(ends, r) \in LoopStates(ends)
         /\ AllEnded(r) => Round(ends, r) = r
         /\ ~AllEnded(r) => RoundsOf(Round(ends, r)) = RoundsOf(r) + 1
<1>0. /\ r \in [out : Seq(OutPackets), at : [Streams -> Nat],
                encode : [Streams -> BOOLEAN]]
      /\ LoopInv(ends, r)
  BY DEF LoopStates
<1>1. CASE AllEnded(r)
  BY <1>1 DEF AllEnded, Round
<1>2. CASE ~AllEnded(r)
  <2>1. PICK s \in Streams :
          /\ Round(ends, r) = ytdl__mux_write_frame(ends, r, s)
          /\ r.encode[s]
          /\ \A t \in Streams : t # s /\ r.encode[t] =>
               next_pts(r, s) <= next_pts(r, t)
    BY <1>2, TurnFacts DEF AllEnded
  <2> DEFINE q == Round(ends, r)
  <2>2. r.at["audio"] \in Nat /\ r.at["video"] \in Nat /\ s \in {"audio", "video"}
    BY <1>0 DEF Streams
  <2>3. CASE r.at[s] = ends[s]
    <3>1. q = [r EXCEPT !.encode[s] = FALSE]
      BY <2>1, <2>3 DEF ytdl__mux_write_frame
    <3>2. /\ q \in [out : Seq(OutPackets), at : [Streams -> Nat],
                    encode : [Streams -> BOOLEAN]]
          /\ q.out = r.out /\ q.at = r.at
          /\ \A t \in Streams : q.encode[t] = IF t = s THEN FALSE ELSE r.encode[t]
      BY <1>0, <3>1
    <3> HIDE DEF q
    <3>3. \A t \in Streams : next_pts(q, t) = next_pts(r, t)
      BY <3>2 DEF next_pts
    <3>4. \A t \in Streams : q.encode[t] => r.encode[t]
      BY <3>2
    <3>5. Behind(q)
      BY <1>0, <3>2, <3>3, <3>4 DEF LoopInv, Behind
    <3>6. \A t \in Streams : ~q.encode[t] => q.at[t] = ends[t]
      <4> TAKE t \in Streams
      <4>1. CASE t = s
        BY <2>3, <3>2, <4>1
      <4>2. CASE t # s
        <5>1. q.encode[t] = r.encode[t]
          BY <3>2, <4>2
        <5> QED
          BY <1>0, <3>2, <5>1 DEF LoopInv
      <4> QED
        BY <4>1, <4>2
    <3>7. LoopInv(ends, q)
      BY <1>0, <3>2, <3>5, <3>6 DEF LoopInv
    <3>8. RoundsOf(q) = RoundsOf(r) + 1
      <4>1. CASE s = "audio"
        <5>1. q.encode["audio"] = FALSE /\ q.encode["video"] = r.encode["video"]
          BY <3>2, <4>1 DEF Streams
        <5> QED
          BY <2>1, <2>2, <3>2, <4>1, <5>1 DEF RoundsOf
      <4>2. CASE s = "video"
        <5>1. q.encode["video"] = FALSE /\ q.encode["audio"] = r.encode["audio"]
          BY <3>2, <4>2 DEF Streams
        <5> QED
          BY <2>1, <2>2, <3>2, <4>2, <5>1 DEF RoundsOf
      <4> QED
        BY <2>2, <4>1, <4>2
    <3> QED
      BY <1>2, <3>2, <3>7, <3>8 DEF LoopStates, q
  <2>4. CASE r.at[s] # ends[s]
    <3> DEFINE x == Packets[s][r.at[s] + 1]
    <3>1. q = [r EXCEPT !.at[s] = @ + 1,
                        !.out = Append(@, [stream |-> s, pts |-> x])]
      BY <2>1, <2>4 DEF ytdl__mux_write_frame
    <3>2. x \in Nat
      <4>1. /\ r.at[s] \in Nat /\ r.at[s] <= ends[s] /\ ends[s] \in Nat
            /\ ends[s] <= Lengths[s] /\ Lengths[s] \in Nat
        BY <1>0, PacketFacts DEF LoopInv
      <4>2. r.at[s] + 1 \in 1..Lengths[s]
        BY <2>4, <4>1
      <4> QED
        BY <4>2, PacketFacts
    <3> HIDE DEF x
    <3>3. [stream |-> s, pts |-> x] \in OutPackets
      BY <3>2 DEF OutPackets
    <3>4. Append(r.out, [stream |-> s, pts |-> x]) \in Seq(OutPackets)
      BY <1>0, <3>3, AppendProperties
    <3>5. /\ q.out = Append(r.out, [stream |-> s, pts |-> x])
          /\ q.encode = r.encode
          /\ q.at = [r.at EXCEPT ![s] = @ + 1]
          /\ q = [out |-> q.out, at |-> q.at, encode |-> q.encode]
      BY <1>0, <3>1
    <3> HIDE DEF q
    <3>6. \A t \in Streams : q.at[t] = IF t = s THEN r.at[t] + 1 ELSE r.at[t]
      BY <1>0, <3>5
    <3>7. q \in [out : Seq(OutPackets), at : [Streams -> Nat],
                 encode : [Streams -> BOOLEAN]]
      <4>1. /\ q.out \in Seq(OutPackets) /\ q.at \in [Streams -> Nat]
            /\ q.encode \in [Streams -> BOOLEAN]
        BY <1>0, <3>4, <3>5
      <4> QED
        BY <3>5, <4>1
    <3>8. LoopInv(ends, q)
      <4>1. Writes(ends, r, q, s)
        BY <2>1, <2>4, <3>5, <3>6 DEF Writes, x
      <4> QED
        BY <3>7, <4>1, PacketKeepsLoop
    <3>9. RoundsOf(q) = RoundsOf(r) + 1
      <4>1. \/ q.at["audio"] = r.at["audio"] + 1 /\ q.at["video"] = r.at["video"]
            \/ q.at["video"] = r.at["video"] + 1 /\ q.at["audio"] = r.at["audio"]
        BY <2>2, <3>6 DEF Streams
      <4> QED
        <5>1. q.encode["audio"] = r.encode["audio"] /\ q.encode["video"] = r.encode["video"]
          BY <3>5
        <5> QED
          BY <2>2, <4>1, <5>1 DEF RoundsOf
    <3> QED
      BY <1>2, <3>7, <3>8, <3>9 DEF LoopStates, q
  <2> QED
    BY <2>3, <2>4
<1> QED
  BY <1>1, <1>2

LEMMA BeforeIsLoopState ==
  ASSUME NEW ends \in AllEnds
  PROVE  Before \in LoopStates(ends) /\ RoundsOf(Before) = 0
<1>1. /\ Before.out = <<>> /\ Len(Before.out) = 0
      /\ Before \in [out : Seq(OutPackets), at : [Streams -> Nat],
                     encode : [Streams -> BOOLEAN]]
      /\ \A s \in Streams : Before.at[s] = 0 /\ Before.encode[s]
  <2>1. <<>> \in Seq(OutPackets) /\ Len(<<>>) = 0
    BY EmptySeq
  <2> QED
    BY <2>1 DEF Before
<1>2. \A s \in Streams : OwnOf(Before.out, s) = {} /\ ends[s] \in Nat
  BY <1>1, PacketFacts DEF OwnOf
<1>3. Cardinality({}) = 0
  BY FS_EmptySet
<1>4. LoopInv(ends, Before)
  <2>1. 1..Len(Before.out) = {}
    BY <1>1
  <2>2. InOrder(Before.out) /\ KeepsPace(Before.out) /\ Behind(Before)
    BY <2>1 DEF InOrder, KeepsPace, Behind
  <2>3. \A s \in Streams : 0 <= ends[s] /\ 0 = Cardinality(OwnOf(Before.out, s))
    BY <1>2, <1>3
  <2> QED
    BY <1>1, <2>2, <2>3 DEF LoopInv
<1>5. RoundsOf(Before) = 0
  BY <1>1 DEF RoundsOf, Streams
<1> QED
  BY <1>1, <1>4, <1>5 DEF LoopStates

(* The muxer's loop ends, each stream where it could be read no further.   *)
LEMMA LoopFacts ==
  ASSUME NEW ends \in AllEnds
  PROVE  /\ Loop(ends) \in LoopStates(ends)
         /\ AllEnded(Loop(ends))
<1> DEFINE L == LoopStates(ends)
           F == [r \in L |-> Round(ends, r)]
           N == ends["audio"] + ends["video"] + 2
           after == CHOOSE g : g = [n \in Nat |-> IF n = 0 THEN Before
                                                  ELSE Round(ends, g[n - 1])]
<1>1. Before \in L /\ F \in [L -> L]
  BY BeforeIsLoopState, RoundKeepsLoop
<1>2. /\ ends["audio"] \in Nat /\ ends["video"] \in Nat /\ N \in Nat
  BY PacketFacts DEF Streams
<1>3. after = [n \in Nat |-> IF n = 0 THEN Before ELSE Round(ends, after[n - 1])]
  <2> HIDE DEF L
  <2>1. PICK g \in [Nat -> L] : g[0] = Before /\ \A n \in Nat : g[n + 1] = F[g[n]]
    <3> HIDE DEF F, after, N
    <3>1. \A b \in L : \A f \in [L -> L] : \E g \in [Nat -> L] :
            g[0] = b /\ \A n \in Nat : g[n + 1] = f[g[n]]
      BY Iterated, SMTT(20)
    <3>2. \A f \in [L -> L] : \E g \in [Nat -> L] :
            g[0] = Before /\ \A n \in Nat : g[n + 1] = f[g[n]]
      BY <1>1, <3>1
    <3> QED
      BY <1>1, <3>2, Zenon
  <2>2. \A n \in Nat : g[n] = IF n = 0 THEN Before ELSE Round(ends, g[n - 1])
    <3> TAKE n \in Nat
    <3>1. CASE n = 0
      BY <2>1, <3>1
    <3>2. CASE n # 0
      <4>1. n - 1 \in Nat /\ n - 1 + 1 = n
        BY <3>2
      <4>2. g[n] = F[g[n - 1]] /\ g[n - 1] \in L
        BY <2>1, <4>1
      <4> QED
        BY <3>2, <4>2
    <3> QED
      BY <3>1, <3>2
  <2>3. g = [n \in Nat |-> IF n = 0 THEN Before ELSE Round(ends, g[n - 1])]
    BY <2>1, <2>2
  <2> QED
    BY <2>3
<1>4. Loop(ends) = after[N]
  BY DEF Loop
<1> HIDE DEF after
<1>5. after[0] = Before /\ \A n \in Nat : after[n + 1] = Round(ends, after[n])
  <2>1. \A n \in Nat : after[n] = IF n = 0 THEN Before ELSE Round(ends, after[n - 1])
    BY <1>3, Zenon
  <2>2. ASSUME NEW n \in Nat PROVE after[n + 1] = Round(ends, after[n])
    <3>1. n + 1 \in Nat /\ n + 1 # 0 /\ n + 1 - 1 = n
      OBVIOUS
    <3> QED
      BY <2>1, <3>1
  <2> QED
    BY <2>1, <2>2
<1> DEFINE I == {n \in Nat : /\ after[n] \in L
                             /\ AllEnded(after[n]) \/ RoundsOf(after[n]) = n}
<1>6. 0 \in I
  BY <1>5, BeforeIsLoopState
<1>7. ASSUME NEW n \in Nat, n \in I PROVE n + 1 \in I
  <2>1. /\ after[n] \in LoopStates(ends)
        /\ AllEnded(after[n]) \/ RoundsOf(after[n]) = n
        /\ after[n + 1] = Round(ends, after[n])
    BY <1>5, <1>7
  <2> QED
    BY <2>1, RoundKeepsLoop
<1> HIDE DEF I
<1>8. \A n \in Nat : n \in I
  BY <1>6, <1>7, NatInd
<1> DEFINE r == Loop(ends)
<1>9. r \in LoopStates(ends) /\ (AllEnded(r) \/ RoundsOf(r) = N)
  BY <1>2, <1>4, <1>8 DEF I
<1> HIDE DEF r
<1>10. ASSUME ~AllEnded(r) PROVE RoundsOf(r) < N
  <2>1. /\ r.at["audio"] \in Nat /\ r.at["video"] \in Nat
        /\ r.at["audio"] <= ends["audio"] /\ r.at["video"] <= ends["video"]
    BY <1>9 DEF LoopStates, LoopInv, Streams
  <2>2. r.encode["audio"] \/ r.encode["video"]
    BY <1>10 DEF AllEnded, Streams
  <2> QED
    BY <1>2, <2>1, <2>2 DEF RoundsOf
<1> QED
  BY <1>2, <1>9, <1>10 DEF r

(* What the muxer makes of two files.                                      *)
LEMMA MuxFacts ==
  ASSUME NEW files, NEW o \in ytdl_mux_files(files)
  PROVE  /\ o \in [made : BOOLEAN, packets : Seq(OutPackets)]
         /\ KeepsPace(o.packets) /\ InOrder(o.packets)
<1>1. CASE o = NoFile
  <2>1. o.made = FALSE /\ o.packets = <<>> /\ o = [made |-> o.made, packets |-> o.packets]
    BY <1>1 DEF NoFile
  <2>2. <<>> \in Seq(OutPackets) /\ 1..Len(<<>>) = {}
    BY EmptySeq
  <2> QED
    BY <2>1, <2>2 DEF KeepsPace, InOrder
<1>2. ASSUME NEW m \in MuxesOf(files), o = Made(m.out)
      PROVE  /\ o \in [made : BOOLEAN, packets : Seq(OutPackets)]
             /\ KeepsPace(o.packets) /\ InOrder(o.packets)
  <2>1. PICK ends \in AllEnds : m = [ends |-> ends, out |-> Written(ends)]
    BY DEF MuxesOf, Muxes
  <2>2. m.out = Loop(ends).out
    BY <2>1 DEF Written
  <2>3. Loop(ends) \in LoopStates(ends)
    BY LoopFacts
  <2>4. m.out \in Seq(OutPackets) /\ KeepsPace(m.out) /\ InOrder(m.out)
    BY <2>2, <2>3 DEF LoopStates, LoopInv
  <2>5. o.made = TRUE /\ o.packets = m.out /\ o = [made |-> o.made, packets |-> o.packets]
    BY <1>2 DEF Made
  <2> QED
    BY <2>4, <2>5
<1> QED
  BY <1>1, <1>2 DEF ytdl_mux_files

-----------------------------------------------------------------------------
(* The downloads of a video.                                               *)

LEMMA JoinInit == Init => JoinInv
<1> SUFFICES ASSUME Init PROVE JoinInv
  OBVIOUS
<1>1. output \in [made : BOOLEAN, packets : Seq(OutPackets)] /\ ~output.made
      /\ KeepsPace(output.packets) /\ InOrder(output.packets)
  <2>1. output.packets = <<>> /\ output.made = FALSE
        /\ output = [made |-> output.made, packets |-> output.packets]
    BY DEF Init, NoFile
  <2>2. <<>> \in Seq(OutPackets) /\ 1..Len(<<>>) = {}
    BY EmptySeq
  <2> QED
    BY <2>1, <2>2 DEF KeepsPace, InOrder
<1>2. TypeOK
  BY <1>1 DEF Init, TypeOK, Pairs, Each
<1>3. \A v \in Videos : PairInv(v)
  BY DEF Init, PairInv, Each, Streams
<1> QED
  BY <1>1, <1>2, <1>3 DEF JoinInv, OutputInv, Init

LEMMA InfoKeepsJoin ==
  ASSUME JoinInv, NEW v \in Videos, ytdl__info_complete(v)
  PROVE  JoinInv'
<1>1. TypeOK /\ OutputInv /\ misuse = {} /\ \A w \in Videos : PairInv(w)
  BY DEF JoinInv
<1>2. /\ video[v] = "none" /\ video' = [video EXCEPT ![v] = "live"]
      /\ fd' = [fd EXCEPT ![v] = [s \in Streams |-> "open"]]
      /\ file' = [file EXCEPT ![v] = [s \in Streams |-> "empty"]]
      /\ UNCHANGED <<is_debug, kind, is_done, output, muxed, misuse>>
  BY DEF ytdl__info_complete
<1>3. PICK c \in [Streams -> {"running", "manifest", "none"}] :
        /\ ctx' = [ctx EXCEPT ![v] = c]
        /\ \/ \A s \in Streams : c[s] = "running"
           \/ c["audio"] = "manifest" /\ c["video"] = "none"
  <2>1. CASE kind[v] = "media"
    <3> DEFINE c == [s \in Streams |-> "running"]
    <3>1. ctx' = [ctx EXCEPT ![v] = c]
      BY <2>1 DEF ytdl__info_complete
    <3>2. c \in [Streams -> {"running", "manifest", "none"}]
          /\ \A s \in Streams : c[s] = "running"
      OBVIOUS
    <3> QED
      BY <3>1, <3>2
  <2>2. CASE kind[v] # "media"
    <3> DEFINE c == [s \in Streams |-> IF s = "audio" THEN "manifest" ELSE "none"]
    <3>1. ctx' = [ctx EXCEPT ![v] = c]
      BY <2>2 DEF ytdl__info_complete
    <3>2. c \in [Streams -> {"running", "manifest", "none"}]
          /\ c["audio"] = "manifest" /\ c["video"] = "none"
      BY DEF Streams
    <3> QED
      BY <3>1, <3>2
  <2> QED
    BY <2>1, <2>2
<1>4. TypeOK'
  BY <1>1, <1>2, <1>3 DEF TypeOK, Pairs
<1>5. \A w \in Videos : w # v => PairInv(w)'
  BY <1>1, <1>2, <1>3 DEF TypeOK, Pairs, PairInv
<1>6. /\ ctx'[v] = c /\ video'[v] = "live" /\ muxed'[v] = 0 /\ is_done' = is_done
      /\ \A s \in Streams : fd'[v][s] = "open" /\ file'[v][s] = "empty"
      /\ \A s \in Streams : ctx[v][s] = "none"
  BY <1>1, <1>2, <1>3 DEF TypeOK, Pairs, PairInv
<1>7. \A s \in Streams : ~is_done[v][s] /\ c[s] \notin {"stopped", "freed"}
  BY <1>1, <1>3, <1>6 DEF PairInv
<1>8. PairInv(v)'
  BY <1>3, <1>6, <1>7 DEF PairInv, Streams
<1> QED
  BY <1>1, <1>2, <1>4, <1>5, <1>8 DEF JoinInv, OutputInv

LEMMA ManifestKeepsJoin ==
  ASSUME JoinInv, NEW v \in Videos, ytdl__dash_manifest_done(v)
  PROVE  JoinInv'
<1>1. TypeOK /\ OutputInv /\ misuse = {} /\ \A w \in Videos : PairInv(w)
  BY DEF JoinInv
<1>2. /\ ctx[v]["audio"] = "manifest" /\ ctx' = [ctx EXCEPT ![v] = BothRun(v)]
      /\ misuse' = misuse \cup (IF video[v] = "freed" THEN {"video"} ELSE {})
      /\ UNCHANGED <<is_debug, video, kind, is_done, fd, file, output, muxed>>
  BY DEF ytdl__dash_manifest_done
<1>3. /\ ctx[v]["video"] = "none" /\ "audio" \in Streams /\ "video" \in Streams
      /\ \A s \in Streams : fd[v][s] = "open" /\ ~is_done[v][s]
      /\ video[v] # "freed" /\ video[v] # "none"
  BY <1>1, <1>2 DEF PairInv, Streams
<1>4. TypeOK'
  BY <1>1, <1>2, <1>3 DEF TypeOK, Pairs, BothRun
<1>5. \A w \in Videos : w # v => PairInv(w)'
  BY <1>1, <1>2 DEF TypeOK, Pairs, PairInv
<1>6. \A s \in Streams : ctx'[v][s] = "running"
  BY <1>1, <1>2 DEF TypeOK, Pairs, BothRun
<1>7. PairInv(v)'
  BY <1>1, <1>2, <1>3, <1>6 DEF PairInv
<1> QED
  BY <1>1, <1>2, <1>3, <1>4, <1>5, <1>7 DEF JoinInv, OutputInv

LEMMA PipeKeepsJoin ==
  ASSUME JoinInv, NEW v \in Videos, NEW s \in Streams, Pipe(v, s)
  PROVE  JoinInv'
<1>1. TypeOK /\ OutputInv /\ misuse = {} /\ \A w \in Videos : PairInv(w)
  BY DEF JoinInv
<1>2. PICK written \in {"part", "damaged"} :
        file' = [file EXCEPT ![v][s] = IF @ \in {"empty", "part"} THEN written ELSE @]
  BY DEF Pipe
<1>3. /\ ctx[v][s] = "running"
      /\ misuse' = misuse \cup (IF video[v] = "freed" THEN {"video"} ELSE {})
                          \cup (IF fd[v][s] # "open" THEN {"file"} ELSE {})
      /\ UNCHANGED <<is_debug, video, kind, ctx, is_done, fd, output, muxed>>
  BY DEF Pipe
<1>4. video[v] # "freed" /\ fd[v][s] = "open"
  BY <1>1, <1>3 DEF PairInv
<1>5. TypeOK'
  BY <1>1, <1>2, <1>3, <1>4 DEF TypeOK, Pairs
<1>6. \A w \in Videos : \A t \in Streams :
        file'[w][t] = "removed" <=> file[w][t] = "removed"
  BY <1>1, <1>2 DEF TypeOK, Pairs
<1>7. \A w \in Videos : PairInv(w)'
  BY <1>1, <1>3, <1>6 DEF PairInv
<1> QED
  BY <1>1, <1>3, <1>4, <1>5, <1>7 DEF JoinInv, OutputInv

LEMMA ContextKeepsJoin ==
  ASSUME JoinInv, NEW v \in Videos, NEW s \in Streams,
         Lost(v, s) \/ CloseCb(v, s)
  PROVE  JoinInv'
<1>1. TypeOK /\ OutputInv /\ misuse = {} /\ \A w \in Videos : PairInv(w)
  BY DEF JoinInv
<1>2. PICK c \in {"lost", "freed"} :
        /\ ctx' = [ctx EXCEPT ![v][s] = c]
        /\ c = "lost" => ctx[v][s] \in {"manifest", "running"}
        /\ c = "freed" => ctx[v][s] = "stopped"
  BY DEF Lost, CloseCb
<1>3. UNCHANGED <<is_debug, video, kind, is_done, fd, file, output, muxed, misuse>>
  BY DEF Lost, CloseCb
<1>4. TypeOK'
  BY <1>1, <1>2, <1>3 DEF TypeOK, Pairs
<1>5. \A w \in Videos : \A t \in Streams :
        ctx'[w][t] = IF w = v /\ t = s THEN c ELSE ctx[w][t]
  BY <1>1, <1>2 DEF TypeOK, Pairs
<1>6. ASSUME NEW w \in Videos PROVE PairInv(w)'
  BY <1>1, <1>2, <1>3, <1>5 DEF PairInv, Streams
<1> QED
  BY <1>1, <1>3, <1>4, <1>6 DEF JoinInv, OutputInv

(* One download of v is complete; the other one may still write to its     *)
(* file.                                                                   *)
LEMMA CompleteKeepsJoin ==
  ASSUME JoinInv, NEW v \in Videos, NEW s \in Streams, Complete(v, s),
         fd' = fd \/ fd' = [fd EXCEPT ![v][s] = "closed"]
  PROVE  JoinInv'
<1> DEFINE done == [is_done[v] EXCEPT ![s] = TRUE]
           files == [file[v] EXCEPT ![s] = IF @ = "damaged" THEN @ ELSE "whole"]
<1>1. TypeOK /\ OutputInv /\ misuse = {} /\ \A w \in Videos : PairInv(w)
  BY DEF JoinInv
<1>2. /\ ctx[v][s] = "running" /\ ctx' = [ctx EXCEPT ![v][s] = "stopped"]
      /\ misuse' = misuse \cup (IF video[v] = "freed" THEN {"video"} ELSE {})
      /\ is_debug' = is_debug /\ kind' = kind
  BY DEF Complete, ShutDown
<1>3. is_done' = [is_done EXCEPT ![v] = done]
  BY Zenon DEF Complete, FlagOf
<1>4. ~is_done[v][s] /\ video[v] # "freed" /\ video[v] # "none" /\ muxed[v] = 0
  BY <1>1, <1>2 DEF PairInv
<1>5. misuse' = {}
  BY <1>1, <1>2, <1>4
<1>6. done \in [Streams -> BOOLEAN] /\ done[s] = TRUE
      /\ \A t \in Streams : t # s => (done[t] <=> is_done[v][t])
  <2>1. is_done[v] \in [Streams -> BOOLEAN]
    BY <1>1 DEF TypeOK, Pairs
  <2> QED
    BY <2>1
<1>7. files \in [Streams -> {"none", "empty", "part", "whole", "damaged", "removed"}]
      /\ \A t \in Streams : files[t] # "removed"
  <2>1. file[v] \in [Streams -> {"none", "empty", "part", "whole", "damaged", "removed"}]
    BY <1>1 DEF TypeOK, Pairs
  <2>2. \A t \in Streams : file[v][t] # "removed"
    BY <1>1, <1>4 DEF PairInv
  <2> QED
    BY <2>1, <2>2
<1>8. /\ is_debug' \in BOOLEAN /\ kind' \in [Videos -> {"dash", "media"}]
      /\ ctx' \in Pairs({"none", "manifest", "running", "lost", "stopped", "freed"})
      /\ is_done' \in Pairs(BOOLEAN)
      /\ fd' \in Pairs({"none", "open", "closed"})
  <2>1. is_debug' \in BOOLEAN
    BY <1>1, <1>2, Zenon DEF TypeOK
  <2>2. is_done' \in Pairs(BOOLEAN)
    <3> HIDE DEF done
    <3>1. is_done \in [Videos -> [Streams -> BOOLEAN]]
      BY <1>1 DEF TypeOK, Pairs
    <3> QED
      BY <1>3, <1>6, <3>1 DEF Pairs
  <2>3. fd' \in Pairs({"none", "open", "closed"})
    <3>1. fd \in [Videos -> [Streams -> {"none", "open", "closed"}]]
      BY <1>1, Zenon DEF TypeOK, Pairs
    <3>2. fd' = fd => fd' \in [Videos -> [Streams -> {"none", "open", "closed"}]]
      BY <3>1
    <3>3. fd' = [fd EXCEPT ![v][s] = "closed"] =>
            fd' \in [Videos -> [Streams -> {"none", "open", "closed"}]]
      BY <3>1
    <3> QED
      BY <3>2, <3>3 DEF Pairs
  <2> QED
    BY <1>1, <1>2, <2>1, <2>2, <2>3 DEF TypeOK, Pairs
<1>9. /\ \A w \in Videos : \A t \in Streams :
           ctx'[w][t] = IF w = v /\ t = s THEN "stopped" ELSE ctx[w][t]
      /\ \A w \in Videos : \A t \in Streams :
           ~(w = v /\ t = s) => fd'[w][t] = fd[w][t]
  BY <1>1, <1>2 DEF TypeOK, Pairs
<1>10. \A w \in Videos : \A t \in Streams :
         /\ w = v => (is_done'[w][t] <=> done[t])
         /\ w # v => (is_done'[w][t] <=> is_done[w][t])
  <2> HIDE DEF done
  <2>1. is_done \in [Videos -> [Streams -> BOOLEAN]]
    BY <1>1 DEF TypeOK, Pairs
  <2> QED
    BY <1>3, <2>1
<1>11. ctx[v]["audio"] # "manifest" /\ ctx[v]["video"] # "manifest"
  BY <1>1, <1>2 DEF PairInv, Streams
<1> HIDE DEF done, files
<1>12. \A t \in Streams : done[t] <=> ctx'[v][t] \in {"stopped", "freed"}
  BY <1>1, <1>6, <1>9 DEF PairInv
<1>13. CASE Both(done)
  <2>1. ytdl__mux_and_free(v, files)
    BY <1>13, Zenon DEF Complete, done, files, FlagOf
  <2>2. /\ muxed' = [muxed EXCEPT ![v] = @ + 1]
        /\ video' = [video EXCEPT ![v] = "freed"]
        /\ file' = [file EXCEPT ![v] = Unlinked(files)]
        /\ output' \in ytdl_mux_files(files)
    BY <2>1 DEF ytdl__mux_and_free
  <2>3. output' \in [made : BOOLEAN, packets : Seq(OutPackets)]
        /\ KeepsPace(output'.packets) /\ InOrder(output'.packets)
    BY <2>2, MuxFacts
  <2>4. Unlinked(files) \in
          [Streams -> {"none", "empty", "part", "whole", "damaged", "removed"}]
        /\ \A t \in Streams : Unlinked(files)[t] = "removed" <=> ~is_debug
    BY <1>7 DEF Unlinked
  <2>5. /\ muxed' \in [Videos -> 0..1] /\ muxed'[v] = 1
        /\ \A w \in Videos : w # v => muxed'[w] = muxed[w]
    BY <1>1, <1>4, <2>2 DEF TypeOK
  <2>6. /\ video' \in [Videos -> {"none", "live", "freed"}] /\ video'[v] = "freed"
        /\ \A w \in Videos : w # v => video'[w] = video[w]
    BY <1>1, <2>2 DEF TypeOK
  <2>7. /\ file' \in Pairs({"none", "empty", "part", "whole", "damaged", "removed"})
        /\ file'[v] = Unlinked(files)
        /\ \A w \in Videos : w # v => file'[w] = file[w]
    BY <1>1, <2>2, <2>4 DEF TypeOK, Pairs
  <2>8. TypeOK'
    BY <1>5, <1>8, <2>3, <2>5, <2>6, <2>7 DEF TypeOK
  <2>9. OutputInv'
    BY <2>3, <2>5 DEF OutputInv, KeepsPace, InOrder
  <2>10. PairInv(v)'
    BY <1>1, <1>2, <1>9, <1>10, <1>11, <1>12, <1>13, <2>4, <2>5, <2>6, <2>7
    DEF PairInv, Both, Streams
  <2>11. ASSUME NEW w \in Videos, w # v PROVE PairInv(w)'
    BY <1>1, <1>2, <1>9, <1>10, <2>5, <2>6, <2>7, <2>11 DEF PairInv
  <2> QED
    BY <1>5, <2>8, <2>9, <2>10, <2>11 DEF JoinInv
<1>14. CASE ~Both(done)
  <2>1. /\ file' = [file EXCEPT ![v] = files]
        /\ video' = video /\ output' = output /\ muxed' = muxed
    BY <1>14, Zenon DEF Complete, done, files, FlagOf
  <2>2. /\ file' \in Pairs({"none", "empty", "part", "whole", "damaged", "removed"})
        /\ file'[v] = files
        /\ \A w \in Videos : w # v => file'[w] = file[w]
    BY <1>1, <1>7, <2>1 DEF TypeOK, Pairs
  <2>3. TypeOK'
    BY <1>1, <1>5, <1>8, <2>1, <2>2 DEF TypeOK
  <2>4. OutputInv'
    BY <1>1, <2>1 DEF OutputInv
  <2>5. PairInv(v)'
    BY <1>1, <1>2, <1>4, <1>7, <1>9, <1>10, <1>11, <1>12, <2>1, <2>2
    DEF PairInv, Streams
  <2>6. ASSUME NEW w \in Videos, w # v PROVE PairInv(w)'
    BY <1>1, <1>2, <1>9, <1>10, <2>1, <2>2, <2>6 DEF PairInv
  <2> QED
    BY <1>5, <2>3, <2>4, <2>5, <2>6 DEF JoinInv
<1> QED
  BY <1>13, <1>14

LEMMA JoinStep == JoinInv /\ [Next]_vars => JoinInv'
<1> SUFFICES ASSUME JoinInv, [Next]_vars PROVE JoinInv'
  OBVIOUS
<1>1. CASE UNCHANGED vars
  BY <1>1 DEF vars, JoinInv, TypeOK, OutputInv, PairInv
<1>2. ASSUME NEW v \in Videos, ytdl__info_complete(v) PROVE JoinInv'
  BY <1>2, InfoKeepsJoin
<1>3. ASSUME NEW v \in Videos, ytdl__dash_manifest_done(v) PROVE JoinInv'
  BY <1>3, ManifestKeepsJoin
<1>4. ASSUME NEW v \in Videos, NEW s \in Streams,
             ytdl__dash_pipe(v, s) \/ ytdl__media_pipe(v, s)
      PROVE  JoinInv'
  BY <1>4, PipeKeepsJoin DEF ytdl__dash_pipe, ytdl__media_pipe
<1>5. ASSUME NEW v \in Videos, NEW s \in Streams, Lost(v, s) PROVE JoinInv'
  BY <1>5, ContextKeepsJoin
<1>6. ASSUME NEW v \in Videos, NEW s \in Streams, DownloadStep(v, s) PROVE JoinInv'
  <2>1. CASE ytdl__dash_complete(v, s)
    BY <2>1, CompleteKeepsJoin DEF ytdl__dash_complete
  <2>2. CASE ytdl__media_complete(v, s)
    BY <2>2, CompleteKeepsJoin DEF ytdl__media_complete
  <2>3. CASE ytdl__dash_close_cb(v, s)
    BY <2>3, ContextKeepsJoin DEF ytdl__dash_close_cb
  <2>4. CASE ytdl__media_close_cb(v, s)
    BY <2>4, ContextKeepsJoin DEF ytdl__media_close_cb
  <2> QED
    BY <1>6, <2>1, <2>2, <2>3, <2>4 DEF DownloadStep
<1> QED
  BY <1>1, <1>2, <1>3, <1>4, <1>5, <1>6 DEF Next

LEMMA JoinInvariant == Spec => []JoinInv
<1>1. Init => JoinInv
  BY JoinInit
<1>2. JoinInv /\ [Next]_vars => JoinInv'
  BY JoinStep
<1> QED
  BY <1>1, <1>2, PTL DEF Spec

-----------------------------------------------------------------------------
(* The results.                                                            *)

(* The loop of ytdl_mux_files ends, with both streams read to their ends   *)
(* and every packet that could be read written, after one round for each   *)
(* packet and one for each end.                                            *)
THEOREM MuxLoopEnds ==
  ASSUME NEW ends \in AllEnds
  PROVE  \A s \in Streams : ~Loop(ends).encode[s] /\ Loop(ends).at[s] = ends[s]
<1>1. Loop(ends) \in LoopStates(ends) /\ AllEnded(Loop(ends))
  BY LoopFacts
<1> QED
  BY <1>1 DEF LoopStates, LoopInv, AllEnded

(* ytdl__mux_and_free: one call of the muxer for a video, made when both   *)
(* downloads are complete, and the temporary files removed by it alone.    *)
THEOREM MuxesOnce == Spec => []MuxedOnceComplete
<1>1. JoinInv => MuxedOnceComplete
  <2> SUFFICES ASSUME JoinInv PROVE MuxedOnceComplete
    OBVIOUS
  <2>1. TypeOK /\ \A v \in Videos : PairInv(v)
    BY DEF JoinInv
  <2>2. ASSUME NEW v \in Videos
        PROVE  /\ muxed[v] = 1 => \A s \in Streams : ctx[v][s] \in {"stopped", "freed"}
               /\ \A s \in Streams :
                    file[v][s] = "removed" <=> (muxed[v] = 1 /\ ~is_debug)
    BY <2>1 DEF PairInv
  <2> QED
    BY <2>1, <2>2 DEF MuxedOnceComplete
<1> QED
  BY <1>1, JoinInvariant, PTL

(* ytdl_mux_files: whatever it makes of the files of a video keeps the     *)
(* packets of each stream in order and neither stream runs away.           *)
THEOREM MuxesInPace == Spec => []MuxedInPace
<1>1. JoinInv => MuxedInPace
  BY DEF JoinInv, OutputInv, MuxedInPace
<1> QED
  BY <1>1, JoinInvariant, PTL

(* src/cli.c: whichever download is complete last frees the video, and     *)
(* neither uses it or a closed file again.                                 *)
THEOREM SharedVideoIsSafe == Spec => []NoUseAfterFree
<1>1. JoinInv => NoUseAfterFree
  BY DEF JoinInv, NoUseAfterFree
<1> QED
  BY <1>1, JoinInvariant, PTL
=============================================================================
