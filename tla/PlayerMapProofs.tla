-------------------------- MODULE PlayerMapProofs --------------------------
(***************************************************************************)
(* Proofs about PlayerMap, for any keys, hash functions and capacities.    *)
(* Sound says what linear probing needs of a table, MapInv what the map    *)
(* keeps, and VisitInv what an iteration does.                             *)
(***************************************************************************)
EXTENDS PlayerMap, Integers, NaturalsInduction, WellFoundedInduction,
        FiniteSetTheorems, TLAPS

-----------------------------------------------------------------------------
(* Loops.                                                                  *)

(* The least number of a set, and induction for sets of numbers.           *)
LEMMA NatMin ==
  ASSUME NEW T, T \subseteq Nat, T # {}
  PROVE  \E m \in T : \A n \in T : m <= n
<1> DEFINE R == OpToRel(<, Nat)
<1>1. IsWellFoundedOn(R, Nat)
  BY NatLessThanWellFounded
<1>2. PICK m \in T : \A n \in T : ~(<<n, m>> \in R)
  <2> HIDE DEF R
  <2> QED
    BY <1>1, WFMin, Zenon
<1>3. \A n \in T : m <= n
  <2> TAKE n \in T
  <2>1. ~(n < m)
    BY <1>2 DEF OpToRel
  <2> QED
    BY <2>1
<1> QED
  BY <1>3

LEMMA NatInd ==
  ASSUME NEW S, 0 \in S, \A n \in Nat : n \in S => n + 1 \in S
  PROVE  \A n \in Nat : n \in S
<1> DEFINE T == {n \in Nat : n \notin S}
<1> SUFFICES ASSUME T # {} PROVE FALSE
  OBVIOUS
<1>1. PICK m \in T : \A n \in T : m <= n
  <2> HIDE DEF T
  <2>1. T \subseteq Nat
    BY DEF T
  <2> QED
    BY <2>1, NatMin
<1>2. m # 0 /\ m - 1 \in Nat /\ m - 1 \notin T
  BY <1>1
<1> QED
  BY <1>2

(* A function on 0..N whose value at n depends on n and on its value       *)
(* before.                                                                 *)
Recursion(S, b, N, F) ==
  {g \in [0..N -> S] : g[0] = b /\ \A n \in 1..N : g[n] = F[n][g[n - 1]]}

LEMMA Recursed ==
  ASSUME NEW S, NEW b \in S, NEW N \in Nat, NEW F \in [1..N -> [S -> S]]
  PROVE  Recursion(S, b, N, F) # {}
<1> DEFINE Upto(n) == {g \in [0..n -> S] :
                         g[0] = b /\ \A k \in 1..n : g[k] = F[k][g[k - 1]]}
           I == {n \in Nat : n <= N => Upto(n) # {}}
<1>1. 0 \in I
  <2>1. [k \in 0..0 |-> b] \in Upto(0)
    OBVIOUS
  <2> QED
    BY <2>1
<1>2. ASSUME NEW n \in Nat, n \in I PROVE n + 1 \in I
  <2>1. SUFFICES ASSUME n + 1 <= N PROVE Upto(n + 1) # {}
    OBVIOUS
  <2>2. PICK g \in [0..n -> S] : g[0] = b /\ \A k \in 1..n : g[k] = F[k][g[k - 1]]
    BY <1>2, <2>1
  <2> DEFINE h == [k \in 0..n + 1 |-> IF k <= n THEN g[k] ELSE F[n + 1][g[n]]]
  <2>3. n + 1 \in 1..N /\ F[n + 1] \in [S -> S] /\ g[n] \in S
    BY <2>1, <2>2
  <2>4. h \in [0..n + 1 -> S] /\ h[0] = b
    BY <2>2, <2>3
  <2>5. ASSUME NEW k \in 1..n + 1 PROVE h[k] = F[k][h[k - 1]]
    <3>1. CASE k = n + 1
      <4>1. h[k] = F[n + 1][g[n]] /\ h[k - 1] = g[n]
        BY <3>1
      <4> QED
        BY <3>1, <4>1
    <3>2. CASE k # n + 1
      <4>1. k \in 1..n /\ h[k] = g[k] /\ h[k - 1] = g[k - 1]
        BY <3>2
      <4> QED
        BY <2>2, <4>1
    <3> QED
      BY <3>1, <3>2
  <2>6. h \in Upto(n + 1)
    BY <2>4, <2>5
  <2> QED
    BY <2>6
<1>3. \A n \in Nat : n \in I
  <2> HIDE DEF I
  <2> QED
    BY <1>1, <1>2, NatInd
<1>4. Upto(N) # {}
  <2> HIDE DEF Upto
  <2>1. N \in I
    <3> HIDE DEF I
    <3> QED
      BY <1>3
  <2> QED
    BY <2>1
<1> QED
  BY <1>4 DEF Recursion

-----------------------------------------------------------------------------

Occupied(t) == {i \in DOMAIN t : t[i] # Empty}
EntriesOf(t) == {t[i] : i \in Occupied(t)}

(* The slot at which the search for the entry in slot i begins.            *)
Home(t, i) == hashmap_calc_index(t, t[i].key)

IsTable(t) == /\ table_size(t) \in Nat
              /\ t \in [0..table_size(t) - 1 -> Entries \cup {Empty}]

Unique(t) == \A i, j \in Occupied(t) : t[i].key = t[j].key => i = j

(* No search ends in front of the entry it is for.                         *)
Reachable(t) ==
  \A i \in Occupied(t) : \A q \in DOMAIN t :
    Distance(t, Home(t, i), q) < Distance(t, Home(t, i), i) => t[q] # Empty

(* No search for an entry comes by the slot c, unless it begins there: the *)
(* table may be cut open in front of c.                                    *)
Uncrossed(t, c) ==
  \A i \in Occupied(t) : Distance(t, c, Home(t, i)) <= Distance(t, c, i)

Sound(t) == /\ IsTable(t) /\ Unique(t) /\ Reachable(t)
            /\ DOMAIN t # {} => \E c \in DOMAIN t : Uncrossed(t, c)

(* What was reserved fits into the table and into the one it is reset to.  *)
ReservedInv ==
  reserved > 0 => Needed(reserved) <= table_size_init
                  /\ table_size_init <= table_size(table)

MapInv ==
  /\ TypeOK /\ Sound(table)
  /\ reserved \in Nat
  /\ IsInit => table_size_init >= 4
  /\ ReservedInv

-----------------------------------------------------------------------------
(* The circle of slots.                                                    *)

Ahead(n, a, b) == IF a <= b THEN b - a ELSE b - a + n

LEMMA CircleFacts ==
  ASSUME NEW n \in Nat \ {0}
  PROVE  /\ \A x \in Int : x % n \in 0..n - 1
         /\ \A a, b \in 0..n - 1 : (b - a) % n = Ahead(n, a, b)
         /\ \A a \in 0..n - 1, d \in 0..n :
              (a + d) % n = IF a + d < n THEN a + d ELSE a + d - n
<1>1. \A x \in 0..n - 1 : x % n = x
  OBVIOUS
<1>2. \A x \in n..2 * n - 1 : x % n = x - n
  OBVIOUS
<1>3. \A x \in (-n)..(-1) : x % n = x + n
  OBVIOUS
<1>4. \A x \in Int : x % n \in 0..n - 1
  OBVIOUS
<1>5. ASSUME NEW a \in 0..n - 1, NEW b \in 0..n - 1
      PROVE  (b - a) % n = Ahead(n, a, b)
  <2>1. CASE a <= b
    <3>1. b - a \in 0..n - 1
      BY <2>1
    <3> QED
      BY <1>1, <2>1, <3>1 DEF Ahead
  <2>2. CASE ~(a <= b)
    <3>1. b - a \in (-n)..(-1)
      BY <2>2
    <3> QED
      BY <1>3, <2>2, <3>1 DEF Ahead
  <2> QED
    BY <2>1, <2>2
<1>6. ASSUME NEW a \in 0..n - 1, NEW d \in 0..n
      PROVE  (a + d) % n = IF a + d < n THEN a + d ELSE a + d - n
  <2>1. CASE a + d < n
    <3>1. a + d \in 0..n - 1
      BY <2>1
    <3> QED
      BY <1>1, <2>1, <3>1
  <2>2. CASE ~(a + d < n)
    <3>1. a + d \in n..2 * n - 1
      BY <2>2
    <3> QED
      BY <1>2, <2>2, <3>1
  <2> QED
    BY <2>1, <2>2
<1> QED
  BY <1>4, <1>5, <1>6

(* What lies between two slots, seen from a cut that is not crossed.       *)
LEMMA FromCut ==
  ASSUME NEW n \in Nat \ {0}, NEW c \in 0..n - 1, NEW h \in 0..n - 1,
         NEW x \in 0..n - 1, NEW q \in 0..n - 1,
         Ahead(n, c, h) <= Ahead(n, c, x)
  PROVE  /\ Ahead(n, h, x) = Ahead(n, c, x) - Ahead(n, c, h)
         /\ Ahead(n, h, q) < Ahead(n, h, x) <=>
              Ahead(n, c, h) <= Ahead(n, c, q) /\ Ahead(n, c, q) < Ahead(n, c, x)
BY DEF Ahead

(* A way that does not come by the slot e does not cross the cut behind.   *)
LEMMA CutBehind ==
  ASSUME NEW n \in Nat \ {0}, NEW e \in 0..n - 1, NEW c \in 0..n - 1,
         c = IF e + 1 < n THEN e + 1 ELSE 0,
         NEW h \in 0..n - 1, NEW x \in 0..n - 1,
         x = e \/ ~(Ahead(n, h, e) < Ahead(n, h, x))
  PROVE  Ahead(n, c, h) <= Ahead(n, c, x)
BY DEF Ahead

LEMMA SameSlot ==
  ASSUME NEW n \in Nat \ {0}, NEW c \in 0..n - 1, NEW x \in 0..n - 1,
         NEW y \in 0..n - 1, Ahead(n, c, x) = Ahead(n, c, y)
  PROVE  x = y
BY DEF Ahead

-----------------------------------------------------------------------------
(* Tables and searches.                                                    *)

LEMMA EntryFacts ==
  \A e \in Entries \cup {Empty} :
    /\ e.key = NULL <=> e = Empty
    /\ e # Empty => /\ e \in Entries /\ e.key \in Keys /\ e.key # NULL
                    /\ e.data \in Data /\ e.data # NULL
<1>1. NULL \notin Keys /\ NULL \notin Data
  BY MapAssumption DEF Data
<1>2. Empty.key = NULL
  BY DEF Empty
<1>3. ASSUME NEW e \in Entries
      PROVE  e.key \in Keys /\ e.data \in Data
  BY DEF Entries
<1> QED
  BY <1>1, <1>2, <1>3

LEMMA SizeFacts ==
  ASSUME NEW n \in Nat, NEW t \in [0..n - 1 -> Entries \cup {Empty}]
  PROVE  table_size(t) = n /\ IsTable(t) /\ DOMAIN t = 0..n - 1
<1>1. Cardinality(0..n - 1) = n
  <2>1. Cardinality(0..n - 1) = IF 0 > n - 1 THEN 0 ELSE n - 1 - 0 + 1
    BY FS_Interval
  <2> QED
    BY <2>1
<1>2. table_size(t) = n
  BY <1>1 DEF table_size
<1> QED
  BY <1>2 DEF IsTable

LEMMA TableFacts ==
  ASSUME hash \in Hashes, NEW t, IsTable(t)
  PROVE  /\ table_size(t) \in Nat /\ DOMAIN t = 0..table_size(t) - 1
         /\ \A i \in DOMAIN t :
              /\ t[i] \in Entries \cup {Empty}
              /\ t[i].key = NULL <=> t[i] = Empty
         /\ \A i \in Occupied(t) :
              /\ i \in DOMAIN t /\ t[i] # Empty /\ t[i] \in Entries
              /\ t[i].key \in Keys /\ t[i].key # NULL
              /\ t[i].data \in Data /\ t[i].data # NULL
              /\ Home(t, i) \in DOMAIN t
         /\ DOMAIN t # {} => table_size(t) \in Nat \ {0}
         /\ \A k \in Keys : DOMAIN t # {} => hashmap_calc_index(t, k) \in DOMAIN t
<1> DEFINE n == table_size(t)
<1>1. n \in Nat /\ DOMAIN t = 0..n - 1
      /\ \A i \in DOMAIN t : t[i] \in Entries \cup {Empty}
  BY DEF IsTable
<1> HIDE DEF n
<1>2. \A i \in DOMAIN t : t[i].key = NULL <=> t[i] = Empty
  BY <1>1, EntryFacts
<1>3. \A i \in Occupied(t) :
        /\ i \in DOMAIN t /\ t[i] # Empty /\ t[i] \in Entries
        /\ t[i].key \in Keys /\ t[i].key # NULL
        /\ t[i].data \in Data /\ t[i].data # NULL
  BY <1>1, EntryFacts DEF Occupied
<1>4. DOMAIN t # {} => n \in Nat \ {0}
  BY <1>1
<1>5. \A k \in Keys : DOMAIN t # {} => hashmap_calc_index(t, k) \in DOMAIN t
  <2>1. \A k \in Keys : hash[k] \in Int
    BY MapAssumption
  <2> QED
    BY <1>1, <1>4, <2>1, CircleFacts DEF hashmap_calc_index, n
<1>6. \A i \in Occupied(t) : Home(t, i) \in DOMAIN t
  BY <1>3, <1>5 DEF Home
<1> QED
  BY <1>1, <1>2, <1>3, <1>4, <1>5, <1>6 DEF n

LEMMA DistanceFacts ==
  ASSUME hash \in Hashes, NEW t, IsTable(t), DOMAIN t # {}
  PROVE  /\ \A a, b \in DOMAIN t : Distance(t, a, b) = Ahead(table_size(t), a, b)
         /\ \A a, b \in DOMAIN t : Distance(t, a, b) \in DOMAIN t
<1> DEFINE n == table_size(t)
<1>1. n \in Nat \ {0} /\ DOMAIN t = 0..n - 1
  BY TableFacts
<1>2. \A a, b \in 0..n - 1 : Distance(t, a, b) = (b - a) % n
  BY DEF Distance
<1> HIDE DEF n
<1>3. \A a, b \in 0..n - 1 : (b - a) % n = Ahead(n, a, b)
  BY <1>1, CircleFacts
<1>4. \A a, b \in 0..n - 1 : Ahead(n, a, b) \in 0..n - 1
  BY <1>1 DEF Ahead
<1> QED
  BY <1>1, <1>2, <1>3, <1>4 DEF n

LEMMA ProbeFacts ==
  ASSUME hash \in Hashes, NEW t, IsTable(t), DOMAIN t # {}, NEW k \in Keys
  PROVE  LET h == hashmap_calc_index(t, k) IN
         /\ \A d \in DOMAIN t : Probe(t, k, d) \in DOMAIN t
                                /\ Distance(t, h, Probe(t, k, d)) = d
         /\ \A q \in DOMAIN t : Probe(t, k, Distance(t, h, q)) = q
<1> DEFINE n == table_size(t)
           h == hashmap_calc_index(t, k)
<1>1. n \in Nat \ {0} /\ DOMAIN t = 0..n - 1 /\ h \in 0..n - 1
  BY TableFacts
<1>2. \A d \in 0..n - 1 : Probe(t, k, d) = IF h + d < n THEN h + d ELSE h + d - n
  <2>1. \A d \in 0..n - 1 : Probe(t, k, d) = (h + d) % n
    BY DEF Probe
  <2> HIDE DEF n, h
  <2>2. \A a \in 0..n - 1, d \in 0..n :
          (a + d) % n = IF a + d < n THEN a + d ELSE a + d - n
    BY <1>1, CircleFacts
  <2> TAKE d \in 0..n - 1
  <2>3. h \in 0..n - 1 /\ d \in 0..n
    BY <1>1
  <2>4. (h + d) % n = IF h + d < n THEN h + d ELSE h + d - n
    BY <2>2, <2>3, Zenon
  <2> QED
    BY <2>1, <2>4, Zenon
<1>3. /\ \A a, b \in 0..n - 1 : Distance(t, a, b) = Ahead(n, a, b)
      /\ \A a, b \in 0..n - 1 : Distance(t, a, b) \in 0..n - 1
  BY <1>1, DistanceFacts
<1> HIDE DEF n, h
<1>4. ASSUME NEW d \in 0..n - 1
      PROVE  Probe(t, k, d) \in 0..n - 1 /\ Distance(t, h, Probe(t, k, d)) = d
  <2>1. Probe(t, k, d) \in 0..n - 1
    BY <1>1, <1>2
  <2>2. Distance(t, h, Probe(t, k, d)) = Ahead(n, h, Probe(t, k, d))
    BY <1>1, <1>3, <2>1
  <2> QED
    BY <1>1, <1>2, <2>1, <2>2 DEF Ahead
<1>5. ASSUME NEW q \in 0..n - 1 PROVE Probe(t, k, Distance(t, h, q)) = q
  <2>1. Distance(t, h, q) = Ahead(n, h, q) /\ Distance(t, h, q) \in 0..n - 1
    BY <1>1, <1>3
  <2> QED
    BY <1>1, <1>2, <2>1 DEF Ahead
<1> QED
  BY <1>1, <1>4, <1>5 DEF h

(* A search ends at the first slot that has the key or is empty.           *)
LEMMA FindFacts ==
  ASSUME hash \in Hashes, NEW t, IsTable(t), NEW k \in Keys
  PROVE  LET f == hashmap_entry_find(t, k)
             h == hashmap_calc_index(t, k)
         IN  /\ f = NotFound => \A i \in DOMAIN t : t[i].key # k /\ t[i] # Empty
             /\ f # NotFound =>
                  /\ f \in DOMAIN t /\ (t[f].key = k \/ t[f] = Empty)
                  /\ \A q \in DOMAIN t : Distance(t, h, q) < Distance(t, h, f) =>
                       t[q].key # k /\ t[q] # Empty
<1> DEFINE f == hashmap_entry_find(t, k)
           h == hashmap_calc_index(t, k)
           ends == {i \in DOMAIN t : t[Probe(t, k, i)].key \in {k, NULL}}
           j == CHOOSE i \in ends : \A o \in ends : i <= o
<1>1. f = IF ends = {} THEN NotFound ELSE Probe(t, k, j)
  BY DEF hashmap_entry_find
<1>2. CASE DOMAIN t = {}
  <2>1. ends = {}
    BY <1>2
  <2> QED
    BY <1>1, <1>2, <2>1
<1>3. CASE DOMAIN t # {}
  <2>1. /\ DOMAIN t \subseteq Nat /\ h \in DOMAIN t
        /\ \A q \in DOMAIN t : t[q].key = NULL <=> t[q] = Empty
    BY <1>3, TableFacts
  <2>2. /\ \A d \in DOMAIN t : Probe(t, k, d) \in DOMAIN t
                               /\ Distance(t, h, Probe(t, k, d)) = d
        /\ \A q \in DOMAIN t : Probe(t, k, Distance(t, h, q)) = q
    BY <1>3, ProbeFacts
  <2>3. \A q \in DOMAIN t : Distance(t, h, q) \in DOMAIN t
    BY <1>3, <2>1, DistanceFacts
  <2> HIDE DEF h
  <2>4. \A q \in DOMAIN t : t[q].key = k \/ t[q] = Empty =>
          Distance(t, h, q) \in ends
    BY <2>1, <2>2, <2>3
  <2>5. CASE ends = {}
    <3>1. f = NotFound
      BY <1>1, <2>5
    <3> HIDE DEF f, ends
    <3> QED
      BY <2>4, <2>5, <3>1 DEF f
  <2>6. CASE ends # {}
    <3>1. j \in ends /\ \A o \in ends : j <= o
      <4>1. ends \subseteq Nat
        BY <2>1
      <4> HIDE DEF ends
      <4>2. \E i \in ends : \A o \in ends : i <= o
        BY <2>6, <4>1, NatMin
      <4> QED
        BY <4>2
    <3>2. f = Probe(t, k, j)
      BY <1>1, <2>6
    <3>3. j \in DOMAIN t /\ t[f].key \in {k, NULL}
      BY <3>1, <3>2
    <3> HIDE DEF j
    <3>4. f \in DOMAIN t /\ Distance(t, h, f) = j
      BY <2>2, <3>2, <3>3
    <3>5. t[f].key = k \/ t[f] = Empty
      BY <2>1, <3>3, <3>4
    <3>6. ASSUME NEW q \in DOMAIN t, Distance(t, h, q) < Distance(t, h, f)
          PROVE  t[q].key # k /\ t[q] # Empty
      <4>1. Distance(t, h, q) \notin ends
        <5>1. Distance(t, h, q) \in Nat /\ j \in Nat
          BY <2>1, <2>3, <3>3
        <5>2. ~(j <= Distance(t, h, q))
          BY <3>4, <3>6, <5>1
        <5> QED
          BY <3>1, <5>2
      <4> HIDE DEF ends
      <4> QED
        BY <2>4, <4>1
    <3>7. f # NotFound
      BY <2>1, <3>4 DEF NotFound
    <3> HIDE DEF f
    <3> QED
      BY <3>4, <3>5, <3>6, <3>7 DEF f, h
  <2> QED
    BY <2>5, <2>6
<1> QED
  BY <1>2, <1>3

LEMMA KeyFacts ==
  ASSUME hash \in Hashes, NEW t, IsTable(t)
  PROVE  /\ KeysOf(t) = {t[i].key : i \in Occupied(t)}
         /\ KeysOf(t) = {e.key : e \in EntriesOf(t)}
         /\ KeysOf(t) \subseteq Keys
BY TableFacts DEF KeysOf, Occupied, EntriesOf

(* In a sound table a search finds the entry, if there is one.             *)
LEMMA FoundFacts ==
  ASSUME hash \in Hashes, NEW t, Sound(t), NEW k \in Keys
  PROVE  LET f == hashmap_entry_find(t, k)
             h == hashmap_calc_index(t, k)
         IN  /\ k \in KeysOf(t) =>
                  f # NotFound /\ IsAt(t, f) /\ f \in Occupied(t) /\ t[f].key = k
             /\ k \notin KeysOf(t) =>
                  /\ ~IsAt(t, f)
                  /\ f = NotFound => \A i \in DOMAIN t : t[i] # Empty
                  /\ f # NotFound =>
                       /\ f \in DOMAIN t /\ t[f] = Empty
                       /\ \A q \in DOMAIN t :
                            Distance(t, h, q) < Distance(t, h, f) => t[q] # Empty
<1> DEFINE f == hashmap_entry_find(t, k)
           h == hashmap_calc_index(t, k)
<1>1. IsTable(t) /\ Unique(t) /\ Reachable(t)
  BY DEF Sound
<1>2. /\ f = NotFound => \A i \in DOMAIN t : t[i].key # k /\ t[i] # Empty
      /\ f # NotFound =>
           /\ f \in DOMAIN t /\ (t[f].key = k \/ t[f] = Empty)
           /\ \A q \in DOMAIN t : Distance(t, h, q) < Distance(t, h, f) =>
                t[q].key # k /\ t[q] # Empty
  BY <1>1, FindFacts
<1>3. KeysOf(t) = {t[i].key : i \in Occupied(t)}
  BY <1>1, KeyFacts
<1>4. \A i \in DOMAIN t : t[i].key = NULL <=> t[i] = Empty
  BY <1>1, TableFacts
<1>5. NULL \notin Keys
  BY MapAssumption
<1> HIDE DEF f
<1>6. CASE k \in KeysOf(t)
  <2>1. PICK i \in Occupied(t) : t[i].key = k
    BY <1>3, <1>6
  <2>2. i \in DOMAIN t /\ t[i] # Empty /\ Home(t, i) = h
    BY <2>1 DEF Occupied, Home
  <2>3. f # NotFound /\ f \in DOMAIN t
    BY <1>2, <2>1, <2>2
  <2>4. CASE t[f] = Empty
    <3>1. h \in DOMAIN t /\ DOMAIN t # {}
      BY <1>1, <2>2, TableFacts
    <3> DEFINE n == table_size(t)
    <3>2. n \in Nat \ {0} /\ DOMAIN t = 0..n - 1
      BY <1>1, <3>1, TableFacts
    <3>3. /\ Distance(t, h, f) = Ahead(n, h, f) /\ Distance(t, h, i) = Ahead(n, h, i)
          /\ Distance(t, h, f) \in DOMAIN t /\ Distance(t, h, i) \in DOMAIN t
      BY <1>1, <2>2, <2>3, <3>1, DistanceFacts
    <3>4. ~(Distance(t, h, f) < Distance(t, h, i))
      BY <1>1, <2>1, <2>2, <2>3, <2>4 DEF Reachable
    <3>5. ~(Distance(t, h, i) < Distance(t, h, f))
      BY <1>2, <2>1, <2>2, <2>3
    <3> HIDE DEF n, h
    <3>6. Ahead(n, h, f) = Ahead(n, h, i)
      BY <3>2, <3>3, <3>4, <3>5
    <3>7. f = i
      BY <2>2, <2>3, <3>1, <3>2, <3>6, SameSlot
    <3> QED
      BY <2>2, <2>4, <3>7
  <2>5. CASE t[f] # Empty
    <3>1. t[f].key = k /\ f \in Occupied(t) /\ IsAt(t, f)
      BY <1>2, <2>3, <2>5 DEF Occupied, IsAt
    <3> QED
      BY <1>6, <2>3, <3>1 DEF f
  <2> QED
    BY <2>4, <2>5
<1>7. CASE k \notin KeysOf(t)
  <2>1. \A i \in DOMAIN t : t[i].key # k
    BY <1>5, <1>7 DEF KeysOf
  <2>2. f # NotFound => f \in DOMAIN t /\ t[f] = Empty
    BY <1>2, <2>1
  <2>3. ~IsAt(t, f)
    BY <2>2 DEF IsAt
  <2> QED
    BY <1>2, <1>7, <2>2, <2>3 DEF f
<1> QED
  BY <1>6, <1>7

(* An entry is stored where its search ends.                               *)
LEMMA StoreFacts ==
  ASSUME hash \in Hashes, NEW t, Sound(t), NEW e \in Entries, e.key \notin KeysOf(t),
         hashmap_entry_find(t, e.key) # NotFound
  PROVE  LET f == hashmap_entry_find(t, e.key)
             u == [t EXCEPT ![f] = e]
         IN  /\ Sound(u) /\ table_size(u) = table_size(t)
             /\ f \in DOMAIN t /\ f \notin Occupied(t)
             /\ Occupied(u) = Occupied(t) \cup {f}
             /\ EntriesOf(u) = EntriesOf(t) \cup {e}
<1> DEFINE f == hashmap_entry_find(t, e.key)
           u == [t EXCEPT ![f] = e]
           n == table_size(t)
           k == e.key
           h == hashmap_calc_index(t, k)
<1>1. IsTable(t) /\ Unique(t) /\ Reachable(t)
  BY DEF Sound
<1>2. e \in Entries /\ k \in Keys /\ e # Empty
  <2>1. k \in Keys /\ k # NULL
    BY MapAssumption DEF Entries
  <2> HIDE DEF k
  <2>2. e # Empty
    BY <2>1, EntryFacts DEF k
  <2> QED
    BY <2>1, <2>2
<1>3. /\ f \in DOMAIN t /\ t[f] = Empty
      /\ \A q \in DOMAIN t : Distance(t, h, q) < Distance(t, h, f) => t[q] # Empty
  BY <1>2, FoundFacts
<1>4. n \in Nat \ {0} /\ DOMAIN t = 0..n - 1 /\ h \in DOMAIN t
      /\ \A i \in Occupied(t) : Home(t, i) \in DOMAIN t /\ t[i].key \in KeysOf(t)
  BY <1>1, <1>2, <1>3, TableFacts, KeyFacts
<1> HIDE DEF f, n
<1>5. u \in [0..n - 1 -> Entries \cup {Empty}]
  BY <1>1, <1>2, <1>4 DEF IsTable, n
<1>6. table_size(u) = n /\ IsTable(u) /\ DOMAIN u = 0..n - 1
  BY <1>4, <1>5, SizeFacts
<1>7. /\ u[f] = e /\ \A i \in 0..n - 1 : i # f => u[i] = t[i]
      /\ \A i \in 0..n - 1 : t[i] # Empty => u[i] # Empty
  BY <1>2, <1>3, <1>4
<1> HIDE DEF u, h
<1>8. Occupied(u) = Occupied(t) \cup {f} /\ f \notin Occupied(t)
  BY <1>2, <1>3, <1>4, <1>6, <1>7 DEF Occupied
<1>9. \A i \in Occupied(t) : i \in 0..n - 1 /\ i # f /\ u[i] = t[i]
  BY <1>3, <1>4, <1>7 DEF Occupied
<1>10. EntriesOf(u) = EntriesOf(t) \cup {e}
  BY <1>7, <1>8, <1>9 DEF EntriesOf
<1>11. Unique(u)
  <2> SUFFICES ASSUME NEW i \in Occupied(u), NEW j \in Occupied(u), u[i].key = u[j].key
               PROVE  i = j
    BY DEF Unique
  <2>1. \A x \in Occupied(t) : t[x].key # k
    BY <1>4
  <2> QED
    BY <1>1, <1>7, <1>8, <1>9, <2>1 DEF Unique
<1>12. /\ \A i \in Occupied(t) : Home(u, i) = Home(t, i)
       /\ Home(u, f) = h
       /\ \A a, b : Distance(u, a, b) = Distance(t, a, b)
  BY <1>6, <1>7, <1>9 DEF Home, hashmap_calc_index, Distance, n, h
<1>13. Reachable(u)
  <2> SUFFICES ASSUME NEW i \in Occupied(u), NEW q \in DOMAIN u,
                      Distance(u, Home(u, i), q) < Distance(u, Home(u, i), i)
               PROVE  u[q] # Empty
    BY DEF Reachable
  <2>1. CASE i \in Occupied(t)
    <3>1. Distance(t, Home(t, i), q) < Distance(t, Home(t, i), i) /\ q \in DOMAIN t
      BY <1>4, <1>6, <1>12, <2>1
    <3> QED
      BY <1>1, <1>4, <1>7, <2>1, <3>1 DEF Reachable
  <2>2. CASE i = f
    <3>1. Distance(t, h, q) < Distance(t, h, f) /\ q \in DOMAIN t
      BY <1>4, <1>6, <1>12, <2>2
    <3> QED
      BY <1>3, <1>4, <1>7, <3>1
  <2> QED
    BY <1>8, <2>1, <2>2
<1>14. \E c \in DOMAIN u : Uncrossed(u, c)
  <2> DEFINE c == IF f + 1 < n THEN f + 1 ELSE 0
  <2>1. c \in 0..n - 1 /\ f \in 0..n - 1
    BY <1>3, <1>4
  <2>2. \A a, b \in 0..n - 1 : Distance(u, a, b) = Ahead(n, a, b)
    <3>1. \A a, b \in DOMAIN t : Distance(t, a, b) = Ahead(table_size(t), a, b)
      BY <1>1, <1>3, DistanceFacts
    <3> QED
      BY <1>4, <1>12, <3>1 DEF n
  <2>3. ASSUME NEW i \in Occupied(u)
        PROVE  Ahead(n, c, Home(u, i)) <= Ahead(n, c, i) /\ Home(u, i) \in 0..n - 1
               /\ i \in 0..n - 1
    <3>1. i \in 0..n - 1 /\ Home(u, i) \in 0..n - 1
      BY <1>3, <1>4, <1>8, <1>9, <1>12, <2>3
    <3>2. i = f \/ ~(Ahead(n, Home(u, i), f) < Ahead(n, Home(u, i), i))
      <4>1. CASE i \in Occupied(t)
        <5>1. ~(Distance(t, Home(t, i), f) < Distance(t, Home(t, i), i))
          BY <1>1, <1>3, <4>1 DEF Reachable
        <5> QED
          BY <1>12, <2>1, <2>2, <3>1, <4>1, <5>1
      <4> QED
        BY <1>8, <2>3, <4>1
    <3> HIDE DEF c
    <3>3. c = IF f + 1 < n THEN f + 1 ELSE 0
      BY DEF c
    <3> QED
      BY <1>4, <2>1, <3>1, <3>2, <3>3, CutBehind
  <2> HIDE DEF c
  <2>4. Uncrossed(u, c)
    BY <2>1, <2>2, <2>3 DEF Uncrossed
  <2> QED
    BY <1>6, <2>1, <2>4
<1>15. Sound(u)
  BY <1>6, <1>11, <1>13, <1>14 DEF Sound
<1> QED
  BY <1>3, <1>6, <1>8, <1>10, <1>15 DEF f, u, n

LEMMA CountFacts ==
  ASSUME hash \in Hashes, NEW t, IsTable(t)
  PROVE  /\ IsFiniteSet(Occupied(t)) /\ Cardinality(Occupied(t)) \in Nat
         /\ Cardinality(Occupied(t)) <= table_size(t)
         /\ Cardinality(Occupied(t)) = table_size(t) <=>
              \A i \in DOMAIN t : t[i] # Empty
         /\ Unique(t) => Cardinality(KeysOf(t)) = Cardinality(Occupied(t))
         /\ IsFiniteSet(KeysOf(t)) /\ Cardinality(KeysOf(t)) <= Cardinality(Keys)
<1>1. /\ table_size(t) = Cardinality(DOMAIN t) /\ table_size(t) \in Nat
      /\ DOMAIN t = 0..table_size(t) - 1
  BY TableFacts DEF table_size
<1>2. IsFiniteSet(DOMAIN t)
  BY <1>1, FS_Interval
<1>3. Occupied(t) \in SUBSET DOMAIN t
  BY DEF Occupied
<1>4. /\ IsFiniteSet(Occupied(t)) /\ Cardinality(Occupied(t)) <= Cardinality(DOMAIN t)
      /\ Cardinality(DOMAIN t) = Cardinality(Occupied(t)) => DOMAIN t = Occupied(t)
  BY <1>2, <1>3, FS_Subset
<1>5. Cardinality(Occupied(t)) \in Nat
  BY <1>4, FS_CardinalityType
<1>6. DOMAIN t = Occupied(t) <=> \A i \in DOMAIN t : t[i] # Empty
  BY DEF Occupied
<1>7. ASSUME Unique(t) PROVE Cardinality(KeysOf(t)) = Cardinality(Occupied(t))
  <2> DEFINE g == [i \in Occupied(t) |-> t[i].key]
  <2>1. KeysOf(t) = {t[i].key : i \in Occupied(t)}
    BY KeyFacts
  <2>2. g \in Bijection(Occupied(t), KeysOf(t))
    BY <1>7, <2>1 DEF Unique, Bijection, Injection, Surjection, IsInjective
  <2>3. ExistsBijection(Occupied(t), KeysOf(t))
    BY <2>2 DEF ExistsBijection
  <2> QED
    BY <1>4, <2>3, FS_Bijection
<1>8. KeysOf(t) \in SUBSET Keys /\ IsFiniteSet(Keys)
  BY KeyFacts, MapAssumption
<1>9. IsFiniteSet(KeysOf(t)) /\ Cardinality(KeysOf(t)) <= Cardinality(Keys)
  BY <1>8, FS_Subset
<1> QED
  BY <1>1, <1>4, <1>5, <1>6, <1>7, <1>9

LEMMA BlankFacts ==
  ASSUME NEW n \in Nat
  PROVE  /\ Sound(Blank(n)) /\ table_size(Blank(n)) = n /\ DOMAIN Blank(n) = 0..n - 1
         /\ Occupied(Blank(n)) = {} /\ EntriesOf(Blank(n)) = {}
         /\ Blank(n) \in [0..n - 1 -> Entries \cup {Empty}]
<1>1. Blank(n) \in [0..n - 1 -> Entries \cup {Empty}] /\ DOMAIN Blank(n) = 0..n - 1
      /\ \A i \in 0..n - 1 : Blank(n)[i] = Empty
  BY DEF Blank
<1>2. table_size(Blank(n)) = n /\ IsTable(Blank(n))
  BY <1>1, SizeFacts
<1>3. Occupied(Blank(n)) = {}
  BY <1>1 DEF Occupied
<1>4. EntriesOf(Blank(n)) = {}
  BY <1>3 DEF EntriesOf
<1>5. Unique(Blank(n)) /\ Reachable(Blank(n)) /\ \A c : Uncrossed(Blank(n), c)
  BY <1>3 DEF Unique, Reachable, Uncrossed
<1> QED
  BY <1>1, <1>2, <1>3, <1>4, <1>5 DEF Sound

(* The entries in the first n slots.                                       *)
FirstOf(t, n) == {t[j] : j \in {j \in 0..n - 1 : t[j] # Empty}}

(* Rehashing into a larger table keeps the entries.                        *)
LEMMA RehashFacts ==
  ASSUME hash \in Hashes, NEW t, Sound(t), NEW n \in Nat, table_size(t) < n
  PROVE  /\ Sound(hashmap_rehash(t, n)) /\ table_size(hashmap_rehash(t, n)) = n
         /\ EntriesOf(hashmap_rehash(t, n)) = EntriesOf(t)
<1> DEFINE N == table_size(t)
           S == [0..n - 1 -> Entries \cup {Empty}]
           F == [i \in 1..N |-> [r \in S |-> Rehashed(r, t[i - 1])]]
           after == CHOOSE g : g = [i \in 0..N |-> IF i = 0 THEN Blank(n)
                                                   ELSE Rehashed(g[i - 1], t[i - 1])]
<1>1. IsTable(t) /\ Unique(t)
  BY DEF Sound
<1>2. N \in Nat /\ DOMAIN t = 0..N - 1
      /\ \A j \in 0..N - 1 : /\ t[j] \in Entries \cup {Empty}
                             /\ t[j] # Empty => t[j] \in Entries /\ t[j].key \in Keys
  BY <1>1, TableFacts DEF Occupied
<1>3. hashmap_rehash(t, n) = after[N]
  BY DEF hashmap_rehash
<1> HIDE DEF N
<1>4. Blank(n) \in S
  BY BlankFacts
<1>5. \A r \in S, e \in Entries \cup {Empty} : Rehashed(r, e) \in S
  BY DEF Rehashed
<1> HIDE DEF S
<1>6. F \in [1..N -> [S -> S]]
  BY <1>2, <1>5
<1>7. after = [i \in 0..N |-> IF i = 0 THEN Blank(n) ELSE Rehashed(after[i - 1], t[i - 1])]
  <2>1. PICK g : g \in Recursion(S, Blank(n), N, F)
    <3> HIDE DEF F
    <3> QED
      BY <1>2, <1>4, <1>6, Recursed
  <2>2. g \in [0..N -> S] /\ g[0] = Blank(n) /\ \A i \in 1..N : g[i] = F[i][g[i - 1]]
    <3> HIDE DEF F
    <3> QED
      BY <2>1 DEF Recursion
  <2>3. ASSUME NEW i \in 0..N
        PROVE  g[i] = IF i = 0 THEN Blank(n) ELSE Rehashed(g[i - 1], t[i - 1])
    <3>1. CASE i = 0
      BY <2>2, <3>1
    <3>2. CASE i # 0
      <4>1. i \in 1..N /\ i - 1 \in 0..N
        BY <1>2, <3>2
      <4>2. g[i] = F[i][g[i - 1]] /\ g[i - 1] \in S
        <5> HIDE DEF F
        <5> QED
          BY <2>2, <4>1
      <4> QED
        BY <3>2, <4>1, <4>2
    <3> QED
      BY <3>1, <3>2
  <2>4. g = [i \in 0..N |-> IF i = 0 THEN Blank(n) ELSE Rehashed(g[i - 1], t[i - 1])]
    <3> HIDE DEF F
    <3> QED
      BY <2>2, <2>3
  <2> QED
    BY <2>4
<1> HIDE DEF after, F
<1>8. after[0] = Blank(n) /\ \A i \in 1..N : after[i] = Rehashed(after[i - 1], t[i - 1])
  BY <1>2, <1>7
<1> DEFINE Done(i) == /\ Sound(after[i]) /\ table_size(after[i]) = n
                      /\ EntriesOf(after[i]) = FirstOf(t, i)
                      /\ Cardinality(Occupied(after[i])) <= i
           I == {i \in Nat : i <= N => Done(i)}
<1>9. 0 \in I
  <2>1. FirstOf(t, 0) = {}
    BY DEF FirstOf
  <2>2. /\ Sound(Blank(n)) /\ table_size(Blank(n)) = n /\ EntriesOf(Blank(n)) = {}
        /\ Cardinality(Occupied(Blank(n))) = 0
    BY BlankFacts, FS_EmptySet
  <2>3. Done(0)
    BY <1>8, <2>1, <2>2
  <2> QED
    BY <2>3
<1>10. ASSUME NEW i \in Nat, i \in I PROVE i + 1 \in I
  <2>1. SUFFICES ASSUME i + 1 <= N PROVE Done(i + 1)
    OBVIOUS
  <2> DEFINE r == after[i]
             e == t[i]
  <2>2. i \in 0..N - 1 /\ i + 1 \in 1..N /\ i + 1 - 1 = i
    BY <1>2, <2>1
  <2>3. /\ Sound(r) /\ table_size(r) = n /\ EntriesOf(r) = FirstOf(t, i)
        /\ Cardinality(Occupied(r)) <= i
    <3>1. i <= N
      BY <1>2, <2>1
    <3> QED
      BY <1>10, <3>1
  <2>4. after[i + 1] = Rehashed(r, e)
    BY <1>8, <2>2
  <2> HIDE DEF r
  <2>5. CASE e = Empty
    <3>1. after[i + 1] = r
      BY <2>4, <2>5 DEF Rehashed
    <3>2. FirstOf(t, i + 1) = FirstOf(t, i)
      BY <2>5 DEF FirstOf
    <3>3. Cardinality(Occupied(r)) \in Nat
      BY <2>3, CountFacts DEF Sound
    <3> QED
      BY <2>3, <3>1, <3>2, <3>3
  <2>6. CASE e # Empty
    <3> DEFINE f == hashmap_entry_find(r, e.key)
               u == [r EXCEPT ![f] = e]
    <3>1. after[i + 1] = u
      BY <2>4, <2>6 DEF Rehashed
    <3>2. e \in Entries /\ e.key \in Keys
      BY <1>2, <2>2, <2>6
    <3>3. e.key \notin KeysOf(r)
      <4>1. \A x \in FirstOf(t, i) : x.key # e.key
        <5> SUFFICES ASSUME NEW j \in 0..i - 1, t[j] # Empty, t[j].key = e.key
                     PROVE  FALSE
          BY DEF FirstOf
        <5>1. j \in Occupied(t) /\ i \in Occupied(t) /\ j # i
          BY <1>2, <2>2, <2>6 DEF Occupied
        <5> QED
          BY <1>1, <5>1 DEF Unique
      <4>2. KeysOf(r) = {x.key : x \in FirstOf(t, i)}
        BY <2>3, KeyFacts DEF Sound
      <4> QED
        BY <4>1, <4>2
    <3>4. f # NotFound
      <4>1. Cardinality(Occupied(r)) # table_size(r)
        <5>1. Cardinality(Occupied(r)) \in Nat
          BY <2>3, CountFacts DEF Sound
        <5> QED
          BY <1>2, <2>1, <2>3, <5>1 DEF N
      <4>2. ~(\A x \in DOMAIN r : r[x] # Empty)
        BY <2>3, <4>1, CountFacts DEF Sound
      <4> QED
        BY <2>3, <3>2, <3>3, <4>2, FoundFacts
    <3>5. /\ Sound(u) /\ table_size(u) = n /\ EntriesOf(u) = EntriesOf(r) \cup {e}
          /\ Occupied(u) = Occupied(r) \cup {f} /\ f \notin Occupied(r)
      BY <2>3, <3>2, <3>3, <3>4, StoreFacts
    <3> HIDE DEF u, f
    <3>6. FirstOf(t, i + 1) = FirstOf(t, i) \cup {e}
      BY <2>2, <2>6 DEF FirstOf
    <3>7. Cardinality(Occupied(u)) = Cardinality(Occupied(r)) + 1
          /\ Cardinality(Occupied(r)) \in Nat
      <4>1. IsFiniteSet(Occupied(r)) /\ Cardinality(Occupied(r)) \in Nat
        BY <2>3, CountFacts DEF Sound
      <4> QED
        BY <3>5, <4>1, FS_AddElement
    <3> QED
      BY <2>3, <3>1, <3>5, <3>6, <3>7
  <2> QED
    BY <2>5, <2>6
<1>11. \A i \in Nat : i \in I
  <2> HIDE DEF I
  <2> QED
    BY <1>9, <1>10, NatInd
<1>12. Done(N)
  <2> HIDE DEF Done
  <2> QED
    BY <1>2, <1>11
<1>13. FirstOf(t, N) = EntriesOf(t)
  BY <1>2 DEF FirstOf, EntriesOf, Occupied
<1> QED
  BY <1>3, <1>12, <1>13

-----------------------------------------------------------------------------
(* Removal.  The table is cut open in front of a slot c that no search     *)
(* crosses, and From(t, c, i) is the distance of a slot from the cut.      *)

From(t, c, i) == Ahead(table_size(t), c, i)
HomeOf(t, e) == hashmap_calc_index(t, e.key)
ShiftStates(t) ==
  [table : [0..table_size(t) - 1 -> Entries \cup {Empty}],
   hole : 0..table_size(t) - 1, done : BOOLEAN]

(* The table as it would be if the loop ended here.                        *)
Emptied(r) == [r.table EXCEPT ![r.hole] = Empty]

(* No entry behind the hole, as far as m, is searched for at the hole.     *)
(* The loop is done at the end of a chain or of the table; until then it   *)
(* has come by entries only.  What lies behind m is as it was.             *)
Reached(t, slot, c, i, r, m) ==
  /\ From(t, c, r.hole) <= m
  /\ \A j \in Occupied(Emptied(r)) :
       From(t, c, r.hole) < From(t, c, j) /\ From(t, c, j) <= m =>
         From(t, c, r.hole) < From(t, c, HomeOf(t, Emptied(r)[j]))
  /\ \A q \in DOMAIN t : From(t, c, q) > m => Emptied(r)[q] = t[q]
  /\ r.done => \/ m = table_size(t) - 1
               \/ \E q \in DOMAIN t : From(t, c, q) = m + 1 /\ Emptied(r)[q] = Empty
  /\ ~r.done =>
       /\ m = IF From(t, c, slot) + i < table_size(t) THEN From(t, c, slot) + i
              ELSE table_size(t) - 1
       /\ \A q \in DOMAIN t :
            From(t, c, slot) <= From(t, c, q) /\ From(t, c, q) <= m => t[q] # Empty

(* The search for an entry, in the table with the hole.                    *)
Found(t, c, r, j) ==
  LET home == From(t, c, HomeOf(t, Emptied(r)[j])) IN
  /\ home <= From(t, c, j)
  /\ \A q \in DOMAIN t : home <= From(t, c, q) /\ From(t, c, q) < From(t, c, j) =>
       Emptied(r)[q] # Empty \/ q = r.hole

ShiftInv(t, slot, c, i, r) ==
  /\ r \in ShiftStates(t)
  /\ From(t, c, slot) <= From(t, c, r.hole)
  /\ EntriesOf(Emptied(r)) = EntriesOf(t) \ {t[slot]} /\ Unique(Emptied(r))
  /\ \A j \in Occupied(Emptied(r)) : Found(t, c, r, j)
  /\ \E m \in DOMAIN t : Reached(t, slot, c, i, r, m)

LEMMA CutFacts ==
  ASSUME hash \in Hashes, NEW t, IsTable(t), NEW c \in DOMAIN t
  PROVE  /\ table_size(t) \in Nat \ {0} /\ DOMAIN t = 0..table_size(t) - 1
         /\ \A i \in DOMAIN t : From(t, c, i) \in DOMAIN t
         /\ \A i, j \in DOMAIN t : From(t, c, i) = From(t, c, j) => i = j
         /\ \A e \in Entries : HomeOf(t, e) \in DOMAIN t
         /\ \A i, j \in DOMAIN t : Distance(t, i, j) = Ahead(table_size(t), i, j)
         /\ \A i \in DOMAIN t : Distance(t, c, i) = From(t, c, i)
<1> DEFINE n == table_size(t)
<1>1. n \in Nat \ {0} /\ DOMAIN t = 0..n - 1 /\ c \in 0..n - 1
  BY TableFacts
<1>2. /\ \A i, j \in DOMAIN t : Distance(t, i, j) = Ahead(n, i, j)
      /\ \A i, j \in DOMAIN t : Distance(t, i, j) \in DOMAIN t
  BY DistanceFacts
<1>3. \A e \in Entries : HomeOf(t, e) \in DOMAIN t
  <2>1. \A e \in Entries : e.key \in Keys
    BY DEF Entries
  <2> QED
    BY <2>1, TableFacts DEF HomeOf
<1>4. \A i : From(t, c, i) = Ahead(n, c, i)
  BY DEF From
<1> HIDE DEF n
<1>5. \A i, j \in 0..n - 1 : Ahead(n, c, i) = Ahead(n, c, j) => i = j
  BY <1>1, SameSlot
<1>6. \A i \in DOMAIN t : Distance(t, c, i) = From(t, c, i)
  BY <1>2, <1>4
<1>7. \A i \in DOMAIN t : From(t, c, i) \in DOMAIN t
  BY <1>2, <1>6
<1>8. \A i, j \in DOMAIN t : From(t, c, i) = From(t, c, j) => i = j
  BY <1>1, <1>4, <1>5
<1> QED
  BY <1>1, <1>2, <1>3, <1>6, <1>7, <1>8 DEF n

LEMMA EmptiedFacts ==
  ASSUME hash \in Hashes, NEW t, IsTable(t), NEW r \in ShiftStates(t)
  PROVE  /\ r.hole \in DOMAIN t
         /\ table_size(r.table) = table_size(t) /\ DOMAIN r.table = DOMAIN t
         /\ IsTable(Emptied(r)) /\ table_size(Emptied(r)) = table_size(t)
         /\ DOMAIN Emptied(r) = DOMAIN t
         /\ Emptied(r)[r.hole] = Empty
         /\ \A i \in DOMAIN t : i # r.hole => Emptied(r)[i] = r.table[i]
         /\ \A i \in DOMAIN t : r.table[i] \in Entries \cup {Empty}
         /\ \A j \in Occupied(Emptied(r)) :
              j \in DOMAIN t /\ j # r.hole /\ Emptied(r)[j] \in Entries
<1> DEFINE n == table_size(t)
<1>1. n \in Nat /\ DOMAIN t = 0..n - 1
  BY TableFacts
<1>2. r.hole \in 0..n - 1 /\ r.table \in [0..n - 1 -> Entries \cup {Empty}]
  BY DEF ShiftStates
<1> HIDE DEF n
<1>3. Emptied(r) \in [0..n - 1 -> Entries \cup {Empty}]
  BY <1>2 DEF Emptied
<1>4. table_size(r.table) = n /\ DOMAIN r.table = 0..n - 1
  BY <1>1, <1>2, SizeFacts
<1>5. IsTable(Emptied(r)) /\ table_size(Emptied(r)) = n /\ DOMAIN Emptied(r) = 0..n - 1
  BY <1>1, <1>3, SizeFacts
<1>6. /\ Emptied(r)[r.hole] = Empty
      /\ \A i \in 0..n - 1 : i # r.hole => Emptied(r)[i] = r.table[i]
  BY <1>2 DEF Emptied
<1>7. \A j \in Occupied(Emptied(r)) :
        j \in 0..n - 1 /\ j # r.hole /\ Emptied(r)[j] \in Entries
  BY <1>3, <1>5, <1>6 DEF Occupied
<1> QED
  BY <1>1, <1>2, <1>4, <1>5, <1>6, <1>7 DEF n

LEMMA ShiftBegins ==
  ASSUME hash \in Hashes, NEW t, Sound(t), NEW slot \in Occupied(t),
         NEW c \in DOMAIN t, Uncrossed(t, c)
  PROVE  ShiftInv(t, slot, c, 0, [table |-> t, hole |-> slot, done |-> FALSE])
<1> DEFINE r == [table |-> t, hole |-> slot, done |-> FALSE]
           n == table_size(t)
           T == Emptied(r)
<1>1. IsTable(t) /\ Unique(t) /\ Reachable(t)
  BY DEF Sound
<1>2. r \in ShiftStates(t) /\ slot \in DOMAIN t /\ t[slot] # Empty
  BY <1>1 DEF ShiftStates, IsTable, Occupied
<1>3. /\ IsTable(T) /\ DOMAIN T = DOMAIN t /\ T[slot] = Empty
      /\ \A i \in DOMAIN t : i # slot => T[i] = t[i]
  <2>1. r.table = t /\ r.hole = slot
    OBVIOUS
  <2> HIDE DEF r
  <2> QED
    BY <1>1, <1>2, <2>1, EmptiedFacts
<1>4. r.table = t /\ r.hole = slot /\ ~r.done
  OBVIOUS
<1> HIDE DEF r, T
<1>5. Occupied(T) = Occupied(t) \ {slot} /\ \A j \in Occupied(T) : T[j] = t[j]
  BY <1>3 DEF Occupied
<1>6. EntriesOf(T) = EntriesOf(t) \ {t[slot]}
  <2>1. \A j \in Occupied(t) : j # slot => t[j] # t[slot]
    BY <1>1 DEF Unique
  <2> QED
    BY <1>5, <2>1 DEF EntriesOf
<1>7. Unique(T)
  BY <1>1, <1>5 DEF Unique
<1>8. /\ n \in Nat \ {0} /\ DOMAIN t = 0..n - 1
      /\ \A i \in DOMAIN t : From(t, c, i) \in DOMAIN t
      /\ \A i, j \in DOMAIN t : From(t, c, i) = From(t, c, j) => i = j
      /\ \A i, j \in DOMAIN t : Distance(t, i, j) = Ahead(n, i, j)
      /\ \A i \in DOMAIN t : Distance(t, c, i) = From(t, c, i)
      /\ \A i \in DOMAIN t : From(t, c, i) = Ahead(n, c, i)
  BY <1>1, CutFacts DEF From
<1> HIDE DEF n
<1>9. ASSUME NEW j \in Occupied(T) PROVE Found(t, c, r, j)
  <2> DEFINE home == HomeOf(t, T[j])
  <2>1. j \in Occupied(t) /\ j \in DOMAIN t /\ home = Home(t, j) /\ home \in DOMAIN t
    BY <1>1, <1>5, <1>9, TableFacts DEF HomeOf, Home
  <2> HIDE DEF home
  <2>2. From(t, c, home) <= From(t, c, j)
    BY <1>8, <2>1 DEF Uncrossed
  <2>3. ASSUME NEW q \in DOMAIN t, From(t, c, home) <= From(t, c, q),
               From(t, c, q) < From(t, c, j)
        PROVE  T[q] # Empty \/ q = slot
    <3>1. Ahead(n, home, q) < Ahead(n, home, j)
      BY <1>8, <2>1, <2>2, <2>3, FromCut
    <3>2. t[q] # Empty
      BY <1>1, <1>8, <2>1, <3>1 DEF Reachable
    <3> QED
      BY <1>3, <3>2
  <2> QED
    BY <1>4, <2>2, <2>3 DEF Found, T, home
<1>10. Reached(t, slot, c, 0, r, From(t, c, slot))
  <2> DEFINE s == From(t, c, slot)
  <2>1. s \in 0..n - 1
    BY <1>2, <1>8
  <2>2. \A q \in DOMAIN t : From(t, c, q) > s => T[q] = t[q]
    BY <1>2, <1>3, <1>8
  <2>3. \A q \in DOMAIN t : s <= From(t, c, q) /\ From(t, c, q) <= s => t[q] # Empty
    BY <1>2, <1>8
  <2>4. s = IF s + 0 < n THEN s + 0 ELSE n - 1
    BY <1>8, <2>1
  <2>5. \A j \in DOMAIN t : ~(s < From(t, c, j) /\ From(t, c, j) <= s)
    BY <1>8, <2>1
  <2> HIDE DEF s
  <2>6. s <= s /\ \A j \in Occupied(T) : j \in DOMAIN t
    BY <1>3, <1>8, <2>1 DEF Occupied
  <2> QED
    BY <1>4, <2>2, <2>3, <2>4, <2>5, <2>6 DEF Reached, T, s, n
<1> QED
  <2>1. From(t, c, slot) \in DOMAIN t /\ From(t, c, slot) <= From(t, c, r.hole)
    BY <1>2, <1>4, <1>8
  <2> QED
    BY <1>2, <1>6, <1>7, <1>9, <1>10, <2>1 DEF ShiftInv, T, r

LEMMA IndexFacts ==
  ASSUME hash \in Hashes, NEW t, IsTable(t), NEW c \in DOMAIN t, NEW slot \in DOMAIN t,
         NEW d \in 0..table_size(t) - 1
  PROVE  LET x == (slot + d) % table_size(t) IN
         /\ x \in DOMAIN t
         /\ From(t, c, x) = IF From(t, c, slot) + d < table_size(t)
                            THEN From(t, c, slot) + d
                            ELSE From(t, c, slot) + d - table_size(t)
<1> DEFINE n == table_size(t)
           x == (slot + d) % n
<1>1. n \in Nat \ {0} /\ DOMAIN t = 0..n - 1
  BY CutFacts
<1>2. \A i : From(t, c, i) = Ahead(n, c, i)
  BY DEF From
<1>3. d \in 0..n
  BY <1>1
<1> HIDE DEF n
<1>4. \A a \in 0..n - 1, o \in 0..n :
        (a + o) % n = IF a + o < n THEN a + o ELSE a + o - n
  BY <1>1, CircleFacts
<1>5. x = IF slot + d < n THEN slot + d ELSE slot + d - n
  BY <1>1, <1>3, <1>4
<1> HIDE DEF x
<1>6. x \in 0..n - 1
  BY <1>1, <1>3, <1>5
<1>7. Ahead(n, c, x) = IF Ahead(n, c, slot) + d < n THEN Ahead(n, c, slot) + d
                       ELSE Ahead(n, c, slot) + d - n
  BY <1>1, <1>3, <1>5, <1>6 DEF Ahead
<1> QED
  BY <1>1, <1>2, <1>6, <1>7 DEF n, x

(* In front of the hole nothing is shifted, behind it what is searched for *)
(* at the hole or before.                                                  *)
LEMMA ShiftsFacts ==
  ASSUME hash \in Hashes, NEW t, IsTable(t), NEW c \in DOMAIN t, NEW r \in ShiftStates(t),
         NEW x \in Occupied(Emptied(r)), Found(t, c, r, x)
  PROVE  LET home == HomeOf(t, Emptied(r)[x]) IN
         Shifts(r.table, x, r.hole) <=>
           From(t, c, home) <= From(t, c, r.hole) /\ From(t, c, r.hole) < From(t, c, x)
<1> DEFINE n == table_size(t)
           home == HomeOf(t, Emptied(r)[x])
<1>1. /\ n \in Nat \ {0} /\ DOMAIN t = 0..n - 1
      /\ \A i, j \in DOMAIN t : Distance(t, i, j) = Ahead(n, i, j)
  BY CutFacts
<1>2. /\ r.hole \in DOMAIN t /\ x \in DOMAIN t /\ x # r.hole
      /\ Emptied(r)[x] = r.table[x] /\ Emptied(r)[x] \in Entries
      /\ table_size(r.table) = n
  BY EmptiedFacts
<1>3. home \in DOMAIN t /\ home = hashmap_calc_index(r.table, r.table[x].key)
  BY <1>2, CutFacts DEF HomeOf, hashmap_calc_index
<1>4. From(t, c, home) <= From(t, c, x)
  BY DEF Found
<1>5. \A i : From(t, c, i) = Ahead(n, c, i)
  BY DEF From
<1>6. \A a, b : Distance(r.table, a, b) = Distance(t, a, b)
  BY <1>2 DEF Distance
<1>7. Shifts(r.table, x, r.hole) <=> Distance(t, home, x) > Distance(t, home, r.hole)
  BY <1>3, <1>6 DEF Shifts
<1> HIDE DEF n, home
<1>8. Shifts(r.table, x, r.hole) <=> Ahead(n, home, x) > Ahead(n, home, r.hole)
  BY <1>1, <1>2, <1>3, <1>7
<1>9. /\ Ahead(n, home, x) \in Int /\ Ahead(n, home, r.hole) \in Int
      /\ Ahead(n, home, r.hole) < Ahead(n, home, x) <=>
           Ahead(n, c, home) <= Ahead(n, c, r.hole)
           /\ Ahead(n, c, r.hole) < Ahead(n, c, x)
  <2>1. Ahead(n, c, home) <= Ahead(n, c, x)
    BY <1>4, <1>5
  <2>2. Ahead(n, home, x) \in Int /\ Ahead(n, home, r.hole) \in Int
    BY <1>1, <1>2, <1>3 DEF Ahead
  <2> QED
    BY <1>1, <1>2, <1>3, <2>1, <2>2, FromCut
<1> QED
  BY <1>5, <1>8, <1>9 DEF home

(* What a step of the loop does if it shifts, and otherwise.               *)
LEMMA ShiftedFacts ==
  ASSUME hash \in Hashes, NEW t, IsTable(t), NEW r \in ShiftStates(t),
         NEW x \in DOMAIN t, x # r.hole,
         ~r.done, r.table[x] # Empty, Shifts(r.table, x, r.hole)
  PROVE  LET next == ShiftBack(r, x)
             T == Emptied(r)
             U == Emptied(next)
         IN  /\ next \in ShiftStates(t) /\ next.hole = x /\ ~next.done
             /\ DOMAIN U = DOMAIN t /\ U[x] = Empty /\ U[r.hole] = T[x]
             /\ \A q \in DOMAIN t : q # x /\ q # r.hole => U[q] = T[q]
<1> DEFINE n == table_size(t)
           next == ShiftBack(r, x)
           T == Emptied(r)
           U == Emptied(next)
<1>1. /\ n \in Nat /\ DOMAIN t = 0..n - 1 /\ DOMAIN r.table = DOMAIN t
      /\ r.hole \in DOMAIN t /\ DOMAIN T = DOMAIN t /\ T[r.hole] = Empty
      /\ \A q \in DOMAIN t : q # r.hole => T[q] = r.table[q]
      /\ \A q \in DOMAIN t : r.table[q] \in Entries \cup {Empty}
  BY TableFacts, EmptiedFacts
<1> HIDE DEF n, T
<1>2. next = [r EXCEPT !.table[r.hole] = r.table[x], !.hole = x]
  BY DEF ShiftBack
<1>3. /\ next.table = [r.table EXCEPT ![r.hole] = r.table[x]]
      /\ next.hole = x /\ ~next.done /\ next \in ShiftStates(t)
  <2>1. /\ r.table \in [0..n - 1 -> Entries \cup {Empty}] /\ r.done \in BOOLEAN
        /\ r = [table |-> r.table, hole |-> r.hole, done |-> r.done]
    BY DEF ShiftStates, n
  <2>2. next = [table |-> [r.table EXCEPT ![r.hole] = r.table[x]],
                hole |-> x, done |-> r.done]
    BY <1>2, <2>1
  <2>3. [r.table EXCEPT ![r.hole] = r.table[x]] \in [0..n - 1 -> Entries \cup {Empty}]
    BY <1>1, <2>1
  <2> QED
    BY <1>1, <2>1, <2>2, <2>3 DEF ShiftStates, n
<1>4. /\ DOMAIN U = DOMAIN t /\ U[x] = Empty
      /\ \A q \in DOMAIN t : q # x => U[q] = next.table[q]
  BY <1>3, EmptiedFacts
<1>5. /\ next.table[r.hole] = r.table[x]
      /\ \A q \in DOMAIN t : q # r.hole => next.table[q] = r.table[q]
  BY <1>1, <1>3
<1> HIDE DEF next, U
<1>6. /\ U[r.hole] = T[x]
      /\ \A q \in DOMAIN t : q # x /\ q # r.hole => U[q] = T[q]
  BY <1>1, <1>4, <1>5
<1> QED
  BY <1>3, <1>4, <1>6 DEF next, U, T

LEMMA UnshiftedFacts ==
  ASSUME NEW t, NEW r \in ShiftStates(t), NEW x,
         r.done \/ r.table[x] = Empty \/ ~Shifts(r.table, x, r.hole)
  PROVE  LET next == ShiftBack(r, x) IN
         /\ next \in ShiftStates(t) /\ next.hole = r.hole
         /\ Emptied(next) = Emptied(r)
         /\ ~next.done => ~r.done /\ r.table[x] # Empty
<1> DEFINE next == ShiftBack(r, x)
<1>1. CASE r.done \/ r.table[x] = Empty
  <2>1. next = [r EXCEPT !.done = TRUE]
    BY <1>1 DEF ShiftBack
  <2>2. next.table = r.table /\ next.hole = r.hole /\ next.done /\ next \in ShiftStates(t)
    BY <2>1 DEF ShiftStates
  <2> HIDE DEF next
  <2>3. Emptied(next) = Emptied(r)
    BY <2>2 DEF Emptied
  <2> QED
    BY <2>2, <2>3 DEF next
<1>2. CASE ~(r.done \/ r.table[x] = Empty)
  <2>1. next = r
    BY <1>2 DEF ShiftBack
  <2> QED
    BY <1>2, <2>1
<1> QED
  BY <1>1, <1>2

LEMMA ShiftGoesOn ==
  ASSUME hash \in Hashes, NEW t, Sound(t), NEW slot \in Occupied(t), NEW c \in DOMAIN t,
         NEW i \in Nat, i + 1 < table_size(t), NEW r, ShiftInv(t, slot, c, i, r)
  PROVE  ShiftInv(t, slot, c, i + 1, ShiftBack(r, (slot + (i + 1)) % table_size(t)))
<1> DEFINE n == table_size(t)
           T == Emptied(r)
           x == (slot + (i + 1)) % n
           s == From(t, c, slot)
           hole == From(t, c, r.hole)
           next == ShiftBack(r, x)
<1>1. IsTable(t) /\ slot \in DOMAIN t /\ r \in ShiftStates(t)
  BY DEF Sound, ShiftInv, Occupied
<1>2. /\ n \in Nat \ {0} /\ DOMAIN t = 0..n - 1
      /\ \A q \in DOMAIN t : From(t, c, q) \in DOMAIN t
      /\ \A q, p \in DOMAIN t : From(t, c, q) = From(t, c, p) => q = p
  BY <1>1, CutFacts
<1>3. /\ x \in DOMAIN t
      /\ From(t, c, x) = IF s + (i + 1) < n THEN s + (i + 1) ELSE s + (i + 1) - n
  <2>1. i + 1 \in 0..n - 1
    BY <1>2
  <2> QED
    BY <1>1, <2>1, IndexFacts
<1>4. /\ s <= hole /\ EntriesOf(T) = EntriesOf(t) \ {t[slot]} /\ Unique(T)
      /\ \A j \in Occupied(T) : Found(t, c, r, j)
  BY DEF ShiftInv
<1>5. PICK m \in DOMAIN t : Reached(t, slot, c, i, r, m)
  BY DEF ShiftInv
<1>6. /\ r.hole \in DOMAIN t /\ DOMAIN r.table = DOMAIN t /\ DOMAIN T = DOMAIN t
      /\ T[r.hole] = Empty
      /\ \A q \in DOMAIN t : q # r.hole => T[q] = r.table[q]
      /\ \A j \in Occupied(T) : j \in DOMAIN t /\ j # r.hole /\ T[j] \in Entries
      /\ \A q \in DOMAIN t : r.table[q] \in Entries \cup {Empty}
      /\ table_size(r.table) = n
  BY <1>1, EmptiedFacts
<1> HIDE DEF n, x, s
<1>7. s \in 0..n - 1 /\ hole \in 0..n - 1 /\ m \in 0..n - 1 /\ hole <= m
      /\ (~r.done => m = IF s + i < n THEN s + i ELSE n - 1)
  BY <1>1, <1>2, <1>5, <1>6 DEF Reached, s, n
<1>8. i \in Nat /\ i + 1 < n /\ n \in Nat
  BY <1>2 DEF n
(* If nothing is shifted, the loop is done or another entry was passed.    *)
<1>9. ASSUME next.table = r.table, next.hole = r.hole, next \in ShiftStates(t),
             \E o \in DOMAIN t : Reached(t, slot, c, i + 1, next, o)
      PROVE  ShiftInv(t, slot, c, i + 1, next)
  <2>1. Emptied(next) = T
    BY <1>9 DEF Emptied
  <2>2. \A j \in Occupied(T) : Found(t, c, next, j)
    BY <1>4, <1>9, <2>1 DEF Found
  <2> QED
    BY <1>4, <1>9, <2>1, <2>2 DEF ShiftInv, s
<1>10. CASE r.done
  <2>1. next = r
    <3>1. next = [r EXCEPT !.done = TRUE]
      BY <1>10 DEF ShiftBack
    <3> QED
      BY <1>1, <1>10, <3>1 DEF ShiftStates
  <2>2. Reached(t, slot, c, i + 1, next, m)
    BY <1>5, <1>10, <2>1 DEF Reached
  <2> QED
    BY <1>1, <1>9, <2>1, <2>2 DEF x, n
<1>11. CASE ~r.done /\ r.table[x] = Empty
  <2>1. next = [r EXCEPT !.done = TRUE]
    BY <1>11 DEF ShiftBack
  <2>2. next.table = r.table /\ next.hole = r.hole /\ next.done /\ next \in ShiftStates(t)
    BY <1>1, <2>1 DEF ShiftStates
  <2>3. Emptied(next) = T
    BY <2>2 DEF Emptied
  <2>4. m = n - 1 \/ \E q \in DOMAIN t : From(t, c, q) = m + 1 /\ T[q] = Empty
    <3>1. T[x] = Empty
      BY <1>3, <1>6, <1>11
    <3>2. CASE s + (i + 1) < n
      BY <1>3, <1>7, <1>11, <3>1, <3>2
    <3>3. CASE ~(s + (i + 1) < n)
      BY <1>2, <1>7, <1>11, <3>3
    <3> QED
      BY <3>2, <3>3
  <2>5. Reached(t, slot, c, i + 1, next, m)
    BY <1>5, <2>2, <2>3, <2>4 DEF Reached, n
  <2> QED
    BY <1>9, <2>2, <2>5 DEF x, n
<1>12. CASE ~r.done /\ r.table[x] # Empty /\ ~Shifts(r.table, x, r.hole)
  <2>1. next = r
    BY <1>12 DEF ShiftBack
  <2> DEFINE o == IF s + (i + 1) < n THEN s + (i + 1) ELSE n - 1
  <2>2. o \in DOMAIN t /\ m <= o /\ hole <= o /\ (o = m \/ (o = m + 1 /\ o = From(t, c, x)))
    BY <1>2, <1>3, <1>7, <1>12
  <2> HIDE DEF o
  <2>3. CASE o = m
    <3>1. Reached(t, slot, c, i + 1, next, o)
      BY <1>5, <1>12, <2>1, <2>3 DEF Reached, o, s, n
    <3> QED
      BY <1>1, <1>9, <2>1, <2>2, <3>1 DEF x, n
  <2>4. CASE o = m + 1 /\ o = From(t, c, x)
    <3>1. x # r.hole /\ T[x] # Empty /\ x \in Occupied(T)
      BY <1>3, <1>6, <1>7, <1>12, <2>4 DEF Occupied
    <3>2. hole < From(t, c, HomeOf(t, T[x]))
      <4>1. ~(From(t, c, HomeOf(t, T[x])) <= hole /\ hole < From(t, c, x))
        BY <1>1, <1>4, <1>12, <3>1, ShiftsFacts
      <4>2. hole < From(t, c, x)
        BY <1>7, <2>4
      <4>3. From(t, c, HomeOf(t, T[x])) \in 0..n - 1
        BY <1>1, <1>2, <1>6, <3>1, CutFacts
      <4> QED
        BY <1>7, <4>1, <4>2, <4>3
    <3>3. \A q \in DOMAIN t : From(t, c, q) <= o => From(t, c, q) <= m \/ q = x
      <4> SUFFICES ASSUME NEW q \in DOMAIN t, From(t, c, q) <= o, ~(From(t, c, q) <= m)
                   PROVE  q = x
        OBVIOUS
      <4>1. From(t, c, q) \in 0..n - 1
        BY <1>2
      <4>2. From(t, c, q) = From(t, c, x)
        BY <1>7, <2>4, <4>1
      <4> QED
        BY <1>2, <1>3, <4>2
    <3>4. t[x] # Empty
      <4>1. From(t, c, x) > m
        BY <1>7, <2>4
      <4> QED
        BY <1>3, <1>5, <3>1, <4>1 DEF Reached
    <3>5. \A q \in DOMAIN t : s <= From(t, c, q) /\ From(t, c, q) <= o => t[q] # Empty
      BY <1>5, <1>12, <3>3, <3>4 DEF Reached, s
    <3>6. \A j \in Occupied(T) : hole < From(t, c, j) /\ From(t, c, j) <= o =>
            hole < From(t, c, HomeOf(t, T[j]))
      BY <1>5, <1>6, <3>2, <3>3 DEF Reached
    <3>7. \A q \in DOMAIN t : From(t, c, q) > o => T[q] = t[q]
      <4>1. \A q \in DOMAIN t : From(t, c, q) > o => From(t, c, q) > m
        BY <1>2, <1>7, <2>4
      <4> QED
        BY <1>5, <4>1 DEF Reached
    <3>8. Reached(t, slot, c, i + 1, next, o)
      BY <1>12, <2>1, <2>2, <3>5, <3>6, <3>7 DEF Reached, o, s, n
    <3> QED
      BY <1>1, <1>9, <2>1, <2>2, <3>8 DEF x, n
  <2> QED
    BY <2>2, <2>3, <2>4
<1>13. CASE ~r.done /\ r.table[x] # Empty /\ Shifts(r.table, x, r.hole)
  <2> DEFINE home == From(t, c, HomeOf(t, T[x]))
             U == Emptied(next)
  <2>1. x # r.hole /\ T[x] = r.table[x] /\ x \in Occupied(T)
    <3>1. From(t, c, x) # hole
      BY <1>3, <1>4, <1>7, <1>13, <1>8
    <3> QED
      BY <1>3, <1>6, <1>13, <3>1 DEF Occupied
  <2>2. home <= hole /\ hole < From(t, c, x) /\ home \in 0..n - 1
    <3>1. home <= hole /\ hole < From(t, c, x)
      BY <1>1, <1>4, <1>13, <2>1, ShiftsFacts
    <3> QED
      BY <1>1, <1>2, <1>6, <2>1, <3>1, CutFacts
  <2>3. s + (i + 1) < n /\ m = s + i /\ From(t, c, x) = m + 1
    <3>1. CASE s + (i + 1) < n
      BY <1>3, <1>7, <1>13, <1>8, <3>1
    <3>2. CASE ~(s + (i + 1) < n)
      BY <1>3, <1>4, <1>7, <1>8, <2>2, <3>2
    <3> QED
      BY <3>1, <3>2
  <2>4. /\ next \in ShiftStates(t) /\ next.hole = x /\ ~next.done
        /\ DOMAIN U = DOMAIN t /\ U[x] = Empty /\ U[r.hole] = T[x]
        /\ \A q \in DOMAIN t : q # x /\ q # r.hole => U[q] = T[q]
    BY <1>1, <1>3, <1>13, <2>1, ShiftedFacts
  <2>5. /\ DOMAIN U = DOMAIN t /\ U[x] = Empty /\ U[r.hole] = T[x]
        /\ \A q \in DOMAIN t : q # x /\ q # r.hole => U[q] = T[q]
    BY <2>4
  <2> HIDE DEF U, T, next, home
  <2>6. /\ Occupied(U) = (Occupied(T) \ {x}) \cup {r.hole}
        /\ r.hole \notin Occupied(T)
        /\ \A j \in Occupied(T) : j # x => U[j] = T[j] /\ j # r.hole
    BY <1>3, <1>6, <2>1, <2>5 DEF Occupied
  <2>7. EntriesOf(U) = EntriesOf(T)
    BY <2>1, <2>5, <2>6 DEF EntriesOf
  <2>8. Unique(U)
    <3> SUFFICES ASSUME NEW j \in Occupied(U), NEW k \in Occupied(U), U[j].key = U[k].key
                 PROVE  j = k
      BY DEF Unique
    <3>1. CASE j \in Occupied(T) /\ k \in Occupied(T)
      BY <1>4, <2>5, <2>6, <3>1 DEF Unique
    <3>2. CASE j = r.hole
      BY <1>4, <2>1, <2>5, <2>6, <3>2 DEF Unique
    <3>3. CASE k = r.hole
      BY <1>4, <2>1, <2>5, <2>6, <3>3 DEF Unique
    <3> QED
      BY <2>6, <3>1, <3>2, <3>3
  <2>9. ASSUME NEW j \in Occupied(U) PROVE Found(t, c, next, j)
    <3>1. CASE j = r.hole
      <4>1. \A q \in DOMAIN t : home <= From(t, c, q) /\ From(t, c, q) < hole =>
              U[q] # Empty
        <5> SUFFICES ASSUME NEW q \in DOMAIN t, home <= From(t, c, q),
                            From(t, c, q) < hole
                     PROVE  U[q] # Empty
          OBVIOUS
        <5>1. q # x /\ q # r.hole /\ From(t, c, q) < From(t, c, x)
          BY <1>2, <1>7, <2>2, <2>3
        <5>2. T[q] # Empty
          BY <1>4, <2>1, <5>1 DEF Found, home, T
        <5> QED
          BY <2>5, <5>1, <5>2
      <4>2. home = From(t, c, HomeOf(t, U[j]))
        BY <2>5, <3>1 DEF home
      <4> QED
        BY <2>2, <2>4, <3>1, <4>1, <4>2 DEF Found, U
    <3>2. CASE j \in Occupied(T) /\ j # x
      <4>1. U[j] = T[j] /\ Found(t, c, r, j)
        BY <1>4, <2>6, <3>2
      <4>2. T[x] # Empty
        BY <2>1 DEF Occupied
      <4>3. \A q \in DOMAIN t : T[q] # Empty \/ q = r.hole => U[q] # Empty \/ q = x
        BY <2>5, <4>2
      <4> QED
        BY <2>4, <4>1, <4>3 DEF Found, U, T
    <3> QED
      BY <2>6, <3>1, <3>2
  <2>10. Reached(t, slot, c, i + 1, next, m + 1)
    <3>1. \A q \in DOMAIN t : From(t, c, q) <= m + 1 => From(t, c, q) <= m \/ q = x
      BY <1>2, <1>3, <1>7, <2>3
    <3>2. t[x] # Empty
      <4>1. From(t, c, x) > m
        BY <1>7, <2>3
      <4>2. T[x] # Empty
        BY <2>1 DEF Occupied
      <4> QED
        BY <1>3, <1>5, <4>1, <4>2 DEF Reached, T
    <3>3. \A q \in DOMAIN t : s <= From(t, c, q) /\ From(t, c, q) <= m + 1 => t[q] # Empty
      BY <1>5, <1>13, <3>1, <3>2 DEF Reached, s
    <3>4. \A q \in DOMAIN t : From(t, c, q) > m + 1 => U[q] = t[q]
      <4> SUFFICES ASSUME NEW q \in DOMAIN t, From(t, c, q) > m + 1 PROVE U[q] = t[q]
        OBVIOUS
      <4>1. From(t, c, q) > m /\ q # x /\ q # r.hole
        BY <1>2, <1>7, <2>3
      <4> QED
        BY <1>5, <2>5, <4>1 DEF Reached, T
    <3>5. \A j \in DOMAIN t : ~(From(t, c, x) < From(t, c, j) /\ From(t, c, j) <= m + 1)
      BY <1>2, <1>3, <2>3
    <3>6. \A j \in Occupied(U) : j \in DOMAIN t
      BY <2>5 DEF Occupied
    <3>7. m + 1 = s + (i + 1) /\ From(t, c, x) <= m + 1
      BY <1>7, <2>3
    <3> QED
      BY <2>3, <2>4, <3>3, <3>4, <3>5, <3>6, <3>7 DEF Reached, U, s, n
  <2>11. s <= From(t, c, x) /\ m + 1 \in DOMAIN t
    BY <1>2, <1>3, <1>7, <2>3
  <2> QED
    BY <1>4, <2>4, <2>7, <2>8, <2>9, <2>10, <2>11 DEF ShiftInv, U, s, next, x, n
<1> QED
  BY <1>10, <1>11, <1>12, <1>13

(* So many slots one behind the other hold all the entries.                *)
LEMMA AllCounted ==
  ASSUME hash \in Hashes, NEW t, IsTable(t), NEW c \in DOMAIN t,
         NEW s \in DOMAIN t, NEW N \in Nat \ {0}, N = Cardinality(Occupied(t)),
         s + (N - 1) \in DOMAIN t,
         \A q \in DOMAIN t : s <= From(t, c, q) /\ From(t, c, q) <= s + (N - 1) =>
           q \in Occupied(t),
         NEW j \in Occupied(t)
  PROVE  From(t, c, j) <= s + (N - 1)
<1> SUFFICES ASSUME ~(From(t, c, j) <= s + (N - 1)) PROVE FALSE
  OBVIOUS
<1> DEFINE n == table_size(t)
           m == s + (N - 1)
           Rest == Occupied(t) \ {j}
           g == [d \in s..m |-> IF c + d < n THEN c + d ELSE c + d - n]
<1>1. /\ n \in Nat \ {0} /\ DOMAIN t = 0..n - 1
      /\ \A i \in DOMAIN t : From(t, c, i) \in DOMAIN t
      /\ \A i : From(t, c, i) = Ahead(n, c, i)
  BY CutFacts DEF From
<1>2. s \in Int /\ m \in Int /\ s..m \subseteq 0..n - 1 /\ c \in 0..n - 1
  BY <1>1
<1> HIDE DEF n
<1>3. \A d \in s..m : g[d] \in 0..n - 1 /\ Ahead(n, c, g[d]) = d
  <2> SUFFICES ASSUME NEW d \in s..m
               PROVE  g[d] \in 0..n - 1 /\ Ahead(n, c, g[d]) = d
    OBVIOUS
  <2>1. d \in 0..n - 1
    BY <1>2
  <2>2. g[d] = IF c + d < n THEN c + d ELSE c + d - n
    OBVIOUS
  <2> HIDE DEF g
  <2>3. g[d] \in 0..n - 1
    BY <1>1, <1>2, <2>1, <2>2
  <2>4. Ahead(n, c, g[d]) = d
    BY <1>1, <1>2, <2>1, <2>2 DEF Ahead
  <2> QED
    BY <2>3, <2>4
<1>4. \A d \in s..m : g[d] \in Rest
  <2> SUFFICES ASSUME NEW d \in s..m PROVE g[d] \in Rest
    OBVIOUS
  <2>1. g[d] \in DOMAIN t /\ From(t, c, g[d]) = d
    BY <1>1, <1>3
  <2>2. s <= d /\ d <= m
    BY <1>2
  <2> HIDE DEF g
  <2> QED
    BY <2>1, <2>2
<1>5. \A d, e \in s..m : g[d] = g[e] => d = e
  <2> HIDE DEF g
  <2> QED
    BY <1>3
<1>6. g \in Injection(s..m, Rest)
  BY <1>4, <1>5 DEF Injection, IsInjective
<1>7. IsFiniteSet(Rest) /\ Cardinality(Rest) = N - 1
  BY CountFacts, FS_RemoveElement
<1>8. Cardinality(s..m) = N
  <2>1. Cardinality(s..m) = IF s > m THEN 0 ELSE m - s + 1
    <3> HIDE DEF m
    <3> QED
      BY <1>2, FS_Interval
  <2> QED
    BY <1>1, <2>1
<1> HIDE DEF g, m, Rest
<1>9. Cardinality(s..m) <= Cardinality(Rest)
  BY <1>6, <1>7, FS_Injection
<1> QED
  BY <1>7, <1>8, <1>9

LEMMA ShiftEnds ==
  ASSUME hash \in Hashes, NEW t, Sound(t), NEW slot \in Occupied(t), NEW c \in DOMAIN t,
         NEW N \in Nat \ {0}, N = Cardinality(Occupied(t)),
         NEW r, ShiftInv(t, slot, c, N - 1, r)
  PROVE  /\ Sound(Emptied(r)) /\ table_size(Emptied(r)) = table_size(t)
         /\ EntriesOf(Emptied(r)) = EntriesOf(t) \ {t[slot]}
<1> DEFINE n == table_size(t)
           T == Emptied(r)
           s == From(t, c, slot)
           hole == From(t, c, r.hole)
<1>1. IsTable(t) /\ slot \in DOMAIN t /\ r \in ShiftStates(t)
  BY DEF Sound, ShiftInv, Occupied
<1>2. /\ n \in Nat \ {0} /\ DOMAIN t = 0..n - 1
      /\ \A q \in DOMAIN t : From(t, c, q) \in DOMAIN t
      /\ \A q, p \in DOMAIN t : From(t, c, q) = From(t, c, p) => q = p
      /\ \A e \in Entries : HomeOf(t, e) \in DOMAIN t
      /\ \A p, q \in DOMAIN t : Distance(t, p, q) = Ahead(n, p, q)
      /\ \A q \in DOMAIN t : Distance(t, c, q) = From(t, c, q)
  BY <1>1, CutFacts
<1>3. /\ r.hole \in DOMAIN t /\ DOMAIN T = DOMAIN t
      /\ IsTable(T) /\ table_size(T) = n /\ T[r.hole] = Empty
      /\ \A j \in Occupied(T) : j \in DOMAIN t /\ j # r.hole /\ T[j] \in Entries
  BY <1>1, EmptiedFacts
<1>4. /\ EntriesOf(T) = EntriesOf(t) \ {t[slot]} /\ Unique(T)
      /\ \A j \in Occupied(T) : Found(t, c, r, j)
  BY DEF ShiftInv
<1>5. PICK m \in DOMAIN t : Reached(t, slot, c, N - 1, r, m)
  BY DEF ShiftInv
<1>6. /\ \A j \in Occupied(T) : Home(T, j) = HomeOf(t, T[j]) /\ Home(T, j) \in DOMAIN t
      /\ \A p, q : Distance(T, p, q) = Distance(t, p, q)
  BY <1>2, <1>3 DEF Home, HomeOf, hashmap_calc_index, Distance
<1> HIDE DEF n, T
(* No entry is behind the hole that is searched for at the hole or before. *)
<1>7. ASSUME NEW j \in Occupied(T), hole < From(t, c, j),
             From(t, c, Home(T, j)) <= hole
      PROVE  FALSE
  <2>1. j \in DOMAIN t /\ T[j] # Empty /\ From(t, c, j) \in 0..n - 1
        /\ hole \in 0..n - 1 /\ m \in 0..n - 1 /\ hole <= m
        /\ From(t, c, Home(T, j)) \in 0..n - 1
    BY <1>2, <1>3, <1>5, <1>6 DEF Reached, Occupied
  <2>2. From(t, c, j) > m
    <3>1. From(t, c, j) <= m => hole < From(t, c, Home(T, j))
      BY <1>5, <1>6, <1>7 DEF Reached, T
    <3> QED
      BY <1>7, <2>1, <3>1
  <2>3. CASE r.done
    <3>1. PICK q \in DOMAIN t : From(t, c, q) = m + 1 /\ T[q] = Empty
      <4>1. m # n - 1
        BY <1>2, <2>1, <2>2
      <4> QED
        BY <1>5, <2>3, <4>1 DEF Reached, T, n
    <3>2. q # j /\ From(t, c, q) # From(t, c, j)
      BY <1>2, <2>1, <3>1
    <3>3. /\ From(t, c, Home(T, j)) <= From(t, c, q)
          /\ From(t, c, q) < From(t, c, j) /\ From(t, c, q) # hole
      <4> HIDE DEF hole
      <4> QED
        BY <1>7, <2>1, <2>2, <3>1, <3>2
    <3>4. T[q] # Empty \/ q = r.hole
      BY <1>4, <1>6, <3>3 DEF Found, T
    <3> QED
      BY <3>1, <3>3, <3>4
  <2>4. CASE ~r.done
    <3>1. m = s + (N - 1) /\ s \in DOMAIN t
      <4>1. m = IF s + (N - 1) < n THEN s + (N - 1) ELSE n - 1
        BY <1>5, <2>4 DEF Reached, n
      <4> QED
        BY <1>1, <1>2, <2>1, <2>2, <4>1
    <3>2. \A q \in DOMAIN t : s <= From(t, c, q) /\ From(t, c, q) <= m => q \in Occupied(t)
      BY <1>5, <2>4 DEF Reached, Occupied
    <3>3. j \in Occupied(t)
      BY <1>5, <2>1, <2>2 DEF Reached, Occupied, T
    <3> HIDE DEF s
    <3>4. From(t, c, j) <= m
      BY <1>1, <3>1, <3>2, <3>3, AllCounted
    <3> QED
      BY <2>1, <2>2, <3>4
  <2> QED
    BY <2>3, <2>4
<1>8. Reachable(T)
  <2> SUFFICES ASSUME NEW j \in Occupied(T), NEW q \in DOMAIN T,
                      Distance(T, Home(T, j), q) < Distance(T, Home(T, j), j)
               PROVE  T[q] # Empty
    BY DEF Reachable
  <2>1. j \in DOMAIN t /\ q \in DOMAIN t /\ Home(T, j) \in DOMAIN t
    BY <1>3, <1>6
  <2>2. From(t, c, Home(T, j)) <= From(t, c, j)
    BY <1>4, <1>6 DEF Found, T
  <2>3. Ahead(n, Home(T, j), q) < Ahead(n, Home(T, j), j)
    BY <1>2, <1>6, <2>1
  <2>4. From(t, c, Home(T, j)) <= From(t, c, q) /\ From(t, c, q) < From(t, c, j)
    BY <1>2, <2>1, <2>2, <2>3, FromCut DEF From, n
  <2>5. T[q] # Empty \/ q = r.hole
    BY <1>4, <1>6, <2>1, <2>4 DEF Found, T
  <2> QED
    BY <1>7, <2>4, <2>5
<1>9. Uncrossed(T, c)
  <2> SUFFICES ASSUME NEW j \in Occupied(T)
               PROVE  Distance(T, c, Home(T, j)) <= Distance(T, c, j)
    BY DEF Uncrossed
  <2>1. From(t, c, Home(T, j)) <= From(t, c, j)
    BY <1>4, <1>6 DEF Found, T
  <2> QED
    BY <1>2, <1>3, <1>6, <2>1
<1>10. Sound(T)
  BY <1>3, <1>4, <1>8, <1>9 DEF Sound
<1> QED
  BY <1>3, <1>4, <1>10 DEF T, n

LEMMA ShiftTypes ==
  ASSUME hash \in Hashes, NEW t, IsTable(t), NEW r \in ShiftStates(t),
         NEW x \in DOMAIN t
  PROVE  ShiftBack(r, x) \in ShiftStates(t)
<1>1. /\ r.hole \in DOMAIN t /\ x \in 0..table_size(t) - 1
      /\ r.table[x] \in Entries \cup {Empty}
  BY TableFacts, EmptiedFacts
<1>2. [r.table EXCEPT ![r.hole] = r.table[x]]
        \in [0..table_size(t) - 1 -> Entries \cup {Empty}]
  BY <1>1 DEF ShiftStates
<1>3. [r EXCEPT !.done = TRUE] \in ShiftStates(t)
  BY DEF ShiftStates
<1>4. [r EXCEPT !.table[r.hole] = r.table[x], !.hole = x] \in ShiftStates(t)
  BY <1>1, <1>2 DEF ShiftStates
<1> QED
  BY <1>3, <1>4 DEF ShiftBack

(* Removal goes through the states of its loop.                            *)
Begin(t, slot) == [table |-> t, hole |-> slot, done |-> FALSE]
Loop(t, slot, after) ==
  /\ after[0] = Begin(t, slot)
  /\ \A i \in 1..size - 1 :
       after[i] = ShiftBack(after[i - 1], (slot + i) % table_size(t))

LEMMA RemoveLoop ==
  ASSUME hash \in Hashes, NEW t, IsTable(t), NEW slot \in Occupied(t),
         size = Cardinality(Occupied(t))
  PROVE  /\ size \in Nat \ {0} /\ size <= table_size(t)
         /\ table_size(t) \in Nat \ {0} /\ DOMAIN t = 0..table_size(t) - 1
         /\ slot \in DOMAIN t
         /\ \E after : Loop(t, slot, after)
                       /\ hashmap_entry_remove(t, slot) = Emptied(after[size - 1])
<1> DEFINE n == table_size(t)
           S == ShiftStates(t)
           x == [i \in Nat |-> (slot + i) % n]
           b == Begin(t, slot)
           F == [i \in 1..size - 1 |-> [r \in S |-> ShiftBack(r, x[i])]]
           after == CHOOSE g : g = [i \in 0..size - 1 |->
                                      IF i = 0 THEN b
                                      ELSE ShiftBack(g[i - 1], (slot + i) % n)]
<1>1. IsTable(t) /\ slot \in DOMAIN t /\ DOMAIN t # {}
  BY DEF Occupied
<1>2. size \in Nat \ {0} /\ size <= n
  <2>1. size # 0
    BY <1>1, CountFacts, FS_EmptySet
  <2> QED
    BY <1>1, <2>1, CountFacts
<1>3. n \in Nat \ {0} /\ DOMAIN t = 0..n - 1
  BY <1>1, TableFacts
<1>4. hashmap_entry_remove(t, slot) = Emptied(after[size - 1])
  BY DEF hashmap_entry_remove, Emptied, Begin
<1>5. b \in S
  BY <1>1 DEF ShiftStates, IsTable, Begin
<1>6. \A i \in 1..size - 1 : x[i] = (slot + i) % n /\ x[i] \in DOMAIN t
  <2> HIDE DEF n
  <2>1. \A d \in Int : d % n \in 0..n - 1
    BY <1>3, CircleFacts
  <2> TAKE i \in 1..size - 1
  <2>2. i \in Nat /\ slot + i \in Int
    BY <1>1, <1>2, <1>3
  <2>3. (slot + i) % n \in DOMAIN t
    BY <1>3, <2>1, <2>2
  <2> QED
    BY <2>2, <2>3
<1> HIDE DEF n, b, S, x
<1>7. F \in [1..size - 1 -> [S -> S]]
  BY <1>1, <1>6, ShiftTypes DEF S
<1>8. after = [i \in 0..size - 1 |->
                 IF i = 0 THEN b ELSE ShiftBack(after[i - 1], (slot + i) % n)]
  <2>1. PICK g : g \in Recursion(S, b, size - 1, F)
    <3> HIDE DEF F
    <3>1. size - 1 \in Nat
      BY <1>2
    <3> QED
      BY <1>5, <1>7, <3>1, Recursed
  <2>2. g \in [0..size - 1 -> S] /\ g[0] = b /\ \A i \in 1..size - 1 : g[i] = F[i][g[i - 1]]
    <3> HIDE DEF F
    <3> QED
      BY <2>1 DEF Recursion
  <2>3. ASSUME NEW i \in 0..size - 1
        PROVE  g[i] = IF i = 0 THEN b ELSE ShiftBack(g[i - 1], (slot + i) % n)
    <3>1. CASE i = 0
      BY <2>2, <3>1
    <3>2. CASE i # 0
      <4>1. i \in 1..size - 1 /\ i - 1 \in 0..size - 1
        BY <1>2, <3>2
      <4>2. g[i] = F[i][g[i - 1]] /\ g[i - 1] \in S
        <5> HIDE DEF F
        <5> QED
          BY <2>2, <4>1
      <4>3. x[i] = (slot + i) % n
        BY <1>6, <4>1
      <4> QED
        BY <3>2, <4>1, <4>2, <4>3
    <3> QED
      BY <3>1, <3>2
  <2>4. g = [i \in 0..size - 1 |->
               IF i = 0 THEN b ELSE ShiftBack(g[i - 1], (slot + i) % n)]
    <3> HIDE DEF F
    <3> QED
      BY <2>2, <2>3
  <2> QED
    BY <2>4
<1> HIDE DEF after, F
<1>9. /\ after[0] = b
       /\ \A i \in 1..size - 1 : after[i] = ShiftBack(after[i - 1], (slot + i) % n)
  BY <1>2, <1>8
<1> QED
  BY <1>1, <1>2, <1>3, <1>4, <1>9 DEF Loop, b, n

(* Removal takes the one entry and leaves the table sound.                 *)
LEMMA RemoveFacts ==
  ASSUME hash \in Hashes, NEW t, Sound(t), NEW slot \in Occupied(t),
         size = Cardinality(Occupied(t))
  PROVE  LET u == hashmap_entry_remove(t, slot) IN
         /\ Sound(u) /\ table_size(u) = table_size(t)
         /\ EntriesOf(u) = EntriesOf(t) \ {t[slot]}
<1>1. IsTable(t) /\ DOMAIN t # {}
  BY DEF Sound, Occupied
<1>2. /\ size \in Nat \ {0} /\ size <= table_size(t) /\ table_size(t) \in Nat
      /\ slot \in DOMAIN t
  BY <1>1, RemoveLoop
<1>3. PICK c \in DOMAIN t : Uncrossed(t, c)
  BY <1>1 DEF Sound
<1>4. PICK after : Loop(t, slot, after)
                   /\ hashmap_entry_remove(t, slot) = Emptied(after[size - 1])
  BY <1>1, RemoveLoop
<1> DEFINE I == {i \in Nat : i <= size - 1 => ShiftInv(t, slot, c, i, after[i])}
<1>5. 0 \in I
  <2>1. ShiftInv(t, slot, c, 0, after[0])
    BY <1>3, <1>4, ShiftBegins DEF Loop, Begin
  <2> QED
    BY <2>1
<1>6. ASSUME NEW i \in Nat, i \in I PROVE i + 1 \in I
  <2>1. SUFFICES ASSUME i + 1 <= size - 1
                 PROVE  ShiftInv(t, slot, c, i + 1, after[i + 1])
    OBVIOUS
  <2>2. ShiftInv(t, slot, c, i, after[i])
    BY <1>2, <1>6, <2>1
  <2>3. after[i + 1] = ShiftBack(after[i], (slot + (i + 1)) % table_size(t))
    <3>1. i + 1 \in 1..size - 1 /\ i + 1 - 1 = i
      BY <1>2, <2>1
    <3> QED
      BY <1>4, <3>1 DEF Loop
  <2>4. i + 1 < table_size(t)
    BY <1>2, <2>1
  <2> HIDE DEF I
  <2> QED
    BY <1>1, <2>2, <2>3, <2>4, ShiftGoesOn
<1>7. \A i \in Nat : i \in I
  <2> HIDE DEF I
  <2> QED
    BY <1>5, <1>6, NatInd
<1>8. ShiftInv(t, slot, c, size - 1, after[size - 1])
  <2>1. size - 1 \in Nat
    BY <1>2
  <2> QED
    BY <1>7, <2>1
<1> QED
  BY <1>2, <1>4, <1>8, ShiftEnds


-----------------------------------------------------------------------------
(* Sizes.                                                                  *)

LEMMA PowerFacts == PowersOf2 \subseteq Nat /\ 2^30 \in PowersOf2 /\ 2^30 \in Nat
<1>1. PowersOf2 \subseteq Nat
  BY DEF PowersOf2
<1>2. 30 \in 1..30
  OBVIOUS
<1>3. 2^30 \in PowersOf2
  BY <1>2, Zenon DEF PowersOf2
<1> QED
  BY <1>1, <1>3

LEMMA NeededFacts ==
  ASSUME NEW n \in Nat
  PROVE  /\ Needed(n) \in Nat /\ n <= Needed(n)
         /\ \A m \in Nat : m <= n => Needed(m) <= Needed(n)
         /\ \A p \in Nat : Needed(n) <= p /\ p >= 4 => n < p
BY DEF Needed

LEMMA CalcUpTo ==
  ASSUME NEW init \in Nat, NEW n \in Nat, NEW B \in PowersOf2, Needed(n) <= B
  PROVE  LET p == hashmap_calc_table_size(init, n) IN
         /\ p \in PowersOf2 \cup {init} /\ p \in Nat
         /\ p >= init /\ p >= Needed(n) /\ (p <= init \/ p <= B)
         /\ \A m \in Nat : m <= n => hashmap_calc_table_size(init, m) <= p
<1> DEFINE Fits(m) == {q \in PowersOf2 : q >= Needed(m)}
           Least(m) == CHOOSE p \in PowersOf2 :
                         p >= Needed(m) /\ \A q \in PowersOf2 : q >= Needed(m) => p <= q
<1>1. \A m \in Nat : m <= n => Needed(m) \in Nat /\ Needed(m) <= Needed(n)
  BY NeededFacts
<1>2. \A q \in PowersOf2 : q \in Nat
  BY PowerFacts
<1>3. B \in Nat
  BY PowerFacts
<1>4. ASSUME NEW m \in Nat, m <= n
      PROVE  Least(m) \in PowersOf2 /\ Least(m) >= Needed(m)
             /\ \A q \in PowersOf2 : q >= Needed(m) => Least(m) <= q
  <2>1. Fits(m) \subseteq Nat /\ Fits(m) # {}
    <3>1. B \in Fits(m)
      <4>1. B >= Needed(m)
        BY <1>1, <1>4, <1>3
      <4> QED
        BY <4>1
    <3> QED
      BY <3>1, <1>2
  <2>2. \E p \in Fits(m) : \A q \in Fits(m) : p <= q
    <3> HIDE DEF Fits
    <3> QED
      BY <2>1, NatMin
  <2>3. \E p \in PowersOf2 :
          p >= Needed(m) /\ \A q \in PowersOf2 : q >= Needed(m) => p <= q
    BY <2>2
  <2> QED
    BY <2>3, Zenon
<1>5. \A m : hashmap_calc_table_size(init, m) = IF Needed(m) < init THEN init ELSE Least(m)
  BY DEF hashmap_calc_table_size
<1> HIDE DEF Least
<1> DEFINE p == hashmap_calc_table_size(init, n)
<1>6. /\ p \in PowersOf2 \cup {init} /\ p \in Nat /\ p >= init /\ p >= Needed(n)
      /\ p <= init \/ p <= B
  <2>1. Least(n) \in PowersOf2 /\ Least(n) >= Needed(n) /\ Least(n) <= B
    BY <1>4
  <2>2. Needed(n) \in Nat /\ Least(n) \in Nat
    BY <1>1, <1>2, <2>1
  <2>3. p = IF Needed(n) < init THEN init ELSE Least(n)
    BY <1>5
  <2> HIDE DEF p
  <2> QED
    BY <2>1, <2>2, <2>3
<1>7. ASSUME NEW m \in Nat, m <= n PROVE hashmap_calc_table_size(init, m) <= p
  <2>1. CASE Needed(m) < init
    BY <1>5, <1>6, <2>1
  <2>2. CASE ~(Needed(m) < init)
    <3>1. ~(Needed(n) < init) /\ Least(n) >= Needed(m) /\ Least(n) \in PowersOf2
      <4>1. Least(n) \in PowersOf2 /\ Least(n) >= Needed(n)
        BY <1>4
      <4>2. Needed(n) \in Nat /\ Needed(m) \in Nat /\ Needed(m) <= Needed(n)
        BY <1>1, <1>7
      <4> QED
        BY <1>1, <1>7, <1>2, <2>2, <4>1, <4>2
    <3>2. Least(m) <= Least(n)
      BY <1>4, <1>7, <3>1
    <3> QED
      BY <1>5, <2>2, <3>1, <3>2
  <2> QED
    BY <2>1, <2>2
<1> QED
  BY <1>6, <1>7

LEMMA CalcFacts ==
  ASSUME NEW init \in Nat, NEW n \in Nat, Needed(n) <= 2^30
  PROVE  LET p == hashmap_calc_table_size(init, n) IN
         /\ p \in PowersOf2 \cup {init} /\ p \in Nat
         /\ p >= init /\ p >= Needed(n)
         /\ \A m \in Nat : m <= n => hashmap_calc_table_size(init, m) <= p
<1>1. 2^30 \in PowersOf2
  BY PowerFacts
<1> DEFINE B == 2^30
<1>2. B \in PowersOf2 /\ Needed(n) <= B
  BY <1>1
<1> HIDE DEF B
<1> QED
  BY <1>2, CalcUpTo

-----------------------------------------------------------------------------
(* What a table contains.                                                  *)

ContentOf(t) == [k \in Keys |->
  IF k \in KeysOf(t) THEN t[CHOOSE i \in DOMAIN t : t[i].key = k].data ELSE NULL]

LEMMA ContentFacts ==
  ASSUME hash \in Hashes, NEW t, Sound(t)
  PROVE  /\ ContentOf(t) = [k \in Keys |-> ContentOf(t)[k]]
         /\ \A e \in EntriesOf(t) : /\ e \in Entries /\ e.key \in KeysOf(t)
                                    /\ ContentOf(t)[e.key] = e.data /\ e.data # NULL
         /\ \A k \in Keys : k \notin KeysOf(t) => ContentOf(t)[k] = NULL
         /\ \A k \in KeysOf(t) : \E e \in EntriesOf(t) : e.key = k
         /\ KeysOf(t) \subseteq Keys
<1>1. IsTable(t) /\ Unique(t)
  BY DEF Sound
<1>2. /\ \A i \in Occupied(t) :
           /\ i \in DOMAIN t /\ t[i] # Empty /\ t[i] \in Entries
           /\ t[i].key \in Keys /\ t[i].key # NULL /\ t[i].data # NULL
      /\ \A i \in DOMAIN t : t[i].key = NULL <=> t[i] = Empty
  BY <1>1, TableFacts
<1>3. /\ KeysOf(t) = {e.key : e \in EntriesOf(t)} /\ KeysOf(t) \subseteq Keys
  BY <1>1, KeyFacts
<1>4. ASSUME NEW e \in EntriesOf(t)
      PROVE  /\ e \in Entries /\ e.key \in KeysOf(t) /\ e.data # NULL
             /\ ContentOf(t)[e.key] = e.data
  <2>1. PICK i \in Occupied(t) : e = t[i]
    BY DEF EntriesOf
  <2>2. e \in Entries /\ e.key \in KeysOf(t) /\ e.key \in Keys /\ e.data # NULL
        /\ e.key # NULL
    BY <1>2, <1>3, <2>1
  <2> DEFINE j == CHOOSE o \in DOMAIN t : t[o].key = e.key
  <2>3. j \in DOMAIN t /\ t[j].key = e.key
    BY <1>2, <2>1
  <2>4. ContentOf(t)[e.key] = t[j].data
    BY <2>2 DEF ContentOf
  <2> HIDE DEF j
  <2>5. j \in Occupied(t)
    BY <1>2, <2>2, <2>3 DEF Occupied
  <2>6. j = i
    BY <1>1, <2>1, <2>3, <2>5 DEF Unique
  <2> QED
    BY <2>1, <2>2, <2>4, <2>6
<1>5. \A k \in Keys : k \notin KeysOf(t) => ContentOf(t)[k] = NULL
  BY DEF ContentOf
<1>6. ContentOf(t) = [k \in Keys |-> ContentOf(t)[k]]
  BY DEF ContentOf
<1>7. \A k \in KeysOf(t) : \E e \in EntriesOf(t) : e.key = k
  BY <1>3
<1> QED
  BY <1>3, <1>4, <1>5, <1>6, <1>7

LEMMA SameContent ==
  ASSUME hash \in Hashes, NEW t, Sound(t), NEW u, Sound(u), EntriesOf(u) = EntriesOf(t)
  PROVE  /\ ContentOf(u) = ContentOf(t) /\ KeysOf(u) = KeysOf(t)
         /\ Cardinality(Occupied(u)) = Cardinality(Occupied(t))
<1>1. IsTable(t) /\ IsTable(u) /\ Unique(t) /\ Unique(u)
  BY DEF Sound
<1>2. KeysOf(u) = KeysOf(t)
  BY <1>1, KeyFacts
<1>3. Cardinality(Occupied(u)) = Cardinality(Occupied(t))
  BY <1>1, <1>2, CountFacts
<1>4. ASSUME NEW k \in Keys PROVE ContentOf(u)[k] = ContentOf(t)[k]
  <2>1. CASE k \in KeysOf(t)
    <3>1. PICK e \in EntriesOf(t) : e.key = k
      BY <2>1, ContentFacts
    <3>2. ContentOf(t)[k] = e.data
      BY <3>1, ContentFacts
    <3>3. ContentOf(u)[k] = e.data
      BY <3>1, ContentFacts
    <3> QED
      BY <3>2, <3>3
  <2>2. CASE k \notin KeysOf(t)
    BY <1>2, <2>2, ContentFacts
  <2> QED
    BY <2>1, <2>2
<1> QED
  BY <1>2, <1>3, <1>4 DEF ContentOf

LEMMA MoreContent ==
  ASSUME hash \in Hashes, NEW t, Sound(t), NEW u, Sound(u), NEW e \in Entries,
         e.key \notin KeysOf(t), EntriesOf(u) = EntriesOf(t) \cup {e}
  PROVE  ContentOf(u) = [ContentOf(t) EXCEPT ![e.key] = e.data]
<1>1. KeysOf(u) = KeysOf(t) \cup {e.key}
  BY KeyFacts DEF Sound
<1>2. ASSUME NEW k \in Keys
      PROVE  ContentOf(u)[k] = IF k = e.key THEN e.data ELSE ContentOf(t)[k]
  <2>1. CASE k = e.key
    BY <2>1, ContentFacts
  <2>2. CASE k # e.key /\ k \in KeysOf(t)
    <3>1. PICK x \in EntriesOf(t) : x.key = k
      BY <2>2, ContentFacts
    <3>2. ContentOf(t)[k] = x.data
      BY <3>1, ContentFacts
    <3>3. ContentOf(u)[k] = x.data
      BY <3>1, ContentFacts
    <3> QED
      BY <2>2, <3>2, <3>3
  <2>3. CASE k # e.key /\ k \notin KeysOf(t)
    BY <1>1, <2>3, ContentFacts
  <2> QED
    BY <2>1, <2>2, <2>3
<1>3. /\ ContentOf(u) = [k \in Keys |-> ContentOf(u)[k]]
      /\ ContentOf(t) = [k \in Keys |-> ContentOf(t)[k]]
  BY ContentFacts, Zenon
<1> QED
  BY <1>2, <1>3

LEMMA LessContent ==
  ASSUME hash \in Hashes, NEW t, Sound(t), NEW u, Sound(u), NEW s \in Occupied(t),
         EntriesOf(u) = EntriesOf(t) \ {t[s]}
  PROVE  /\ ContentOf(u) = [ContentOf(t) EXCEPT ![t[s].key] = NULL]
         /\ Cardinality(Occupied(u)) = Cardinality(Occupied(t)) - 1
         /\ t[s].key \in Keys /\ ContentOf(t)[t[s].key] = t[s].data
<1>1. IsTable(t) /\ IsTable(u) /\ Unique(t) /\ Unique(u)
  BY DEF Sound
<1>2. t[s] \in EntriesOf(t) /\ \A x \in EntriesOf(t) : x # t[s] => x.key # t[s].key
  BY <1>1 DEF EntriesOf, Unique
<1>3. KeysOf(u) = KeysOf(t) \ {t[s].key} /\ t[s].key \in KeysOf(t)
  BY <1>1, <1>2, KeyFacts
<1>4. Cardinality(Occupied(u)) = Cardinality(Occupied(t)) - 1
  <2>1. IsFiniteSet(KeysOf(t))
    BY <1>1, CountFacts
  <2>2. Cardinality(KeysOf(t) \ {t[s].key}) = Cardinality(KeysOf(t)) - 1
    BY <1>3, <2>1, FS_RemoveElement
  <2> QED
    BY <1>1, <1>3, <2>2, CountFacts
<1>5. ASSUME NEW k \in Keys
      PROVE  ContentOf(u)[k] = IF k = t[s].key THEN NULL ELSE ContentOf(t)[k]
  <2>1. CASE k = t[s].key
    BY <1>3, <2>1, ContentFacts
  <2>2. CASE k # t[s].key /\ k \in KeysOf(t)
    <3>1. PICK x \in EntriesOf(t) : x.key = k
      BY <2>2, ContentFacts
    <3>2. ContentOf(t)[k] = x.data
      BY <3>1, ContentFacts
    <3>3. x \in EntriesOf(u)
      BY <2>2, <3>1
    <3>4. ContentOf(u)[k] = x.data
      BY <3>1, <3>3, ContentFacts
    <3> QED
      BY <2>2, <3>2, <3>4
  <2>3. CASE k # t[s].key /\ k \notin KeysOf(t)
    BY <1>3, <2>3, ContentFacts
  <2> QED
    BY <2>1, <2>2, <2>3
<1>6. /\ ContentOf(u) = [k \in Keys |-> ContentOf(u)[k]]
      /\ ContentOf(t) = [k \in Keys |-> ContentOf(t)[k]]
  BY ContentFacts, Zenon
<1>7. ContentOf(u) = [ContentOf(t) EXCEPT ![t[s].key] = NULL]
  BY <1>5, <1>6
<1>8. t[s].key \in Keys /\ ContentOf(t)[t[s].key] = t[s].data
  BY <1>2, <1>3, ContentFacts
<1> QED
  BY <1>4, <1>7, <1>8

LEMMA NoContent ==
  ASSUME NEW t, Sound(t), EntriesOf(t) = {}
  PROVE  ContentOf(t) = [k \in Keys |-> NULL]
<1>1. \A i \in DOMAIN t : t[i] = Empty
  BY DEF EntriesOf, Occupied
<1>2. KeysOf(t) = {}
  BY <1>1 DEF KeysOf, Empty
<1> QED
  BY <1>2 DEF ContentOf

LEMMA PopulatedFacts ==
  ASSUME hash \in Hashes, NEW t, IsTable(t), NEW from
  PROVE  hashmap_entry_get_populated(t, from) \in Occupied(t) \cup {Finished}
<1> DEFINE there == {i \in DOMAIN t : i >= from /\ t[i] # Empty}
           pos == CHOOSE i \in there : \A j \in there : i <= j
<1>1. hashmap_entry_get_populated(t, from) = IF there = {} THEN Finished ELSE pos
  BY DEF hashmap_entry_get_populated
<1>2. there \subseteq Occupied(t) /\ there \subseteq Nat
  BY TableFacts DEF Occupied
<1> HIDE DEF there
<1>3. there # {} => pos \in there
  <2> SUFFICES ASSUME there # {} PROVE pos \in there
    OBVIOUS
  <2>1. \E i \in there : \A j \in there : i <= j
    BY <1>2, NatMin
  <2> QED
    BY <2>1, Zenon
<1> HIDE DEF pos
<1> QED
  BY <1>1, <1>2, <1>3

-----------------------------------------------------------------------------
(* The invariant, of the values of the variables.                          *)

Good(init, t, n, pos, res) ==
  /\ Sound(t) /\ n = Cardinality(Occupied(t))
  /\ init \in PowersOf2 \cup {0} /\ (init > 0 => init >= 4)
  /\ pos \in Occupied(t) \cup {NoIter, Finished}
  /\ res \in Nat
  /\ res > 0 => Needed(res) <= init /\ init <= table_size(t)

LEMMA GoodIsMapInv ==
  MapInv <=> hash \in Hashes /\ Good(table_size_init, table, size, iter, reserved)
<1>1. Occupied(table) = {i \in DOMAIN table : table[i] # Empty}
  BY DEF Occupied
<1>2. ASSUME MapInv
      PROVE  Good(table_size_init, table, size, iter, reserved)
  <2>1. DOMAIN table \subseteq Nat
    BY <1>2 DEF MapInv, Sound, IsTable
  <2>2. iter \in Occupied(table) \cup {NoIter, Finished}
    BY <1>2, <2>1 DEF MapInv, TypeOK, Occupied
  <2> QED
    BY <1>1, <1>2, <2>2 DEF MapInv, Good, TypeOK, IsInit, ReservedInv
<1>3. ASSUME hash \in Hashes, Good(table_size_init, table, size, iter, reserved)
      PROVE  MapInv
  <2>1. IsTable(table) /\ Unique(table)
    BY <1>3 DEF Good, Sound
  <2>2. table \in [DOMAIN table -> Entries \cup {Empty}]
    BY <2>1 DEF IsTable
  <2>3. size = Cardinality(KeysOf(table)) /\ size = Cardinality(Occupied(table))
    BY <1>3, <2>1, CountFacts DEF Good
  <2>4. /\ iter \in DOMAIN table \cup {NoIter, Finished}
        /\ iter >= 0 => table[iter] # Empty
    BY <1>3 DEF Good, Occupied, NoIter, Finished
  <2>5. TypeOK
    BY <1>1, <1>3, <2>2, <2>3, <2>4 DEF TypeOK, Good
  <2> QED
    BY <1>3, <2>5 DEF MapInv, Good, IsInit, ReservedInv
<1>4. MapInv => hash \in Hashes
  BY DEF MapInv, TypeOK
<1> QED
  BY <1>2, <1>3, <1>4

LEMMA GoodNext ==
  ASSUME hash \in Hashes, hash' = hash,
         Good(table_size_init', table', size', iter', reserved')
  PROVE  MapInv'
<1>1. (MapInv <=> hash \in Hashes /\ Good(table_size_init, table, size, iter, reserved))'
  BY GoodIsMapInv, PTL
<1>2. Good(table_size_init, table, size, iter, reserved)'
  BY Zenon DEF Good, Sound, IsTable, Unique, Reachable, Uncrossed, Home, Distance,
               Occupied, hashmap_calc_index
<1> QED
  BY <1>1, <1>2

-----------------------------------------------------------------------------
(* Every call keeps the invariant and is a call to the abstract map.       *)

LEMMA GoodBlank ==
  ASSUME NEW n \in Nat, NEW init \in PowersOf2 \cup {0}, init > 0 => init >= 4,
         NEW res \in Nat, res > 0 => Needed(res) <= init /\ init <= n
  PROVE  /\ Good(init, Blank(n), 0, NoIter, res)
         /\ ContentOf(Blank(n)) = [k \in Keys |-> NULL]
<1>1. /\ Sound(Blank(n)) /\ table_size(Blank(n)) = n
      /\ Occupied(Blank(n)) = {} /\ EntriesOf(Blank(n)) = {}
  BY BlankFacts
<1>2. Cardinality(Occupied(Blank(n))) = 0
  BY <1>1, FS_EmptySet
<1> QED
  BY <1>1, <1>2, NoContent DEF Good

(* What the proofs about the calls use of the invariant.                   *)
LEMMA GoodFacts ==
  ASSUME MapInv
  PROVE  /\ hash \in Hashes
         /\ Good(table_size_init, table, size, iter, reserved)
         /\ Sound(table) /\ IsTable(table) /\ table_size(table) \in Nat
         /\ DOMAIN table = 0..table_size(table) - 1
         /\ size = Cardinality(Occupied(table)) /\ size \in Nat
         /\ table_size_init \in Nat /\ reserved \in Nat /\ Needed(size) <= 2^30
         /\ iter >= 0 => iter \in Occupied(table)
<1>1. hash \in Hashes /\ Good(table_size_init, table, size, iter, reserved)
  BY GoodIsMapInv
<1>2. Sound(table) /\ IsTable(table) /\ Unique(table)
  BY <1>1 DEF Good, Sound
<1>3. table_size(table) \in Nat /\ DOMAIN table = 0..table_size(table) - 1
  BY <1>1, <1>2, TableFacts
<1>4. /\ size = Cardinality(Occupied(table)) /\ size \in Nat
      /\ size <= Cardinality(Keys)
  BY <1>1, <1>2, CountFacts DEF Good
<1>5. table_size_init \in Nat /\ reserved \in Nat
  BY <1>1, PowerFacts DEF Good
<1>6. Cardinality(Keys) \in Nat /\ Needed(Cardinality(Keys)) <= 2^30
  BY MapAssumption, FS_CardinalityType
<1>7. Needed(size) <= 2^30
  <2>1. /\ Needed(size) \in Nat /\ Needed(Cardinality(Keys)) \in Nat
        /\ Needed(size) <= Needed(Cardinality(Keys))
    BY <1>4, <1>6, NeededFacts
  <2> QED
    BY <1>6, <2>1, PowerFacts
<1>8. iter >= 0 => iter \in Occupied(table)
  BY <1>1 DEF Good, NoIter, Finished
<1> QED
  BY <1>1, <1>2, <1>3, <1>4, <1>5, <1>7, <1>8

LEMMA ContentIs == Content = ContentOf(table) /\ Content' = ContentOf(table')
BY DEF Content, ContentOf, KeysOf

LEMMA EmptyingStep ==
  ASSUME MapInv,
         hashmap_base_init \/ hashmap_base_cleanup \/ hashmap_base_clear
           \/ hashmap_base_reset
  PROVE  MapInv' /\ Map!Next
<1>1. /\ hash \in Hashes /\ table_size(table) \in Nat
      /\ table_size_init \in Nat /\ reserved \in Nat
      /\ Good(table_size_init, table, size, iter, reserved)
  BY GoodFacts
<1>2. hash' = hash /\ result' = NULL /\ size' = 0 /\ iter' = NoIter
  BY DEF hashmap_base_init, hashmap_base_cleanup, hashmap_base_clear,
         hashmap_base_reset, Fresh, IteratorGone
<1>3. HASHMAP_SIZE_DEFAULT \in PowersOf2 /\ HASHMAP_SIZE_DEFAULT >= 4
  BY MapAssumption
<1>4. \E n \in Nat :
        /\ table' = Blank(n)
        /\ table_size_init' \in PowersOf2 \cup {0} /\ reserved' \in Nat
        /\ table_size_init' > 0 => table_size_init' >= 4
        /\ reserved' > 0 => Needed(reserved') <= table_size_init' /\ table_size_init' <= n
  <2>1. CASE hashmap_base_init
    BY <1>3, <2>1 DEF hashmap_base_init, Fresh
  <2>2. CASE hashmap_base_cleanup
    BY <2>2 DEF hashmap_base_cleanup
  <2>3. CASE hashmap_base_clear
    BY <1>1, <2>3 DEF hashmap_base_clear, Good
  <2>4. CASE hashmap_base_reset
    BY <1>1, <2>4 DEF hashmap_base_reset, Good
  <2> QED
    BY <2>1, <2>2, <2>3, <2>4
<1>5. /\ Good(table_size_init', table', size', iter', reserved')
      /\ ContentOf(table') = [k \in Keys |-> NULL]
  BY <1>2, <1>4, GoodBlank
<1>6. MapInv'
  BY <1>1, <1>2, <1>5, GoodNext
<1>7. Map!Clear
  BY <1>2, <1>5, ContentIs DEF Map!Clear
<1> QED
  BY <1>6, <1>7 DEF Map!Next

(* The calls of the iterator that remove nothing.                          *)
LEMMA IterStep ==
  ASSUME MapInv, hashmap_base_iter \/ hashmap_base_iter_next
  PROVE  MapInv' /\ Map!Next
<1>1. /\ hash \in Hashes /\ IsTable(table)
      /\ Good(table_size_init, table, size, iter, reserved)
  BY GoodFacts
<1>2. /\ UNCHANGED <<hash, table_size_init, table, size, reserved>> /\ result' = NULL
      /\ \E from : iter' = hashmap_entry_get_populated(table, from)
  BY DEF hashmap_base_iter, hashmap_base_iter_next
<1>3. iter' \in Occupied(table) \cup {Finished}
  BY <1>1, <1>2, PopulatedFacts
<1>4. Good(table_size_init', table', size', iter', reserved')
  BY <1>1, <1>2, <1>3 DEF Good
<1>5. MapInv'
  BY <1>1, <1>2, <1>4, GoodNext
<1>6. Map!Other
  BY <1>2, ContentIs DEF Map!Other
<1> QED
  BY <1>5, <1>6 DEF Map!Next

(* What is left when an entry was removed.                                 *)
LEMMA GoodRemoved ==
  ASSUME MapInv, NEW slot \in Occupied(table)
  PROVE  LET t == hashmap_entry_remove(table, slot) IN
         /\ \A pos \in Occupied(t) \cup {NoIter, Finished} :
              Good(table_size_init, t, size - 1, pos, reserved)
         /\ IsTable(t)
         /\ table[slot].key \in Keys
         /\ ContentOf(table)[table[slot].key] = table[slot].data
         /\ ContentOf(t) = [ContentOf(table) EXCEPT ![table[slot].key] = NULL]
<1> DEFINE t == hashmap_entry_remove(table, slot)
<1>1. /\ hash \in Hashes /\ Sound(table) /\ size = Cardinality(Occupied(table))
      /\ Good(table_size_init, table, size, iter, reserved)
  BY GoodFacts
<1>2. /\ Sound(t) /\ table_size(t) = table_size(table)
      /\ EntriesOf(t) = EntriesOf(table) \ {table[slot]}
  BY <1>1, RemoveFacts
<1> HIDE DEF t
<1>3. /\ ContentOf(t) = [ContentOf(table) EXCEPT ![table[slot].key] = NULL]
      /\ Cardinality(Occupied(t)) = size - 1
      /\ table[slot].key \in Keys
      /\ ContentOf(table)[table[slot].key] = table[slot].data
  BY <1>1, <1>2, LessContent
<1>4. \A pos \in Occupied(t) \cup {NoIter, Finished} :
        Good(table_size_init, t, size - 1, pos, reserved)
  BY <1>1, <1>2, <1>3 DEF Good
<1> QED
  BY <1>2, <1>3, <1>4 DEF t, Sound

LEMMA IterRemoveStep ==
  ASSUME MapInv, hashmap_base_iter_remove
  PROVE  MapInv' /\ Map!Next
<1> DEFINE t == hashmap_entry_remove(table, iter)
<1>1. hash \in Hashes /\ iter \in Occupied(table)
  BY GoodFacts DEF hashmap_base_iter_remove
<1>2. /\ UNCHANGED <<hash, table_size_init, reserved>>
      /\ table' = t /\ size' = size - 1 /\ result' = table[iter].data
      /\ iter' = hashmap_entry_get_populated(t, Onwards(iter))
  BY DEF hashmap_base_iter_remove
<1>3. /\ \A pos \in Occupied(t) \cup {NoIter, Finished} :
           Good(table_size_init, t, size - 1, pos, reserved)
      /\ IsTable(t) /\ table[iter].key \in Keys
      /\ ContentOf(table)[table[iter].key] = table[iter].data
      /\ ContentOf(t) = [ContentOf(table) EXCEPT ![table[iter].key] = NULL]
  BY <1>1, GoodRemoved
<1> HIDE DEF t
<1>4. iter' \in Occupied(t) \cup {Finished}
  BY <1>1, <1>2, <1>3, PopulatedFacts
<1>5. Good(table_size_init', table', size', iter', reserved')
  BY <1>2, <1>3, <1>4
<1>6. MapInv'
  BY <1>1, <1>2, <1>5, GoodNext
<1>7. Map!Remove(table[iter].key)
  BY <1>2, <1>3, ContentIs DEF Map!Remove
<1> QED
  BY <1>3, <1>6, <1>7 DEF Map!Next

LEMMA RemoveStep ==
  ASSUME MapInv, NEW k \in Keys, hashmap_base_remove(k)
  PROVE  MapInv' /\ Map!Next
<1> DEFINE slot == hashmap_entry_find(table, k)
           t == hashmap_entry_remove(table, slot)
<1>1. /\ hash \in Hashes /\ Sound(table)
      /\ Good(table_size_init, table, size, iter, reserved)
  BY GoodFacts
<1>2. UNCHANGED <<hash, table_size_init, reserved>> /\ iter' = NoIter
  BY DEF hashmap_base_remove, IteratorGone
<1>3. CASE IsAt(table, slot)
  <2>1. slot \in Occupied(table) /\ table[slot].key = k
    BY <1>1, <1>3, FoundFacts
  <2>2. table' = t /\ size' = size - 1 /\ result' = table[slot].data
    BY <1>3 DEF hashmap_base_remove
  <2>3. /\ \A pos \in Occupied(t) \cup {NoIter, Finished} :
             Good(table_size_init, t, size - 1, pos, reserved)
        /\ ContentOf(table)[k] = table[slot].data
        /\ ContentOf(t) = [ContentOf(table) EXCEPT ![k] = NULL]
    BY <2>1, GoodRemoved
  <2> HIDE DEF t, slot
  <2>4. Good(table_size_init', table', size', iter', reserved')
    BY <1>2, <2>2, <2>3
  <2>5. MapInv'
    BY <1>1, <1>2, <2>4, GoodNext
  <2>6. Map!Remove(k)
    BY <2>2, <2>3, ContentIs DEF Map!Remove
  <2> QED
    BY <2>5, <2>6 DEF Map!Next
<1>4. CASE ~IsAt(table, slot)
  <2>1. k \notin KeysOf(table)
    BY <1>1, <1>4, FoundFacts
  <2>2. UNCHANGED <<table, size>> /\ result' = NULL
    BY <1>4 DEF hashmap_base_remove
  <2>3. Good(table_size_init', table', size', iter', reserved')
    BY <1>1, <1>2, <2>2 DEF Good
  <2>4. MapInv'
    BY <1>1, <1>2, <2>3, GoodNext
  <2>5. ContentOf(table)[k] = NULL
    BY <1>1, <2>1, ContentFacts
  <2>6. Map!Get(k)
    BY <2>2, <2>5, ContentIs DEF Map!Get
  <2> QED
    BY <2>4, <2>6 DEF Map!Next
<1> QED
  BY <1>3, <1>4

LEMMA GetStep ==
  ASSUME MapInv, NEW k \in Keys, hashmap_base_get(k)
  PROVE  MapInv' /\ Map!Next
<1> DEFINE slot == hashmap_entry_find(table, k)
<1>1. /\ hash \in Hashes /\ Sound(table) /\ IsTable(table)
      /\ Good(table_size_init, table, size, iter, reserved)
  BY GoodFacts
<1>2. /\ UNCHANGED <<hash, table_size_init, table, size, iter, reserved>>
      /\ result' = IF IsAt(table, slot) THEN table[slot].data ELSE NULL
  BY DEF hashmap_base_get
<1>3. MapInv'
  BY <1>1, <1>2, GoodNext
<1>4. result' = ContentOf(table)[k]
  <2>1. CASE IsAt(table, slot)
    <3>1. slot \in Occupied(table) /\ table[slot].key = k
      BY <1>1, <2>1, FoundFacts
    <3> HIDE DEF slot
    <3>2. ContentOf(table)[k] = table[slot].data
      BY <1>1, <3>1, ContentFacts DEF EntriesOf
    <3> QED
      BY <1>2, <2>1, <3>2
  <2>2. CASE ~IsAt(table, slot)
    <3>1. k \notin KeysOf(table)
      BY <1>1, <2>2, FoundFacts
    <3> QED
      BY <1>1, <1>2, <2>2, <3>1, ContentFacts
  <2> QED
    BY <2>1, <2>2
<1>5. Map!Get(k)
  BY <1>2, <1>4, ContentIs DEF Map!Get
<1> QED
  BY <1>3, <1>5 DEF Map!Next

(* A table that was enlarged, or not, has the entries of the table.        *)
LEMMA Enlarged ==
  ASSUME MapInv, NEW n \in Nat,
         NEW t, t = table \/ (t = hashmap_rehash(table, n) /\ n > table_size(table))
  PROVE  /\ Sound(t) /\ table_size(t) \in Nat /\ table_size(t) >= table_size(table)
         /\ t # table => table_size(t) = n
         /\ size = Cardinality(Occupied(t))
         /\ KeysOf(t) = KeysOf(table) /\ ContentOf(t) = ContentOf(table)
<1>1. /\ hash \in Hashes /\ Sound(table) /\ table_size(table) \in Nat
      /\ size = Cardinality(Occupied(table))
  BY GoodFacts
<1>2. CASE t = table
  BY <1>1, <1>2
<1>3. CASE t = hashmap_rehash(table, n) /\ n > table_size(table)
  <2>1. Sound(t) /\ table_size(t) = n /\ EntriesOf(t) = EntriesOf(table)
    BY <1>1, <1>3, RehashFacts
  <2>2. /\ ContentOf(t) = ContentOf(table) /\ KeysOf(t) = KeysOf(table)
        /\ Cardinality(Occupied(t)) = Cardinality(Occupied(table))
    BY <1>1, <2>1, SameContent
  <2> QED
    BY <1>1, <1>3, <2>1, <2>2
<1> QED
  BY <1>2, <1>3

LEMMA ReserveStep ==
  ASSUME MapInv, NEW n \in Capacities, hashmap_base_reserve(n)
  PROVE  MapInv' /\ Map!Next
<1> DEFINE init == hashmap_calc_table_size(HASHMAP_SIZE_MIN, n)
<1>1. /\ hash \in Hashes /\ table_size(table) \in Nat
      /\ Good(table_size_init, table, size, iter, reserved)
  BY GoodFacts
<1>2. /\ HASHMAP_SIZE_MIN \in PowersOf2 /\ HASHMAP_SIZE_MIN >= 4
      /\ n \in Nat /\ Needed(n) <= 2^30
  BY MapAssumption
<1>3. init \in PowersOf2 /\ init \in Nat /\ init >= 4 /\ init >= Needed(n)
  <2>1. HASHMAP_SIZE_MIN \in Nat
    BY <1>2, PowerFacts
  <2>2. /\ init \in PowersOf2 \cup {HASHMAP_SIZE_MIN} /\ init \in Nat
        /\ init >= HASHMAP_SIZE_MIN /\ init >= Needed(n)
    BY <1>2, <2>1, CalcFacts
  <2> HIDE DEF init
  <2>3. init \in PowersOf2 /\ init >= Needed(n)
    BY <1>2, <2>2, Zenon
  <2>4. init >= 4
    <3>1. HASHMAP_SIZE_MIN >= 4 /\ init >= HASHMAP_SIZE_MIN
      BY <1>2, <2>2, Zenon
    <3> QED
      BY <2>1, <2>2, <3>1
  <2> QED
    BY <2>2, <2>3, <2>4
<1>4. UNCHANGED <<hash, size>> /\ iter' = NoIter
  BY DEF hashmap_base_reserve, IteratorGone
<1>5. CASE table_size_init' = table_size_init /\ result' = "ENOMEM"
           /\ UNCHANGED <<table, reserved>>
  <2>1. Good(table_size_init', table', size', iter', reserved')
    BY <1>1, <1>4, <1>5 DEF Good
  <2>2. MapInv'
    BY <1>1, <1>4, <2>1, GoodNext
  <2>3. Map!Other
    BY <1>5, ContentIs DEF Map!Other
  <2> QED
    BY <2>2, <2>3 DEF Map!Next
<1>6. CASE /\ table_size_init' = init /\ reserved' = n /\ result' = NULL
           /\ table' = IF init > table_size(table) THEN hashmap_rehash(table, init)
                                                   ELSE table
  <2> HIDE DEF init
  <2>1. \/ table' = table
        \/ table' = hashmap_rehash(table, init) /\ init > table_size(table)
    BY <1>6, Zenon
  <2>2. /\ Sound(table') /\ size = Cardinality(Occupied(table'))
        /\ table_size(table') \in Nat /\ table_size(table') >= table_size(table)
        /\ table' # table => table_size(table') = init
        /\ ContentOf(table') = ContentOf(table)
    BY <1>3, <2>1, Enlarged
  <2>3. table_size(table') >= init
    <3>1. CASE init > table_size(table)
      <4>1. table' = hashmap_rehash(table, init)
        BY <1>6, <3>1, Zenon
      <4>2. table_size(table') = init
        BY <1>1, <1>3, <3>1, <4>1, RehashFacts, GoodFacts
      <4> QED
        BY <1>3, <4>2
    <3>2. CASE ~(init > table_size(table))
      BY <1>1, <1>3, <2>2, <3>2
    <3> QED
      BY <3>1, <3>2
  <2>4. Good(table_size_init', table', size', iter', reserved')
    <3>1. init > 0 => init >= 4
      BY <1>3
    <3>2. Needed(n) <= init /\ init <= table_size(table')
      BY <1>3, <2>3
    <3> HIDE <1>2
    <3> QED
      BY <1>2, <1>3, <1>4, <1>6, <2>2, <3>1, <3>2, Zenon DEF Good
  <2>5. MapInv'
    BY <1>1, <1>4, <2>4, GoodNext
  <2>6. Map!Other
    BY <1>6, <2>2, ContentIs DEF Map!Other
  <2> QED
    BY <2>5, <2>6 DEF Map!Next
<1> QED
  BY <1>5, <1>6 DEF hashmap_base_reserve, Restored

LEMMA PutStep ==
  ASSUME MapInv, NEW k \in Keys, NEW d \in DataOf[k], hashmap_base_put(k, d)
  PROVE  MapInv' /\ Map!Next
<1> DEFINE n == hashmap_calc_table_size(table_size_init, size)
           e == [key |-> k, data |-> d]
<1>1. /\ hash \in Hashes /\ table_size(table) \in Nat /\ size \in Nat
      /\ table_size_init \in Nat /\ Needed(size) <= 2^30
      /\ Good(table_size_init, table, size, iter, reserved)
  BY GoodFacts
<1>2. n \in Nat /\ size < n
  <2>1. n \in Nat /\ n >= table_size_init /\ n >= Needed(size)
    BY <1>1, CalcFacts
  <2> HIDE DEF n
  <2>2. table_size_init >= 4
    BY <1>1 DEF Good, hashmap_base_put, IsInit
  <2>3. n >= 4
    BY <1>1, <2>1, <2>2
  <2> QED
    BY <1>1, <2>1, <2>3, NeededFacts
<1>3. /\ UNCHANGED <<hash, table_size_init, reserved>> /\ iter' = NoIter
  BY DEF hashmap_base_put, IteratorGone
<1>4. PICK t \in IF n > table_size(table) THEN {hashmap_rehash(table, n), table}
                 ELSE {table} :
        LET slot == hashmap_entry_find(t, k) IN
        CASE slot = NotFound ->
               /\ table' = t /\ result' = IF t = table /\ n > table_size(table)
                                            THEN "ENOMEM" ELSE "EADDRNOTAVAIL"
               /\ UNCHANGED size
          [] slot # NotFound /\ IsAt(t, slot) ->
               table' = t /\ result' = "EEXIST" /\ UNCHANGED size
          [] OTHER ->
               /\ table' = [t EXCEPT ![slot] = [key |-> k, data |-> d]]
               /\ size' = size + 1 /\ result' = "OK"
  BY Zenon DEF hashmap_base_put
<1> DEFINE slot == hashmap_entry_find(t, k)
           u == [t EXCEPT ![slot] = e]
<1>5. /\ slot = NotFound =>
           /\ table' = t /\ size' = size
           /\ result' = IF t = table /\ n > table_size(table) THEN "ENOMEM"
                                                              ELSE "EADDRNOTAVAIL"
      /\ slot # NotFound /\ IsAt(t, slot) =>
           table' = t /\ result' = "EEXIST" /\ size' = size
      /\ slot # NotFound /\ ~IsAt(t, slot) =>
           table' = u /\ size' = size + 1 /\ result' = "OK"
  BY <1>4
<1> HIDE DEF n
<1>6. \/ t = table
      \/ t = hashmap_rehash(table, n) /\ n > table_size(table)
  BY <1>4
<1>7. /\ Sound(t) /\ table_size(t) \in Nat /\ table_size(t) >= table_size(table)
      /\ t # table => table_size(t) = n
      /\ size = Cardinality(Occupied(t))
      /\ KeysOf(t) = KeysOf(table) /\ ContentOf(t) = ContentOf(table)
  BY <1>2, <1>6, Enlarged
<1> HIDE DEF slot, u
<1>8. e \in Entries /\ e.key = k /\ e.data = d /\ d \in Data /\ d # NULL
  BY MapAssumption DEF Entries, Data
<1> HIDE DEF e
(* There is a slot unless a larger table was needed and not to be had.     *)
<1>9. CASE slot = NotFound
  <2>1. k \notin KeysOf(table)
    BY <1>1, <1>7, <1>9, FoundFacts DEF slot
  <2>2. \A i \in DOMAIN t : t[i] # Empty
    BY <1>1, <1>7, <1>9, <2>1, FoundFacts DEF slot
  <2>3. size = table_size(t)
    BY <1>1, <1>7, <2>2, CountFacts DEF Sound
  <2>4. t = table
    BY <1>1, <1>2, <1>7, <2>3
  <2>5. n > table_size(table)
    BY <1>1, <1>2, <2>3, <2>4
  <2>6. table' = table /\ size' = size /\ result' = "ENOMEM"
    BY <1>5, <1>9, <2>4, <2>5
  <2>7. Good(table_size_init', table', size', iter', reserved')
    BY <1>1, <1>3, <2>6 DEF Good
  <2>8. MapInv'
    BY <1>1, <1>3, <2>7, GoodNext
  <2>9. Map!Other
    BY <2>6, ContentIs DEF Map!Other
  <2> QED
    BY <2>8, <2>9 DEF Map!Next
<1>10. CASE slot # NotFound /\ IsAt(t, slot)
  <2>1. k \in KeysOf(table)
    BY <1>1, <1>7, <1>10, FoundFacts DEF slot
  <2>2. table' = t /\ size' = size /\ result' = "EEXIST"
    BY <1>5, <1>10
  <2>3. Good(table_size_init', table', size', iter', reserved')
    BY <1>1, <1>3, <1>7, <2>2 DEF Good
  <2>4. MapInv'
    BY <1>1, <1>3, <2>3, GoodNext
  <2>5. ContentOf(table)[k] # NULL
    <3>1. Sound(table)
      BY GoodFacts
    <3>2. PICK x \in EntriesOf(table) : x.key = k
      BY <1>1, <2>1, <3>1, ContentFacts
    <3> QED
      BY <1>1, <3>1, <3>2, ContentFacts
  <2>6. ContentOf(table') = ContentOf(table)
    BY <1>7, <2>2
  <2>7. Map!Put(k, d)
    BY <2>2, <2>5, <2>6, ContentIs DEF Map!Put
  <2> QED
    BY <1>8, <2>4, <2>7 DEF Map!Next
<1>11. CASE slot # NotFound /\ ~IsAt(t, slot)
  <2>1. k \notin KeysOf(t)
    BY <1>1, <1>7, <1>11, FoundFacts DEF slot
  <2>2. table' = u /\ size' = size + 1 /\ result' = "OK"
    BY <1>5, <1>11
  <2>3. /\ Sound(u) /\ table_size(u) = table_size(t) /\ slot \notin Occupied(t)
        /\ Occupied(u) = Occupied(t) \cup {slot} /\ EntriesOf(u) = EntriesOf(t) \cup {e}
    BY <1>1, <1>7, <1>8, <1>11, <2>1, StoreFacts DEF slot, u
  <2>4. Cardinality(Occupied(u)) = size + 1
    <3>1. IsFiniteSet(Occupied(t))
      BY <1>1, <1>7, CountFacts DEF Sound
    <3> QED
      BY <1>7, <2>3, <3>1, FS_AddElement
  <2>5. Good(table_size_init', table', size', iter', reserved')
    BY <1>1, <1>3, <1>7, <2>2, <2>3, <2>4 DEF Good
  <2>6. MapInv'
    BY <1>1, <1>3, <2>5, GoodNext
  <2>7. ContentOf(table)[k] = NULL
    <3>1. Sound(table)
      BY GoodFacts
    <3> QED
      BY <1>1, <1>7, <2>1, <3>1, ContentFacts
  <2>8. ContentOf(table') = [ContentOf(table) EXCEPT ![k] = d]
    BY <1>1, <1>7, <1>8, <2>1, <2>2, <2>3, MoreContent
  <2>9. Map!Put(k, d)
    BY <2>2, <2>7, <2>8, ContentIs DEF Map!Put
  <2> QED
    BY <1>8, <2>6, <2>9 DEF Map!Next
<1> QED
  BY <1>9, <1>10, <1>11

-----------------------------------------------------------------------------

LEMMA MapInit == Init => MapInv /\ Map!Init
<1> SUFFICES ASSUME Init PROVE MapInv /\ Map!Init
  OBVIOUS
<1>1. /\ hash \in Hashes /\ table_size_init = HASHMAP_SIZE_DEFAULT
      /\ table = Blank(0) /\ size = 0 /\ reserved = 0 /\ iter = NoIter /\ result = NULL
  BY DEF Init
<1>2. HASHMAP_SIZE_DEFAULT \in PowersOf2 /\ HASHMAP_SIZE_DEFAULT >= 4
  BY MapAssumption
<1>3. /\ Good(HASHMAP_SIZE_DEFAULT, Blank(0), 0, NoIter, 0)
      /\ ContentOf(Blank(0)) = [k \in Keys |-> NULL]
  BY <1>2, GoodBlank
<1>4. MapInv
  BY <1>1, <1>3, GoodIsMapInv
<1>5. Map!Init
  BY <1>1, <1>3, ContentIs DEF Map!Init
<1> QED
  BY <1>4, <1>5

LEMMA MapStep == MapInv /\ [Next]_vars => MapInv' /\ [Map!Next]_(Map!vars)
<1> SUFFICES ASSUME MapInv, [Next]_vars PROVE MapInv' /\ [Map!Next]_(Map!vars)
  OBVIOUS
<1>1. CASE hashmap_base_init \/ hashmap_base_cleanup \/ hashmap_base_clear
             \/ hashmap_base_reset
  BY <1>1, EmptyingStep
<1>2. CASE hashmap_base_iter \/ hashmap_base_iter_next
  BY <1>2, IterStep
<1>3. CASE hashmap_base_iter_remove
  BY <1>3, IterRemoveStep
<1>4. ASSUME NEW n \in Capacities, hashmap_base_reserve(n)
      PROVE  MapInv' /\ Map!Next
  BY <1>4, ReserveStep
<1>5. ASSUME NEW k \in Keys, hashmap_base_get(k) PROVE MapInv' /\ Map!Next
  BY <1>5, GetStep
<1>6. ASSUME NEW k \in Keys, hashmap_base_remove(k) PROVE MapInv' /\ Map!Next
  BY <1>6, RemoveStep
<1>7. ASSUME NEW k \in Keys, NEW d \in DataOf[k], hashmap_base_put(k, d)
      PROVE  MapInv' /\ Map!Next
  BY <1>7, PutStep
<1>8. CASE UNCHANGED vars
  <2>1. /\ hash \in Hashes /\ Good(table_size_init, table, size, iter, reserved)
        /\ UNCHANGED <<hash, table_size_init, table, size, iter, reserved, result>>
    BY <1>8, GoodFacts DEF vars
  <2>2. MapInv'
    BY <2>1, GoodNext
  <2>3. UNCHANGED Map!vars
    BY <2>1, ContentIs DEF Map!vars
  <2> QED
    BY <2>2, <2>3
<1> QED
  BY <1>1, <1>2, <1>3, <1>4, <1>5, <1>6, <1>7, <1>8 DEF Next

THEOREM MapInvariant == Spec => []MapInv
BY MapInit, MapStep, PTL DEF Spec

(* Whatever is called, every variable stays in its domain, and size counts *)
(* the entries and the keys (hb->size, hashmap_entry_find).                *)
THEOREM MapTypes == Spec => []TypeOK
<1>1. MapInv => TypeOK
  BY DEF MapInv
<1> QED
  BY <1>1, MapInvariant, PTL

(* What hashmap_reserve made room for never enlarges the table again, not  *)
(* even after hashmap_reset.                                               *)
THEOREM ReservationKept == Spec => []ReservationHolds
<1>1. MapInv => ReservationHolds
  <2> SUFFICES ASSUME MapInv, size < reserved
               PROVE  hashmap_calc_table_size(table_size_init, size) <= table_size(table)
    BY DEF ReservationHolds
  <2>1. /\ Good(table_size_init, table, size, iter, reserved)
        /\ size \in Nat /\ reserved \in Nat /\ table_size(table) \in Nat
        /\ table_size_init \in Nat
    BY GoodFacts
  <2>2. Needed(reserved) <= table_size_init /\ table_size_init <= table_size(table)
    BY <2>1 DEF Good
  <2>3. /\ Needed(size) \in Nat /\ Needed(reserved) \in Nat
        /\ Needed(size) <= Needed(reserved) /\ reserved <= Needed(reserved)
    BY <2>1, NeededFacts
  <2>4. table_size_init \in PowersOf2 /\ Needed(size) <= table_size_init
    BY <2>1, <2>2, <2>3 DEF Good
  <2>5. /\ hashmap_calc_table_size(table_size_init, size) \in Nat
        /\ hashmap_calc_table_size(table_size_init, size) <= table_size_init
    BY <2>1, <2>4, CalcUpTo
  <2> QED
    BY <2>1, <2>2, <2>5
<1> QED
  BY <1>1, MapInvariant, PTL

(* Whatever the hash function and the order of the calls, what is found is *)
(* what was put and not removed since, no entry is overwritten, and a new  *)
(* one is refused only for want of memory (hashmap_put, hashmap_get,       *)
(* hashmap_remove and the iterator's removal).                             *)
THEOREM MapImplementsTable == Spec => ImplementsMap
BY MapInit, MapStep, PTL DEF Spec, ImplementsMap, Map!Spec

-----------------------------------------------------------------------------
(* Where removal moves the entries: towards the slot of the one that is    *)
(* removed, and past the end of the table only in a wrapped chain.         *)

Unwrapped(t) == DOMAIN t # {} => t[0] = Empty \/ t[table_size(t) - 1] = Empty

(* Distances are now taken from the slot of the removed entry.             *)
MovesInv(t, slot, i, r) ==
  /\ r \in ShiftStates(t)
  /\ From(t, slot, r.hole) <= i
  /\ \A q \in DOMAIN t : From(t, slot, q) > i => Emptied(r)[q] = t[q]
  /\ \A j \in Occupied(Emptied(r)) : \E p \in Occupied(t) :
       p # slot /\ Emptied(r)[j] = t[p] /\ From(t, slot, j) <= From(t, slot, p)
  /\ Unwrapped(t) =>
       /\ slot <= r.hole
       /\ \A q \in DOMAIN t : q < slot => Emptied(r)[q] = t[q]
       /\ ~r.done => /\ slot + i < table_size(t)
                     /\ \A q \in slot..slot + i : t[q] # Empty

LEMMA MovesBegin ==
  ASSUME hash \in Hashes, NEW t, IsTable(t), NEW slot \in Occupied(t)
  PROVE  MovesInv(t, slot, 0, Begin(t, slot))
<1> DEFINE r == Begin(t, slot)
           n == table_size(t)
           T == Emptied(r)
<1>1. /\ slot \in DOMAIN t /\ t[slot] # Empty /\ n \in Nat \ {0} /\ DOMAIN t = 0..n - 1
      /\ From(t, slot, slot) = 0
  <2>1. slot \in DOMAIN t /\ t[slot] # Empty
    BY DEF Occupied
  <2> QED
    BY <2>1, TableFacts DEF From, Ahead
<1>2. r \in ShiftStates(t) /\ r.table = t /\ r.hole = slot /\ ~r.done
  BY <1>1 DEF Begin, ShiftStates, IsTable
<1> HIDE DEF r
<1>3. /\ DOMAIN T = DOMAIN t /\ T[slot] = Empty
      /\ \A q \in DOMAIN t : q # slot => T[q] = t[q]
  BY <1>2, EmptiedFacts
<1> HIDE DEF T, n
<1>4. \A j \in Occupied(T) : j \in Occupied(t) /\ j # slot /\ T[j] = t[j]
  BY <1>3 DEF Occupied
<1>5. \A j \in DOMAIN t : From(t, slot, j) \in Int
  <2>1. \A j \in DOMAIN t : From(t, slot, j) \in DOMAIN t
    BY <1>1, CutFacts
  <2> QED
    BY <1>1, <2>1
<1>6. \A j \in Occupied(T) : \E p \in Occupied(t) :
        p # slot /\ T[j] = t[p] /\ From(t, slot, j) <= From(t, slot, p)
  <2> SUFFICES ASSUME NEW j \in Occupied(T)
               PROVE  /\ j \in Occupied(t) /\ j # slot /\ T[j] = t[j]
                      /\ From(t, slot, j) <= From(t, slot, j)
    OBVIOUS
  <2> QED
    BY <1>4, <1>5 DEF Occupied
<1>7. \A q \in slot..slot + 0 : t[q] # Empty
  BY <1>1
<1>8. \A q \in DOMAIN t : From(t, slot, q) > 0 => T[q] = t[q]
  BY <1>1, <1>3
<1>9. \A q \in DOMAIN t : q < slot => T[q] = t[q]
  BY <1>1, <1>3
<1> QED
  BY <1>1, <1>2, <1>6, <1>7, <1>8, <1>9 DEF MovesInv, T, r, n

LEMMA MovesGoOn ==
  ASSUME hash \in Hashes, NEW t, IsTable(t), NEW slot \in Occupied(t),
         NEW i \in Nat, i + 1 < table_size(t), NEW r, MovesInv(t, slot, i, r)
  PROVE  MovesInv(t, slot, i + 1, ShiftBack(r, (slot + (i + 1)) % table_size(t)))
<1> DEFINE n == table_size(t)
           x == (slot + (i + 1)) % n
           T == Emptied(r)
           next == ShiftBack(r, x)
           U == Emptied(next)
<1>1. slot \in DOMAIN t /\ r \in ShiftStates(t)
  BY DEF Occupied, MovesInv
<1>2. /\ n \in Nat \ {0} /\ DOMAIN t = 0..n - 1 /\ i + 1 \in 0..n - 1
      /\ \A q \in DOMAIN t : From(t, slot, q) \in DOMAIN t
      /\ \A q, p \in DOMAIN t : From(t, slot, q) = From(t, slot, p) => q = p
      /\ From(t, slot, slot) = 0
  <2>1. /\ n \in Nat \ {0} /\ DOMAIN t = 0..n - 1
        /\ \A q \in DOMAIN t : From(t, slot, q) \in DOMAIN t
        /\ \A q, p \in DOMAIN t : From(t, slot, q) = From(t, slot, p) => q = p
    BY <1>1, CutFacts
  <2>2. From(t, slot, slot) = 0
    BY <1>1, <2>1 DEF From, Ahead
  <2>3. i + 1 \in 0..n - 1
    BY <2>1
  <2> QED
    BY <2>1, <2>2, <2>3
<1>3. x \in DOMAIN t /\ From(t, slot, x) = i + 1
  <2>1. /\ x \in DOMAIN t
        /\ From(t, slot, x) = IF From(t, slot, slot) + (i + 1) < n
                              THEN From(t, slot, slot) + (i + 1)
                              ELSE From(t, slot, slot) + (i + 1) - n
    <3>1. i + 1 \in 0..table_size(t) - 1
      BY <1>2
    <3> QED
      BY <1>1, <3>1, IndexFacts
  <2> HIDE DEF n, x
  <2> QED
    BY <1>2, <2>1
<1>4. x = IF slot + (i + 1) < n THEN slot + (i + 1) ELSE slot + (i + 1) - n
  <2> HIDE DEF n
  <2>1. \A a \in 0..n - 1, d \in 0..n :
          (a + d) % n = IF a + d < n THEN a + d ELSE a + d - n
    BY <1>2, CircleFacts
  <2>2. slot \in 0..n - 1 /\ i + 1 \in 0..n
    BY <1>1, <1>2
  <2> QED
    BY <2>1, <2>2, Zenon
<1> HIDE DEF n, x
<1>5. /\ From(t, slot, r.hole) <= i
      /\ \A q \in DOMAIN t : From(t, slot, q) > i => T[q] = t[q]
      /\ \A j \in Occupied(T) : \E p \in Occupied(t) :
           p # slot /\ T[j] = t[p] /\ From(t, slot, j) <= From(t, slot, p)
  BY DEF MovesInv
<1>6. Unwrapped(t) =>
        /\ slot <= r.hole
        /\ \A q \in DOMAIN t : q < slot => T[q] = t[q]
        /\ ~r.done => slot + i < n /\ \A q \in slot..slot + i : t[q] # Empty
  BY DEF MovesInv, n
<1>7. /\ r.hole \in DOMAIN t /\ DOMAIN T = DOMAIN t /\ T[r.hole] = Empty
      /\ \A q \in DOMAIN t : q # r.hole => T[q] = r.table[q]
      /\ \A j \in Occupied(T) : j \in DOMAIN t
  BY <1>1, EmptiedFacts
<1>8. x # r.hole /\ x # slot /\ T[x] = r.table[x] /\ T[x] = t[x]
  BY <1>2, <1>3, <1>5, <1>7
<1> HIDE DEF T, next, U
(* The loop ends at the end of the table at the latest.                    *)
<1>9. ASSUME Unwrapped(t), ~r.done, r.table[x] # Empty
      PROVE  x = slot + (i + 1) /\ \A q \in slot..slot + (i + 1) : t[q] # Empty
  <2>1. t[x] # Empty
    BY <1>8, <1>9
  <2>2. slot + i < n /\ \A q \in slot..slot + i : t[q] # Empty
    BY <1>6, <1>9
  <2>3. CASE slot + (i + 1) < n
    <3>1. x = slot + (i + 1)
      BY <1>4, <2>3, Zenon
    <3>2. \A q \in slot..slot + (i + 1) : q \in slot..slot + i \/ q = slot + (i + 1)
      BY <1>1, <1>2
    <3> QED
      BY <2>1, <2>2, <3>1, <3>2
  <2>4. CASE ~(slot + (i + 1) < n)
    <3>1. slot + i = n - 1 /\ x = 0
      <4>1. slot \in Int /\ n \in Int
        BY <1>1, <1>2
      <4>2. slot + i < n
        BY <2>2
      <4>3. slot + i = n - 1
        BY <2>4, <4>1, <4>2
      <4>4. x = slot + (i + 1) - n
        BY <1>4, <2>4, Zenon
      <4> QED
        BY <4>1, <4>3, <4>4
    <3>2. t[n - 1] # Empty
      BY <1>1, <1>2, <2>2, <3>1
    <3> QED
      BY <1>1, <1>9, <2>1, <3>1, <3>2 DEF Unwrapped, n
  <2> QED
    BY <2>3, <2>4
<1>10. CASE r.done \/ r.table[x] = Empty \/ ~Shifts(r.table, x, r.hole)
  <2>1. /\ next \in ShiftStates(t) /\ next.hole = r.hole /\ U = T
        /\ ~next.done => ~r.done /\ r.table[x] # Empty
    BY <1>1, <1>10, UnshiftedFacts DEF next, U, T
  <2>2. From(t, slot, next.hole) <= i + 1
    BY <1>2, <1>5, <1>7, <2>1
  <2>3. \A q \in DOMAIN t : From(t, slot, q) > i + 1 => U[q] = t[q]
    BY <1>2, <1>5, <2>1
  <2>4. Unwrapped(t) /\ ~next.done => x = slot + (i + 1) /\ x \in 0..n - 1
          /\ \A q \in slot..slot + (i + 1) : t[q] # Empty
    BY <1>2, <1>3, <1>9, <2>1
  <2>5. Unwrapped(t) =>
          /\ slot <= next.hole
          /\ \A q \in DOMAIN t : q < slot => U[q] = t[q]
          /\ ~next.done => /\ slot + (i + 1) < n
                           /\ \A q \in slot..slot + (i + 1) : t[q] # Empty
    BY <1>2, <1>6, <2>1, <2>4
  <2> QED
    BY <1>5, <2>1, <2>2, <2>3, <2>5 DEF MovesInv, next, U, x, n
<1>11. CASE ~r.done /\ r.table[x] # Empty /\ Shifts(r.table, x, r.hole)
  <2>1. /\ next \in ShiftStates(t) /\ next.hole = x /\ ~next.done
        /\ DOMAIN U = DOMAIN t /\ U[x] = Empty /\ U[r.hole] = T[x]
        /\ \A q \in DOMAIN t : q # x /\ q # r.hole => U[q] = T[q]
    <3>1. x \in DOMAIN t /\ x # r.hole /\ r \in ShiftStates(t)
      BY <1>1, <1>3, <1>8
    <3> QED
      BY <1>11, <3>1, ShiftedFacts DEF next, U, T
  <2>2. From(t, slot, next.hole) <= i + 1
    BY <1>2, <1>3, <2>1
  <2>3. \A q \in DOMAIN t : From(t, slot, q) > i + 1 => U[q] = t[q]
    <3> SUFFICES ASSUME NEW q \in DOMAIN t, From(t, slot, q) > i + 1
                 PROVE  U[q] = t[q]
      OBVIOUS
    <3>1. q # x /\ q # r.hole /\ From(t, slot, q) > i
      BY <1>2, <1>3, <1>5, <1>7
    <3> QED
      BY <1>5, <2>1, <3>1
  <2>4. \A j \in Occupied(U) : \E p \in Occupied(t) :
          p # slot /\ U[j] = t[p] /\ From(t, slot, j) <= From(t, slot, p)
    <3> SUFFICES ASSUME NEW j \in Occupied(U)
                 PROVE  \E p \in Occupied(t) :
                          p # slot /\ U[j] = t[p] /\ From(t, slot, j) <= From(t, slot, p)
      OBVIOUS
    <3>1. CASE j = r.hole
      <4>1. x \in Occupied(t) /\ x # slot /\ U[j] = t[x]
        BY <1>3, <1>8, <1>11, <2>1, <3>1 DEF Occupied
      <4>2. From(t, slot, j) <= From(t, slot, x)
        BY <1>2, <1>3, <1>5, <1>7, <3>1
      <4> QED
        BY <4>1, <4>2
    <3>2. CASE j # r.hole
      <4>1. j \in Occupied(T) /\ U[j] = T[j]
        BY <1>7, <2>1, <3>2 DEF Occupied
      <4> QED
        BY <1>5, <4>1
    <3> QED
      BY <3>1, <3>2
  <2>5. ASSUME Unwrapped(t)
        PROVE  /\ slot <= next.hole
               /\ \A q \in DOMAIN t : q < slot => U[q] = t[q]
               /\ slot + (i + 1) < n
               /\ \A q \in slot..slot + (i + 1) : t[q] # Empty
    <3>1. x = slot + (i + 1) /\ \A q \in slot..slot + (i + 1) : t[q] # Empty
      BY <1>9, <1>11, <2>5
    <3>2. slot <= x /\ slot + (i + 1) < n
      BY <1>1, <1>2, <1>3, <3>1
    <3>3. slot <= r.hole /\ \A q \in DOMAIN t : q < slot => T[q] = t[q]
      BY <1>6, <2>5
    <3>4. \A q \in DOMAIN t : q < slot => q # x /\ q # r.hole
      BY <1>1, <1>2, <1>3, <1>7, <3>2, <3>3
    <3> QED
      BY <2>1, <3>1, <3>2, <3>3, <3>4
  <2> QED
    BY <2>1, <2>2, <2>3, <2>4, <2>5 DEF MovesInv, next, U, x, n
<1> QED
  BY <1>10, <1>11 DEF next, x, n

(* Seen from a slot, an entry behind it stays there when the entry in that *)
(* slot is removed, and if no chain is wrapped, nothing else gets there.   *)
LEMMA MovesFacts ==
  ASSUME hash \in Hashes, NEW t, Sound(t), NEW slot \in Occupied(t),
         size = Cardinality(Occupied(t))
  PROVE  LET u == hashmap_entry_remove(t, slot) IN
         /\ \A p \in Occupied(t) : p > slot =>
              \E j \in Occupied(u) : j >= slot /\ u[j] = t[p]
         /\ Unwrapped(t) =>
              /\ Unwrapped(u)
              /\ \A j \in Occupied(u) : j >= slot =>
                   \E p \in Occupied(t) : p > slot /\ u[j] = t[p]
<1> DEFINE n == table_size(t)
           u == hashmap_entry_remove(t, slot)
<1>1. IsTable(t) /\ Unique(t)
  BY DEF Sound
<1>2. /\ size \in Nat \ {0} /\ size <= n /\ n \in Nat \ {0} /\ DOMAIN t = 0..n - 1
      /\ slot \in DOMAIN t
  BY <1>1, RemoveLoop
<1>3. PICK after : Loop(t, slot, after) /\ u = Emptied(after[size - 1])
  BY <1>1, RemoveLoop
<1> DEFINE r == after[size - 1]
           I == {i \in Nat : i <= size - 1 => MovesInv(t, slot, i, after[i])}
<1>4. 0 \in I
  <2>1. MovesInv(t, slot, 0, after[0])
    BY <1>1, <1>3, MovesBegin DEF Loop
  <2> QED
    BY <2>1
<1>5. ASSUME NEW i \in Nat, i \in I PROVE i + 1 \in I
  <2>1. SUFFICES ASSUME i + 1 <= size - 1 PROVE MovesInv(t, slot, i + 1, after[i + 1])
    OBVIOUS
  <2>2. MovesInv(t, slot, i, after[i])
    BY <1>2, <1>5, <2>1
  <2>3. after[i + 1] = ShiftBack(after[i], (slot + (i + 1)) % table_size(t))
    <3>1. i + 1 \in 1..size - 1 /\ i + 1 - 1 = i
      BY <1>2, <2>1
    <3> QED
      BY <1>3, <3>1 DEF Loop
  <2>4. i + 1 < table_size(t)
    BY <1>2, <2>1
  <2> HIDE DEF I
  <2> QED
    BY <1>1, <2>2, <2>3, <2>4, MovesGoOn
<1>6. \A i \in Nat : i \in I
  <2> HIDE DEF I
  <2> QED
    BY <1>4, <1>5, NatInd
<1>7. MovesInv(t, slot, size - 1, r)
  <2>1. size - 1 \in Nat
    BY <1>2
  <2> QED
    BY <1>6, <2>1
<1>8. /\ Sound(u) /\ table_size(u) = n /\ EntriesOf(u) = EntriesOf(t) \ {t[slot]}
  BY RemoveFacts
<1>9. IsTable(u) /\ Unique(u) /\ DOMAIN u = DOMAIN t
  <2>1. IsTable(u) /\ Unique(u)
    BY <1>8 DEF Sound
  <2> HIDE DEF u
  <2> QED
    BY <1>2, <1>8, <2>1, TableFacts
<1> HIDE DEF u, r, I, n
<1>10. /\ \A j \in Occupied(u) : \E p \in Occupied(t) :
            p # slot /\ u[j] = t[p] /\ From(t, slot, j) <= From(t, slot, p)
       /\ Unwrapped(t) => \A q \in DOMAIN t : q < slot => u[q] = t[q]
  BY <1>3, <1>7 DEF MovesInv, r
<1>11. /\ \A q \in DOMAIN t : From(t, slot, q) =
                                IF slot <= q THEN q - slot ELSE q - slot + n
       /\ \A q \in Occupied(t) : q \in DOMAIN t
       /\ \A q \in Occupied(u) : q \in DOMAIN t
  BY <1>9 DEF From, Ahead, Occupied, n
<1>12. ASSUME NEW p \in Occupied(t), p > slot
       PROVE  \E j \in Occupied(u) : j >= slot /\ u[j] = t[p]
  <2>1. t[p] # t[slot]
    BY <1>1, <1>2, <1>12 DEF Unique
  <2>2. PICK j \in Occupied(u) : u[j] = t[p]
    BY <1>8, <2>1 DEF EntriesOf
  <2>3. PICK o \in Occupied(t) :
          o # slot /\ u[j] = t[o] /\ From(t, slot, j) <= From(t, slot, o)
    BY <1>10
  <2>4. o = p
    BY <1>1, <2>2, <2>3 DEF Unique
  <2>5. From(t, slot, j) <= p - slot
    BY <1>2, <1>11, <1>12, <2>3, <2>4
  <2>6. j >= slot
    BY <1>2, <1>11, <2>5
  <2> QED
    BY <2>2, <2>6
<1>13. ASSUME Unwrapped(t), NEW j \in Occupied(u), j >= slot
       PROVE  \E p \in Occupied(t) : p > slot /\ u[j] = t[p] /\ j <= p
  <2>1. PICK p \in Occupied(t) :
          p # slot /\ u[j] = t[p] /\ From(t, slot, j) <= From(t, slot, p)
    BY <1>10
  <2>2. ~(p < slot)
    <3> SUFFICES ASSUME p < slot PROVE FALSE
      OBVIOUS
    <3>1. u[p] = t[p] /\ p \in DOMAIN t
      BY <1>10, <1>11, <1>13
    <3>2. p \in Occupied(u)
      BY <1>9, <3>1 DEF Occupied
    <3>3. p = j
      BY <1>9, <2>1, <3>1, <3>2 DEF Unique
    <3> QED
      BY <1>2, <1>11, <1>13, <3>1, <3>3
  <2>3. p \in DOMAIN t /\ j \in DOMAIN t
    BY <1>11
  <2>4. p > slot
    BY <1>2, <2>1, <2>2, <2>3
  <2>5. j - slot <= p - slot
    BY <1>2, <1>11, <1>13, <2>1, <2>3, <2>4
  <2>6. j <= p
    BY <1>2, <2>3, <2>5
  <2> QED
    BY <2>1, <2>4, <2>6
<1>14. ASSUME Unwrapped(t) PROVE Unwrapped(u)
  <2> SUFFICES ASSUME u[0] # Empty, u[n - 1] # Empty PROVE FALSE
    BY <1>8 DEF Unwrapped
  <2>1. 0 \in Occupied(u) /\ n - 1 \in Occupied(u) /\ n - 1 >= slot
    BY <1>2, <1>9 DEF Occupied
  <2>2. PICK p \in Occupied(t) : p > slot /\ n - 1 <= p
    BY <1>13, <1>14, <2>1
  <2>3. p = n - 1 /\ t[n - 1] # Empty
    BY <1>2, <2>2 DEF Occupied
  <2>4. t[0] = Empty
    BY <1>2, <1>14, <2>3 DEF Unwrapped, n
  <2>5. 0 < slot
    BY <1>2, <2>4 DEF Occupied
  <2> QED
    BY <1>2, <1>10, <1>14, <2>4, <2>5
<1> QED
  BY <1>12, <1>13, <1>14 DEF u

-----------------------------------------------------------------------------
(* Iteration.                                                              *)

(* The slots an iterator has still to come by.                             *)
Behind(t, pos) == {i \in Occupied(t) : pos >= 0 /\ i > pos}
NotBefore(t, from) == {i \in Occupied(t) : i >= from}

(* What was there was visited, or is in one of the slots of rest.          *)
Visits(t, rest, v, st) ==
  /\ v \in [Keys -> Nat] /\ KeysOf(t) \subseteq st /\ st \subseteq Keys
  /\ \A k \in Keys : v[k] > 0 => k \in st
  /\ \A k \in st : v[k] > 0 \/ \E i \in rest : t[i].key = k

Once(t, rest, v) == /\ \A k \in Keys : v[k] <= 1
                    /\ \A i \in rest : v[t[i].key] = 0

VisitInv ==
  /\ visited \in [Keys -> Nat]
  /\ iter # NoIter =>
       /\ Visits(table, Behind(table, iter), visited, start)
       /\ ~(removing /\ wrapped) => Once(table, Behind(table, iter), visited)
       /\ ~wrapped => Unwrapped(table)

LEMMA FirstPopulated ==
  ASSUME hash \in Hashes, NEW t, IsTable(t), NEW from \in Nat
  PROVE  LET pos == hashmap_entry_get_populated(t, from) IN
         /\ pos = Finished => NotBefore(t, from) = {}
         /\ pos # Finished => pos \in NotBefore(t, from) /\ pos \in Nat
         /\ pos # Finished => NotBefore(t, from) = Behind(t, pos) \cup {pos}
<1> DEFINE there == {i \in DOMAIN t : i >= from /\ t[i] # Empty}
           pos == CHOOSE i \in there : \A j \in there : i <= j
<1>1. hashmap_entry_get_populated(t, from) = IF there = {} THEN Finished ELSE pos
  BY DEF hashmap_entry_get_populated
<1>2. there = NotBefore(t, from) /\ there \subseteq Nat
  BY TableFacts DEF Occupied, NotBefore
<1> HIDE DEF there
<1>3. there # {} => pos \in there /\ \A j \in there : pos <= j
  <2> SUFFICES ASSUME there # {} PROVE pos \in there /\ \A j \in there : pos <= j
    OBVIOUS
  <2>1. \E i \in there : \A j \in there : i <= j
    BY <1>2, NatMin
  <2> QED
    BY <2>1, Zenon
<1> HIDE DEF pos
<1>4. there # {} => pos # Finished /\ NotBefore(t, from) = Behind(t, pos) \cup {pos}
  <2> SUFFICES ASSUME there # {}
               PROVE  pos # Finished /\ NotBefore(t, from) = Behind(t, pos) \cup {pos}
    OBVIOUS
  <2>1. pos \in Nat /\ pos \in Occupied(t) /\ pos >= from
    BY <1>2, <1>3 DEF NotBefore
  <2>2. \A j \in Occupied(t) : j \in Nat
    BY TableFacts DEF Occupied
  <2>3. ASSUME NEW j PROVE j \in NotBefore(t, from) <=> j \in Behind(t, pos) \cup {pos}
    <3>1. CASE j \in Occupied(t)
      <4>1. j \in NotBefore(t, from) => pos <= j
        BY <1>2, <1>3
      <4> QED
        BY <2>1, <2>2, <3>1, <4>1 DEF NotBefore, Behind
    <3>2. CASE j \notin Occupied(t)
      BY <2>1, <3>2 DEF NotBefore, Behind
    <3> QED
      BY <3>1, <3>2
  <2>4. NotBefore(t, from) = Behind(t, pos) \cup {pos}
    BY <2>3
  <2> QED
    BY <2>1, <2>4 DEF Finished
<1>5. hashmap_entry_get_populated(t, from) = Finished <=> there = {}
  BY <1>1, <1>4
<1> QED
  BY <1>1, <1>2, <1>3, <1>4, <1>5

(* The iterator goes on to the next of its slots.                          *)
LEMMA VisitOn ==
  ASSUME hash \in Hashes, NEW t, IsTable(t), Unique(t), NEW from \in Nat, NEW v, NEW st,
         Visits(t, NotBefore(t, from), v, st)
  PROVE  LET pos == hashmap_entry_get_populated(t, from)
             w == Counted(v, t, pos)
         IN  /\ Visits(t, Behind(t, pos), w, st)
             /\ Once(t, NotBefore(t, from), v) => Once(t, Behind(t, pos), w)
<1> DEFINE pos == hashmap_entry_get_populated(t, from)
           w == Counted(v, t, pos)
           rest == NotBefore(t, from)
<1>1. /\ pos = Finished => rest = {}
      /\ pos # Finished => pos \in rest /\ pos \in Nat
      /\ pos # Finished => rest = Behind(t, pos) \cup {pos}
  BY FirstPopulated
<1> HIDE DEF pos, rest
<1>2. /\ v \in [Keys -> Nat] /\ KeysOf(t) \subseteq st /\ st \subseteq Keys
      /\ \A k \in Keys : v[k] > 0 => k \in st
      /\ \A k \in st : v[k] > 0 \/ \E i \in rest : t[i].key = k
  BY DEF Visits, rest
<1>3. CASE pos = Finished
  <2>1. w = v
    BY <1>3 DEF Counted
  <2>2. Behind(t, pos) = {}
    BY <1>3 DEF Behind, Finished
  <2>3. Visits(t, Behind(t, pos), w, st)
    BY <1>1, <1>2, <1>3, <2>1, <2>2 DEF Visits
  <2>4. Once(t, rest, v) => Once(t, Behind(t, pos), w)
    BY <2>1, <2>2 DEF Once
  <2> QED
    BY <2>3, <2>4 DEF pos, rest
<1>4. CASE pos # Finished
  <2>1. w = [v EXCEPT ![t[pos].key] = @ + 1]
    BY <1>4 DEF Counted
  <2>2. /\ pos \in Occupied(t) /\ t[pos].key \in Keys /\ t[pos].key \in KeysOf(t)
        /\ \A i \in Occupied(t) : t[i].key \in Keys
    BY <1>1, <1>4, TableFacts, KeyFacts DEF NotBefore, rest
  <2>3. /\ w \in [Keys -> Nat] /\ w[t[pos].key] = v[t[pos].key] + 1
        /\ \A k \in Keys : k # t[pos].key => w[k] = v[k]
    BY <1>2, <2>1, <2>2
  <2> HIDE DEF w
  <2>4. \A i \in Behind(t, pos) : i \in Occupied(t) /\ i # pos
    BY <1>1, <1>4 DEF Behind
  <2>5. \A k \in Keys : w[k] > 0 => k \in st
    BY <1>2, <2>2, <2>3
  <2>6. \A k \in st : w[k] > 0 \/ \E i \in Behind(t, pos) : t[i].key = k
    <3> SUFFICES ASSUME NEW k \in st
                 PROVE  w[k] > 0 \/ \E i \in Behind(t, pos) : t[i].key = k
      OBVIOUS
    <3>1. CASE k = t[pos].key
      BY <1>2, <2>2, <2>3, <3>1
    <3>2. CASE k # t[pos].key
      <4>1. k \in Keys /\ (v[k] > 0 \/ \E i \in Behind(t, pos) : t[i].key = k)
        BY <1>1, <1>2, <1>4, <3>2
      <4> QED
        BY <2>3, <3>2, <4>1
    <3> QED
      BY <3>1, <3>2
  <2>7. Visits(t, Behind(t, pos), w, st)
    BY <1>2, <2>3, <2>5, <2>6 DEF Visits
  <2>8. ASSUME Once(t, rest, v) PROVE Once(t, Behind(t, pos), w)
    <3>1. v[t[pos].key] = 0 /\ \A k \in Keys : v[k] <= 1
      BY <1>1, <1>4, <2>8 DEF Once
    <3>2. \A k \in Keys : w[k] <= 1
      BY <1>2, <2>2, <2>3, <3>1
    <3>3. ASSUME NEW i \in Behind(t, pos) PROVE w[t[i].key] = 0
      <4>1. t[i].key # t[pos].key /\ t[i].key \in Keys
        BY <2>2, <2>4 DEF Unique
      <4>2. v[t[i].key] = 0
        BY <1>1, <1>4, <2>8 DEF Once
      <4> QED
        BY <2>3, <4>1, <4>2
    <3> QED
      BY <3>2, <3>3 DEF Once
  <2> QED
    BY <2>7, <2>8 DEF pos, w, rest
<1> QED
  BY <1>3, <1>4

LEMMA VisitIter ==
  ASSUME MapInv, hashmap_base_iter
  PROVE  VisitInv'
<1>1. /\ hash \in Hashes /\ Sound(table) /\ IsTable(table)
      /\ DOMAIN table = 0..table_size(table) - 1
  BY GoodFacts
<1> DEFINE pos == hashmap_entry_get_populated(table, 0)
<1>2. /\ table' = table /\ iter' = pos /\ start' = KeysOf(table)
      /\ visited' = Counted(NoVisits, table, pos)
  BY DEF hashmap_base_iter
<1>3. KeysOf(table) = {table[i].key : i \in Occupied(table)} /\ KeysOf(table) \subseteq Keys
  BY <1>1, KeyFacts
<1>4. NotBefore(table, 0) = Occupied(table)
  BY <1>1 DEF NotBefore, Occupied
<1>5. NoVisits \in [Keys -> Nat] /\ \A k \in Keys : NoVisits[k] = 0
  BY DEF NoVisits
<1>6. Visits(table, NotBefore(table, 0), NoVisits, KeysOf(table))
  BY <1>3, <1>4, <1>5 DEF Visits
<1>7. Once(table, NotBefore(table, 0), NoVisits)
  <2>1. \A i \in Occupied(table) : table[i].key \in Keys
    BY <1>3
  <2> QED
    BY <1>4, <1>5, <2>1 DEF Once
<1>8. /\ Visits(table, Behind(table, pos), Counted(NoVisits, table, pos), KeysOf(table))
      /\ Once(table, Behind(table, pos), Counted(NoVisits, table, pos))
  BY <1>1, <1>6, <1>7, VisitOn DEF Sound
<1> HIDE DEF pos
<1>9. ~wrapped' => Unwrapped(table)
  <2> SUFFICES ASSUME DOMAIN table # {}
               PROVE  ~wrapped' => table[0] = Empty
                                   \/ table[table_size(table) - 1] = Empty
    BY DEF Unwrapped
  <2>1. table # Blank(0)
    BY DEF Blank
  <2>2. wrapped' = (/\ table # Blank(0) /\ table[0] # Empty
                    /\ table[table_size(table) - 1] # Empty)
    BY DEF hashmap_base_iter
  <2> QED
    BY <2>1, <2>2, Zenon
<1>10. Visits(table, Behind(table, iter), visited, start)'
  BY <1>2, <1>8, Zenon DEF Visits, Behind, Occupied, KeysOf
<1>11. Once(table, Behind(table, iter), visited)'
  BY <1>2, <1>8, Zenon DEF Once, Behind, Occupied
<1>12. Unwrapped(table)' <=> Unwrapped(table)
  BY <1>2, Zenon DEF Unwrapped, table_size
<1>13. (visited \in [Keys -> Nat])'
  BY <1>10 DEF Visits
<1> QED
  BY <1>9, <1>10, <1>11, <1>12, <1>13, Zenon DEF VisitInv

LEMMA VisitIterNext ==
  ASSUME MapInv, VisitInv, hashmap_base_iter_next
  PROVE  VisitInv'
<1>1. /\ hash \in Hashes /\ Sound(table) /\ IsTable(table)
      /\ iter \in Occupied(table) /\ iter \in Nat
      /\ \A i \in Occupied(table) : i \in Nat
  BY GoodFacts DEF hashmap_base_iter_next, Occupied
<1> DEFINE pos == hashmap_entry_get_populated(table, iter + 1)
<1>2. /\ table' = table /\ iter' = pos /\ start' = start
      /\ visited' = Counted(visited, table, pos)
  BY DEF hashmap_base_iter_next
<1>3. removing' = removing /\ wrapped' = wrapped
  BY Zenon DEF hashmap_base_iter_next
<1>4. NotBefore(table, iter + 1) = Behind(table, iter) /\ iter # NoIter
  <2>1. \A i \in Occupied(table) : i >= iter + 1 <=> iter >= 0 /\ i > iter
    BY <1>1
  <2>2. iter # NoIter
    BY <1>1 DEF NoIter
  <2>3. NotBefore(table, iter + 1) = Behind(table, iter)
    BY <2>1, Zenon DEF NotBefore, Behind
  <2> QED
    BY <2>2, <2>3
<1>5. /\ Visits(table, Behind(table, iter), visited, start)
      /\ ~(removing /\ wrapped) => Once(table, Behind(table, iter), visited)
      /\ ~wrapped => Unwrapped(table)
  BY <1>4, Zenon DEF VisitInv
<1>6. /\ Visits(table, Behind(table, pos), Counted(visited, table, pos), start)
      /\ Once(table, Behind(table, iter), visited) =>
           Once(table, Behind(table, pos), Counted(visited, table, pos))
  <2>1. iter + 1 \in Nat /\ Unique(table)
    BY <1>1 DEF Sound
  <2>2. Visits(table, NotBefore(table, iter + 1), visited, start)
    BY <1>4, <1>5
  <2> QED
    BY <1>1, <1>4, <2>1, <2>2, VisitOn
<1> HIDE DEF pos
<1>7. Visits(table, Behind(table, iter), visited, start)'
  BY <1>2, <1>6, Zenon DEF Visits, Behind, Occupied, KeysOf
<1>8. Once(table, Behind(table, pos), Counted(visited, table, pos)) =>
        Once(table, Behind(table, iter), visited)'
  BY <1>2, Zenon DEF Once, Behind, Occupied
<1>9. Unwrapped(table)' <=> Unwrapped(table)
  BY <1>2, Zenon DEF Unwrapped, table_size
<1>10. (visited \in [Keys -> Nat])'
  BY <1>7 DEF Visits
<1> QED
  BY <1>3, <1>5, <1>6, <1>7, <1>8, <1>9, <1>10, Zenon DEF VisitInv

LEMMA VisitIterRemove ==
  ASSUME MapInv, VisitInv, hashmap_base_iter_remove
  PROVE  VisitInv'
<1> DEFINE t == hashmap_entry_remove(table, iter)
           pos == hashmap_entry_get_populated(t, iter)
<1>1. /\ hash \in Hashes /\ Sound(table) /\ IsTable(table)
      /\ iter \in Occupied(table) /\ iter \in Nat
      /\ size = Cardinality(Occupied(table))
      /\ \A i \in Occupied(table) : i \in Nat
  BY GoodFacts DEF hashmap_base_iter_remove, Occupied
<1>2. /\ table' = t /\ iter' = pos /\ start' = start
      /\ visited' = Counted(visited, t, pos)
  BY DEF hashmap_base_iter_remove, Onwards
<1>3. removing' = TRUE /\ wrapped' = wrapped
  BY Zenon DEF hashmap_base_iter_remove
<1>4. /\ Visits(table, Behind(table, iter), visited, start)
      /\ ~wrapped => Once(table, Behind(table, iter), visited)
      /\ ~wrapped => Unwrapped(table)
  <2>1. iter # NoIter
    BY <1>1 DEF NoIter
  <2> QED
    BY <2>1, Zenon DEF VisitInv
<1>5. Sound(t) /\ EntriesOf(t) = EntriesOf(table) \ {table[iter]}
  BY <1>1, RemoveFacts
<1>6. IsTable(t) /\ Unique(t)
  BY <1>5 DEF Sound
<1>7. /\ \A p \in Occupied(table) : p > iter =>
           \E j \in Occupied(t) : j >= iter /\ t[j] = table[p]
      /\ Unwrapped(table) =>
           /\ Unwrapped(t)
           /\ \A j \in Occupied(t) : j >= iter =>
                \E p \in Occupied(table) : p > iter /\ t[j] = table[p]
  BY <1>1, MovesFacts
<1> HIDE DEF t
<1>8. Visits(t, NotBefore(t, iter), visited, start)
  <2>1. KeysOf(t) \subseteq KeysOf(table)
    BY <1>1, <1>5, <1>6, KeyFacts
  <2>2. \A k \in start : visited[k] > 0 \/ \E i \in NotBefore(t, iter) : t[i].key = k
    BY <1>4, <1>7 DEF Visits, Behind, NotBefore
  <2> QED
    BY <1>4, <2>1, <2>2 DEF Visits
<1>9. ASSUME Unwrapped(table), Once(table, Behind(table, iter), visited)
      PROVE  Once(t, NotBefore(t, iter), visited)
  <2>1. \A i \in NotBefore(t, iter) : \E p \in Behind(table, iter) : t[i] = table[p]
    BY <1>1, <1>7, <1>9 DEF NotBefore, Behind
  <2> QED
    BY <1>9, <2>1 DEF Once
<1>10. /\ Visits(t, Behind(t, pos), Counted(visited, t, pos), start)
       /\ Once(t, NotBefore(t, iter), visited) =>
            Once(t, Behind(t, pos), Counted(visited, t, pos))
  BY <1>1, <1>6, <1>8, VisitOn
<1> HIDE DEF pos
<1>11. Visits(table, Behind(table, iter), visited, start)'
  BY <1>2, <1>10, Zenon DEF Visits, Behind, Occupied, KeysOf
<1>12. Once(t, Behind(t, pos), Counted(visited, t, pos)) =>
         Once(table, Behind(table, iter), visited)'
  BY <1>2, Zenon DEF Once, Behind, Occupied
<1>13. Unwrapped(table)' <=> Unwrapped(t)
  BY <1>2, Zenon DEF Unwrapped, table_size
<1>14. (visited \in [Keys -> Nat])'
  BY <1>11 DEF Visits
<1> QED
  BY <1>3, <1>4, <1>7, <1>9, <1>10, <1>11, <1>12, <1>13, <1>14, Zenon DEF VisitInv

LEMMA VisitStep == MapInv /\ VisitInv /\ [Next]_vars => VisitInv'
<1> SUFFICES ASSUME MapInv, VisitInv, [Next]_vars PROVE VisitInv'
  OBVIOUS
<1>1. CASE hashmap_base_iter
  BY <1>1, VisitIter
<1>2. CASE hashmap_base_iter_next
  BY <1>2, VisitIterNext
<1>3. CASE hashmap_base_iter_remove
  BY <1>3, VisitIterRemove
<1>4. CASE IteratorGone
  <2>1. iter' = NoIter /\ visited' = NoVisits
    BY <1>4 DEF IteratorGone
  <2>2. (visited \in [Keys -> Nat])'
    BY <2>1 DEF NoVisits
  <2> QED
    BY <2>1, <2>2, Zenon DEF VisitInv
<1>5. CASE UNCHANGED <<table, iter, history>>
  <2>1. /\ table' = table /\ iter' = iter /\ visited' = visited /\ start' = start
        /\ removing' = removing /\ wrapped' = wrapped
    BY <1>5, Zenon DEF history
  <2>2. /\ Behind(table, iter)' = Behind(table, iter)
        /\ KeysOf(table)' = KeysOf(table)
    BY <2>1, Zenon DEF Behind, Occupied, KeysOf
  <2>3. Visits(table, Behind(table, iter), visited, start)
          => Visits(table, Behind(table, iter), visited, start)'
    BY <2>1, <2>2, Zenon DEF Visits
  <2>4. Once(table, Behind(table, iter), visited)
          => Once(table, Behind(table, iter), visited)'
    BY <2>1, <2>2, Zenon DEF Once
  <2>5. Unwrapped(table) => Unwrapped(table)'
    BY <2>1, Zenon DEF Unwrapped, table_size
  <2> QED
    BY <2>1, <2>3, <2>4, <2>5, Zenon DEF VisitInv
<1>6. UNCHANGED vars => UNCHANGED <<table, iter, history>>
  BY Zenon DEF vars
<1>7. \A k \in Keys : hashmap_base_get(k) => UNCHANGED <<table, iter, history>>
  BY Zenon DEF hashmap_base_get
<1>8. /\ hashmap_base_init \/ hashmap_base_cleanup \/ hashmap_base_clear
           \/ hashmap_base_reset => IteratorGone
      /\ \A n \in Capacities : hashmap_base_reserve(n) => IteratorGone
      /\ \A k \in Keys : /\ hashmap_base_remove(k) => IteratorGone
                         /\ \A d \in DataOf[k] : hashmap_base_put(k, d) => IteratorGone
  BY Zenon DEF hashmap_base_init, hashmap_base_cleanup, hashmap_base_clear,
               hashmap_base_reset, hashmap_base_reserve, hashmap_base_remove,
               hashmap_base_put
<1> QED
  BY <1>1, <1>2, <1>3, <1>4, <1>5, <1>6, <1>7, <1>8, Zenon DEF Next

(* An iteration comes by all that was there when it began, and unless it   *)
(* removes entries from a chain that is wrapped, only once by each         *)
(* (hashmap_iter_next, hashmap_iter_remove).                               *)
THEOREM EachIsVisited == Spec => []VisitsEach
<1>1. Init => VisitInv
  BY DEF Init, VisitInv, NoVisits
<1>2. VisitInv => VisitsEach
  <2> SUFFICES ASSUME VisitInv, iter = Finished, NEW k \in Keys
               PROVE  /\ k \in start <=> visited[k] > 0
                      /\ ~(removing /\ wrapped) => visited[k] <= 1
    BY Zenon DEF VisitsEach
  <2>1. Behind(table, iter) = {} /\ iter # NoIter
    BY DEF Behind, Finished, NoIter
  <2>2. /\ Visits(table, {}, visited, start)
        /\ ~(removing /\ wrapped) => Once(table, {}, visited)
    BY <2>1, Zenon DEF VisitInv
  <2>3. k \in start <=> visited[k] > 0
    BY <2>2 DEF Visits
  <2>4. Once(table, {}, visited) => visited[k] <= 1
    BY DEF Once
  <2> QED
    BY <2>2, <2>3, <2>4, Zenon
<1> QED
  BY <1>1, <1>2, MapInvariant, VisitStep, PTL DEF Spec
=============================================================================
