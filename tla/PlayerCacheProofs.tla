------------------------- MODULE PlayerCacheProofs -------------------------
(***************************************************************************)
(* Proofs about PlayerCache, for any number of players and of starts.  The *)
(* invariant describes the file: entries of different players, each as it  *)
(* was saved, whatever was torn off at the end.                            *)
(***************************************************************************)
EXTENDS PlayerCache, Integers, FiniteSetTheorems, SequenceTheorems, TLAPS

(* The last save left an end that nobody wrote.                            *)
Cut == torn /\ phase # "saving"

(* The i-th entry of the file begins within it.                            *)
IsEntry(i) == i \in 1..Len(file) /\ 2 * i - 1 <= Len(file)

(* The i-th entry is of the player p, with what was saved of p; of the     *)
(* last entry of a file that was cut, something is missing.                *)
EntryOf(i, p) ==
  /\ file[2 * i - 1] = Path(p)
  /\ 2 * i <= Len(file) =>
       \/ file[2 * i] = Actions(saved[p])
       \/ file[2 * i] \in Pieces /\ Cut /\ 2 * i = Len(file)
  /\ 2 * i > Len(file) => Cut

EntryInv ==
  \A i \in 1..Len(file) : IsEntry(i) =>
    \/ \E p \in Known(saved) \ todo : EntryOf(i, p)
    \/ file[2 * i - 1] \in Pieces /\ Cut /\ 2 * i - 1 = Len(file)

(* No player has two entries.                                              *)
DistinctInv ==
  \A i, j \in 1..Len(file) :
    IsEntry(i) /\ IsEntry(j) /\ file[2 * i - 1] = file[2 * j - 1] => i = j

(* A file that was not cut has an entry of every player written so far.    *)
WholeInv ==
  ~Cut => \A p \in Known(saved) \ todo :
            \E i \in 1..Len(file) : IsEntry(i) /\ file[2 * i - 1] = Path(p)

FileInv == EntryInv /\ DistinctInv /\ WholeInv

SaveInv ==
  /\ ~exists => file = <<>>
  /\ phase = "saving" => exists /\ saved = map /\ todo \subseteq Known(saved)
  /\ phase # "saving" => todo = {}
  /\ Len(file) + 2 * Cardinality(todo) <= 2 * Cardinality(Players)
  /\ tears <= starts /\ (phase # "off" => tears < starts)

(* Every torn save has broken at most one player, the last of them perhaps *)
(* in the file and not yet in the map.                                     *)
BrokenInv ==
  /\ Cardinality(Broken(map)) <= tears
  /\ phase # "saving" =>
       Cardinality(Broken(saved)) + (IF torn THEN 1 ELSE 0) <= tears

(* The players of which a start has found something else than was saved.   *)
Differing == {p \in Known(map) : map[p] # saved[p]}

FreshInv ==
  /\ phase = "aborted" => torn
  /\ phase = "fresh" =>
       /\ Known(map) \subseteq Known(saved) \ Long
       /\ Cardinality(Differing) <= IF torn THEN 1 ELSE 0
       /\ ~torn /\ Known(saved) \cap Long = {} => map = saved

CacheInv == TypeOK /\ FileInv /\ SaveInv /\ BrokenInv /\ FreshInv

-----------------------------------------------------------------------------
(* The fields of the file.                                                 *)

LEMMA FieldFacts ==
  /\ \A x \in Pieces : x \in Fields /\ x.kind = "piece"
  /\ \A f : Remains(f) \subseteq Pieces
  /\ \A p \in Players :
       /\ Path(p) \in Fields /\ Path(p).kind = "path" /\ Path(p).value = p
       /\ Path(p) \notin Pieces
  /\ \A m \in [Players -> States] : \A p \in Known(m) :
       /\ p \in Players /\ m[p] \in {"good", "broken"}
       /\ Actions(m[p]) \in Fields
  /\ \A s : Actions(s).kind = "actions" /\ Actions(s).value = s
<1>1. \A x \in Pieces : x \in Fields /\ x.kind = "piece"
  BY DEF Piece, Pieces, Fields
<1>2. \A p \in Players : /\ Path(p) \in Fields /\ Path(p).kind = "path"
                         /\ Path(p).value = p /\ Path(p) \notin Pieces
  BY <1>1 DEF Path, Fields
<1>6. \A f : Remains(f) \subseteq Pieces
  BY DEF Remains, Pieces, PieceOf
<1>3. \A m \in [Players -> States] : \A p \in Known(m) :
        p \in Players /\ m[p] \in {"good", "broken"}
  BY DEF Known, States
<1>4. \A s \in {"good", "broken"} : Actions(s) \in Fields
  BY DEF Actions, Fields
<1>5. \A s : Actions(s).kind = "actions" /\ Actions(s).value = s
  BY DEF Actions
<1> QED
  BY <1>1, <1>2, <1>3, <1>4, <1>5, <1>6

LEMMA SameFile ==
  ASSUME FileInv, UNCHANGED <<file, saved, todo>>, Cut' = Cut
  PROVE  FileInv'
BY DEF FileInv, EntryInv, DistinctInv, WholeInv, IsEntry, EntryOf, Known

(* A save begins with an empty file, of which nothing is expected yet.     *)
LEMMA EmptyFile ==
  ASSUME file = <<>>, Known(saved) \subseteq todo \/ Known(saved) = {}
  PROVE  FileInv
<1>1. 1..Len(file) = {}
  OBVIOUS
<1> QED
  BY <1>1 DEF FileInv, EntryInv, DistinctInv, WholeInv

(* One more entry is written.                                              *)
LEMMA SaveKeepsFile ==
  ASSUME TypeOK, FileInv, SaveInv, NEW p \in Players,
         ytdl_dl_player_cache_save_file(p)
  PROVE  /\ FileInv'
         /\ file' \in Seq(Fields) /\ Len(file') = Len(file) + 2
<1>1. /\ phase = "saving" /\ p \in todo /\ file' = file \o Entry(p)
      /\ todo' = todo \ {p} /\ phase' = phase /\ torn' = torn
      /\ saved' = saved /\ map' = map
      /\ saved = map /\ p \in Known(saved)
  BY DEF ytdl_dl_player_cache_save_file, history, SaveInv
<1>2. ~Cut /\ ~Cut'
  BY <1>1 DEF Cut
<1>3. /\ Path(p) \in Fields /\ Actions(saved[p]) \in Fields
      /\ Path(p).kind = "path" /\ Path(p).value = p
  BY <1>1, FieldFacts DEF TypeOK
<1>4. /\ Entry(p) \in Seq(Fields) /\ Len(Entry(p)) = 2
      /\ Entry(p)[1] = Path(p) /\ Entry(p)[2] = Actions(saved[p])
  BY <1>1, <1>3 DEF Entry
<1>5. Len(file) \in Nat /\ file \in Seq(Fields)
  BY LenProperties DEF TypeOK
<1>6. /\ file' \in Seq(Fields) /\ Len(file') = Len(file) + 2
      /\ \A k \in 1..Len(file) : file'[k] = file[k]
      /\ file'[Len(file) + 1] = Path(p)
      /\ file'[Len(file) + 2] = Actions(saved[p])
  <2>1. /\ file \o Entry(p) \in Seq(Fields)
        /\ Len(file \o Entry(p)) = Len(file) + 2
        /\ \A k \in 1..Len(file) + 2 : (file \o Entry(p))[k] =
             IF k <= Len(file) THEN file[k] ELSE Entry(p)[k - Len(file)]
    <3>1. PICK e \in Seq(Fields) :
            e = Entry(p) /\ Len(e) = 2 /\ Len(file) + Len(e) = Len(file) + 2
      BY <1>4
    <3>2. /\ file \o e \in Seq(Fields)
          /\ Len(file \o e) = Len(file) + Len(e)
          /\ \A k \in 1..Len(file) + Len(e) : (file \o e)[k] =
               IF k <= Len(file) THEN file[k] ELSE e[k - Len(file)]
      BY <1>5, ConcatProperties
    <3> QED
      BY <3>1, <3>2
  <2>2. /\ file' \in Seq(Fields) /\ Len(file') = Len(file) + 2
        /\ \A k \in 1..Len(file) + 2 : file'[k] =
             IF k <= Len(file) THEN file[k] ELSE Entry(p)[k - Len(file)]
    BY <1>1, <2>1
  <2>3. file'[Len(file) + 1] = Entry(p)[1] /\ file'[Len(file) + 2] = Entry(p)[2]
    BY <1>5, <2>2
  <2> QED
    BY <1>4, <1>5, <2>2, <2>3
<1>7. PICK h \in Nat : Len(file) = 2 * h
  <2>1. CASE Len(file) = 0
    BY <2>1
  <2>2. CASE Len(file) # 0
    <3>1. \A i \in 1..Len(file) : IsEntry(i) => 2 * i <= Len(file)
      BY <1>2 DEF FileInv, EntryInv, EntryOf
    <3>2. PICK h \in Nat : Len(file) = 2 * h \/ Len(file) = 2 * h + 1
      <4>1. /\ Len(file) \div 2 \in Nat
            /\ \/ Len(file) = 2 * (Len(file) \div 2)
               \/ Len(file) = 2 * (Len(file) \div 2) + 1
        BY <1>5
      <4> QED
        BY <4>1
    <3>3. CASE Len(file) = 2 * h + 1
      <4>1. h + 1 \in 1..Len(file) /\ IsEntry(h + 1)
        BY <3>2, <3>3 DEF IsEntry
      <4> QED
        BY <3>1, <3>2, <3>3, <4>1
    <3> QED
      BY <3>2, <3>3
  <2> QED
    BY <2>1, <2>2
<1>8. /\ \A i \in 1..Len(file') : IsEntry(i)' => i \in 1..h + 1
      /\ \A i \in 1..h : /\ IsEntry(i) /\ i \in 1..Len(file)
                         /\ file'[2 * i - 1] = file[2 * i - 1]
                         /\ file'[2 * i] = file[2 * i]
      /\ IsEntry(h + 1)' /\ h + 1 \in 1..Len(file')
      /\ file'[2 * (h + 1) - 1] = Path(p)
      /\ file'[2 * (h + 1)] = Actions(saved[p])
      /\ 2 * (h + 1) = Len(file')
  BY <1>5, <1>6, <1>7 DEF IsEntry
<1>9. ASSUME NEW i \in 1..h
      PROVE  \E q \in Known(saved) \ todo : EntryOf(i, q)
  BY <1>2, <1>8 DEF FileInv, EntryInv
<1>10. EntryInv'
  <2> SUFFICES ASSUME NEW i \in 1..Len(file'), IsEntry(i)'
               PROVE  \E q \in (Known(saved) \ todo)' : EntryOf(i, q)'
    BY DEF EntryInv
  <2>1. CASE i = h + 1
    <3>1. p \in (Known(saved) \ todo)'
      BY <1>1 DEF Known
    <3>2. EntryOf(i, p)'
      BY <1>1, <1>6, <1>7, <1>8, <2>1 DEF EntryOf
    <3> QED
      BY <3>1, <3>2
  <2>2. CASE i # h + 1
    <3>1. i \in 1..h
      BY <1>7, <1>8, <2>2
    <3>2. PICK q \in Known(saved) \ todo : EntryOf(i, q)
      BY <1>9, <3>1
    <3>3. q \in (Known(saved) \ todo)'
      BY <1>1 DEF Known
    <3>4. EntryOf(i, q)'
      BY <1>1, <1>2, <1>6, <1>7, <1>8, <3>1, <3>2 DEF EntryOf
    <3> QED
      BY <3>3, <3>4
  <2> QED
    BY <2>1, <2>2
<1>11. DistinctInv'
  <2>1. ASSUME NEW i \in 1..h PROVE file'[2 * i - 1] # Path(p)
    <3>1. PICK q \in Known(saved) \ todo : EntryOf(i, q)
      BY <1>9
    <3>2. q # p /\ q \in Players
      BY <1>1 DEF Known
    <3>3. file'[2 * i - 1] = Path(q)
      BY <1>8, <3>1 DEF EntryOf
    <3> QED
      BY <3>2, <3>3, FieldFacts
  <2>2. ASSUME NEW i \in 1..h + 1, NEW j \in 1..h + 1,
               file'[2 * i - 1] = file'[2 * j - 1]
        PROVE  i = j
    <3>1. CASE i \in 1..h /\ j \in 1..h
      BY <1>8, <2>2, <3>1 DEF FileInv, DistinctInv
    <3>2. CASE i = h + 1
      <4>1. ~(j \in 1..h)
        BY <1>8, <2>1, <2>2, <3>2
      <4> QED
        BY <1>7, <3>2, <4>1
    <3>3. CASE j = h + 1
      <4>1. ~(i \in 1..h)
        BY <1>8, <2>1, <2>2, <3>3
      <4> QED
        BY <1>7, <3>3, <4>1
    <3> QED
      BY <1>7, <3>1, <3>2, <3>3
  <2> QED
    BY <1>8, <2>2 DEF DistinctInv
<1>12. WholeInv'
  <2> SUFFICES ASSUME NEW q \in (Known(saved) \ todo)'
               PROVE  \E i \in 1..Len(file') : IsEntry(i)' /\ file'[2 * i - 1] = Path(q)
    BY DEF WholeInv
  <2>1. CASE q = p
    BY <1>8, <2>1
  <2>2. CASE q # p
    <3>1. q \in Known(saved) \ todo
      BY <1>1, <2>2 DEF Known
    <3>2. PICK i \in 1..Len(file) : IsEntry(i) /\ file[2 * i - 1] = Path(q)
      BY <1>2, <3>1 DEF FileInv, WholeInv
    <3>3. Len(file) \in Nat /\ Len(file') >= Len(file) /\ file'[2 * i - 1] = Path(q)
      BY <1>5, <1>6, <3>2 DEF IsEntry
    <3>4. i \in 1..Len(file') /\ IsEntry(i)'
      BY <1>5, <3>2, <3>3 DEF IsEntry
    <3> QED
      BY <3>3, <3>4
  <2> QED
    BY <2>1, <2>2
<1> QED
  BY <1>6, <1>10, <1>11, <1>12 DEF FileInv

(* The save is not written to the end.                                     *)
LEMMA TornKeepsFile ==
  ASSUME TypeOK, FileInv, SaveInv, Torn
  PROVE  FileInv' /\ file' \in Seq(Fields) /\ Len(file') <= Len(file)
<1>1. /\ phase = "saving" /\ saved' = saved /\ todo' = {}
      /\ ~Cut /\ Cut'
  BY DEF Torn, Cut
<1>2. Len(file) \in Nat /\ file \in Seq(Fields)
  BY LenProperties DEF TypeOK
<1>3. PICK n \in 0..Len(file) :
        \/ file' = SubSeq(file, 1, n)
        \/ n < Len(file) /\ \E x \in Pieces : file' = Append(SubSeq(file, 1, n), x)
  BY FieldFacts DEF Torn
<1>4. PICK a \in Seq(Fields) : /\ a = SubSeq(file, 1, n) /\ Len(a) = n
                               /\ \A k \in 1..n : a[k] = file[k]
  <2>1. \A k \in 1..n : file[k] \in Fields
    BY <1>2, <1>3, ElementOfSeq
  <2>2. /\ SubSeq(file, 1, n) \in Seq(Fields)
        /\ Len(SubSeq(file, 1, n)) = IF 1 <= n THEN n - 1 + 1 ELSE 0
        /\ \A k \in 1..n - 1 + 1 : SubSeq(file, 1, n)[k] = file[1 + k - 1]
    BY <2>1, SubSeqProperties
  <2>3. Len(SubSeq(file, 1, n)) = n
    BY <2>2
  <2>4. ASSUME NEW k \in 1..n PROVE SubSeq(file, 1, n)[k] = file[k]
    <3>1. k \in 1..n - 1 + 1 /\ 1 + k - 1 = k
      OBVIOUS
    <3> QED
      BY <2>2, <3>1
  <2> QED
    BY <2>2, <2>3, <2>4
<1>5. /\ file' \in Seq(Fields) /\ Len(file') \in {n, n + 1}
      /\ Len(file') <= Len(file)
      /\ \A k \in 1..n : file'[k] = file[k]
      /\ Len(file') = n + 1 => file'[n + 1] \in Pieces
  <2>1. CASE file' = SubSeq(file, 1, n)
    BY <1>2, <1>3, <1>4, <2>1
  <2>2. CASE n < Len(file) /\ \E x \in Pieces : file' = Append(SubSeq(file, 1, n), x)
    <3>1. PICK x \in Pieces : file' = Append(a, x)
      BY <1>4, <2>2
    <3>2. x \in Fields
      BY FieldFacts
    <3>3. /\ file' \in Seq(Fields) /\ Len(file') = n + 1
          /\ \A k \in 1..n + 1 : file'[k] = IF k = n + 1 THEN x ELSE a[k]
      BY <1>4, <3>1, <3>2, AppendProperties
    <3> QED
      BY <1>2, <1>3, <1>4, <2>2, <3>3
  <2> QED
    BY <1>3, <2>1, <2>2
<1>6. ASSUME NEW i \in 1..Len(file'), IsEntry(i)', 2 * i - 1 <= n
      PROVE  /\ i \in 1..Len(file) /\ IsEntry(i)
             /\ file'[2 * i - 1] = file[2 * i - 1]
             /\ \E p \in Known(saved) \ todo : EntryOf(i, p)
  <2>1. /\ i \in 1..Len(file) /\ IsEntry(i)
        /\ file'[2 * i - 1] = file[2 * i - 1]
    BY <1>2, <1>3, <1>5, <1>6 DEF IsEntry
  <2> QED
    BY <1>1, <2>1 DEF FileInv, EntryInv
<1>7. ASSUME NEW i \in 1..Len(file'), IsEntry(i)', ~(2 * i - 1 <= n)
      PROVE  2 * i - 1 = n + 1 /\ 2 * i - 1 = Len(file') /\ file'[2 * i - 1] \in Pieces
  BY <1>2, <1>3, <1>5, <1>7 DEF IsEntry
<1>8. EntryInv'
  <2> SUFFICES ASSUME NEW i \in 1..Len(file'), IsEntry(i)'
               PROVE  \/ \E p \in (Known(saved) \ todo)' : EntryOf(i, p)'
                      \/ file'[2 * i - 1] \in Pieces /\ Cut' /\ 2 * i - 1 = Len(file')
    BY DEF EntryInv
  <2>1. CASE 2 * i - 1 <= n
    <3>1. PICK p \in Known(saved) \ todo : EntryOf(i, p)
      BY <1>6, <2>1
    <3>2. p \in (Known(saved) \ todo)'
      BY <1>1 DEF Known
    <3>3. /\ file'[2 * i - 1] = Path(p)
          /\ 2 * i <= Len(file) /\ file[2 * i] = Actions(saved[p])
      BY <1>1, <1>2, <1>6, <2>1, <3>1 DEF EntryOf, IsEntry
    <3>4. EntryOf(i, p)'
      <4>1. CASE 2 * i <= n
        <5>1. file'[2 * i] = Actions(saved[p])
          BY <1>5, <3>3, <4>1
        <5> QED
          BY <1>1, <3>3, <5>1 DEF EntryOf
      <4>2. CASE ~(2 * i <= n)
        <5>1. 2 * i <= Len(file') => /\ 2 * i = n + 1 /\ 2 * i = Len(file')
                                     /\ file'[2 * i] \in Pieces
          BY <1>2, <1>3, <1>5, <4>2
        <5> QED
          BY <1>1, <3>3, <5>1 DEF EntryOf
      <4> QED
        BY <4>1, <4>2
    <3> QED
      BY <3>2, <3>4
  <2>2. CASE ~(2 * i - 1 <= n)
    BY <1>1, <1>7, <2>2
  <2> QED
    BY <2>1, <2>2
<1>9. DistinctInv'
  <2> SUFFICES ASSUME NEW i \in 1..Len(file'), NEW j \in 1..Len(file'),
                      IsEntry(i)', IsEntry(j)',
                      file'[2 * i - 1] = file'[2 * j - 1]
               PROVE  i = j
    BY DEF DistinctInv
  <2>1. ASSUME NEW k \in 1..Len(file'), IsEntry(k)', 2 * k - 1 <= n
        PROVE  file'[2 * k - 1] \notin Pieces
    <3>1. PICK p \in Known(saved) \ todo : EntryOf(k, p)
      BY <1>6, <2>1
    <3>2. file'[2 * k - 1] = Path(p) /\ p \in Players
      BY <1>6, <2>1, <3>1 DEF EntryOf, Known
    <3> QED
      BY <3>2, FieldFacts
  <2>2. CASE 2 * i - 1 <= n /\ 2 * j - 1 <= n
    BY <1>6, <2>2 DEF FileInv, DistinctInv
  <2>3. CASE ~(2 * i - 1 <= n) /\ ~(2 * j - 1 <= n)
    BY <1>3, <1>7, <2>3
  <2>4. CASE ~(2 * i - 1 <= n /\ 2 * j - 1 <= n) /\ (2 * i - 1 <= n \/ 2 * j - 1 <= n)
    BY <1>7, <2>1, <2>4
  <2> QED
    BY <2>2, <2>3, <2>4
<1>10. WholeInv'
  BY <1>1 DEF WholeInv
<1> QED
  BY <1>5, <1>8, <1>9, <1>10 DEF FileInv

-----------------------------------------------------------------------------
(* Loading.                                                                *)

(* A player is sought at its entry.                                        *)
LEMMA EntryFacts ==
  ASSUME TypeOK, FileInv, NEW i \in 1..Len(file), Reached(i)
  PROVE  /\ IsEntry(i)
         /\ \E p \in Known(saved) \ Long : /\ EntryOf(i, p)
                                          /\ file[2 * i - 1].value = p
<1>1. /\ IsEntry(i) /\ file[2 * i - 1].kind = "path"
      /\ file[2 * i - 1].value \in Readable
  BY DEF Reached, IsEntry
<1>2. file[2 * i - 1] \notin Pieces
  BY <1>1, FieldFacts
<1>3. PICK p \in Known(saved) : EntryOf(i, p)
  BY <1>1, <1>2 DEF FileInv, EntryInv
<1>4. file[2 * i - 1].value = p
  BY <1>3, FieldFacts DEF EntryOf, Known
<1> QED
  BY <1>1, <1>3, <1>4 DEF Readable

(* Only a file that was cut lacks the length of a player's bytecode.       *)
LEMMA AbortFacts ==
  ASSUME TypeOK, FileInv, Aborts
  PROVE  torn
<1>1. PICK i \in 1..Len(file) : Reached(i) /\ Sizeless(i)
  BY DEF Aborts
<1>2. PICK p \in Known(saved) : EntryOf(i, p)
  BY <1>1, EntryFacts
<1>3. CASE 2 * i > Len(file)
  BY <1>2, <1>3 DEF EntryOf, Cut
<1>4. CASE ~(2 * i > Len(file))
  <2>1. Len(file) \in Nat /\ file[2 * i].kind = "piece"
    BY <1>1, <1>4, LenProperties DEF Sizeless, Piece, TypeOK
  <2>2. file[2 * i] # Actions(saved[p])
    BY <2>1, FieldFacts
  <2> QED
    BY <1>2, <1>4, <2>1, <2>2 DEF EntryOf, Cut
<1> QED
  BY <1>3, <1>4

(* What is loaded was saved; only of the player at the end of a file that  *)
(* was cut something else is found.                                        *)
LEMMA LoadFacts ==
  ASSUME TypeOK, FileInv, todo = {}, phase # "saving",
         \A i \in 1..Len(file) : Reached(i) => ~Sizeless(i),
         NEW m, m = ytdl_dl_player_cache_load_file
  PROVE  /\ m \in [Players -> States]
         /\ Known(m) \subseteq Known(saved) \ Long
         /\ \A p, q \in Known(m) : m[p] # saved[p] /\ m[q] # saved[q] => p = q
         /\ \A p \in Known(m) : m[p] # saved[p] => torn
         /\ ~torn /\ Known(saved) \cap Long = {} => m = saved
<1>1. Len(file) \in Nat /\ file \in Seq(Fields) /\ saved \in [Players -> States]
  BY LenProperties DEF TypeOK
<1>2. \A p \in Players : m[p] = IF Entries(p) = {} THEN "none"
        ELSE ytdl_sig_actions_load_file(CHOOSE i \in Entries(p) : TRUE)
  BY DEF ytdl_dl_player_cache_load_file
<1>3. ASSUME NEW p \in Players, NEW i \in Entries(p)
      PROVE  /\ i \in 1..Len(file) /\ IsEntry(i) /\ EntryOf(i, p)
             /\ p \in Known(saved) \ Long
             /\ ~Sizeless(i)
  <2>1. i \in 1..Len(file) /\ Reached(i) /\ file[2 * i - 1].value = p
    BY DEF Entries
  <2> QED
    BY <2>1, EntryFacts
<1>4. ASSUME NEW p \in Players, NEW i \in Entries(p)
      PROVE  /\ m[p] = ytdl_sig_actions_load_file(i)
             /\ m[p] \in {saved[p], "broken"}
             /\ m[p] # saved[p] => torn /\ 2 * i = Len(file)
  <2>1. m[p] = ytdl_sig_actions_load_file(CHOOSE j \in Entries(p) : TRUE)
    BY <1>2
  <2>2. PICK j \in Entries(p) : j = CHOOSE k \in Entries(p) : TRUE
    OBVIOUS
  <2>3. /\ IsEntry(i) /\ IsEntry(j) /\ i \in 1..Len(file) /\ j \in 1..Len(file)
        /\ EntryOf(i, p) /\ EntryOf(j, p) /\ 2 * i <= Len(file)
    BY <1>1, <1>3 DEF Sizeless
  <2>4. i = j
    BY <2>3 DEF EntryOf, FileInv, DistinctInv
  <2>5. m[p] = ytdl_sig_actions_load_file(i)
    BY <2>1, <2>2, <2>4
  <2>6. CASE 2 * i <= Len(file) /\ file[2 * i] = Actions(saved[p])
    BY <2>5, <2>6, FieldFacts DEF ytdl_sig_actions_load_file
  <2>7. CASE file[2 * i] \in Pieces /\ Cut /\ 2 * i = Len(file)
    BY <2>5, <2>7, FieldFacts DEF ytdl_sig_actions_load_file, Cut
  <2> QED
    BY <2>3, <2>6, <2>7 DEF EntryOf
<1>5. ASSUME NEW p \in Players
      PROVE  /\ m[p] \in States
             /\ p \in Known(m) => \E i \in Entries(p) : TRUE
  <2>1. CASE Entries(p) = {}
    BY <1>2, <2>1 DEF States, Known
  <2>2. CASE Entries(p) # {}
    BY <1>1, <1>4, <2>2 DEF States
  <2> QED
    BY <2>1, <2>2
<1>6. m \in [Players -> States]
  <2>1. m = [p \in Players |-> m[p]]
    BY DEF ytdl_dl_player_cache_load_file
  <2> QED
    BY <1>5, <2>1
<1>7. Known(m) \subseteq Known(saved) \ Long
  <2> SUFFICES ASSUME NEW p \in Known(m) PROVE p \in Known(saved) \ Long
    OBVIOUS
  <2>1. p \in Players
    BY DEF Known
  <2> QED
    BY <1>3, <1>5, <2>1
<1>8. \A p \in Known(m) : m[p] # saved[p] => torn
  <2> TAKE p \in Known(m)
  <2>1. p \in Players
    BY DEF Known
  <2> QED
    BY <1>4, <1>5, <2>1
<1>9. ASSUME NEW p \in Known(m), NEW q \in Known(m),
             m[p] # saved[p], m[q] # saved[q]
      PROVE  p = q
  <2>1. p \in Players /\ q \in Players
    BY DEF Known
  <2>2. PICK i \in Entries(p), j \in Entries(q) : TRUE
    BY <1>5, <2>1
  <2>3. 2 * i = Len(file) /\ 2 * j = Len(file)
    BY <1>4, <1>9, <2>1
  <2>4. i \in Nat /\ j \in Nat /\ EntryOf(i, p) /\ EntryOf(j, q)
    BY <1>1, <1>3, <2>1
  <2>5. i = j
    BY <1>1, <2>3, <2>4
  <2> QED
    BY <2>1, <2>4, <2>5, FieldFacts DEF EntryOf
<1>10. ASSUME ~torn, Known(saved) \cap Long = {} PROVE m = saved
  <2>1. ~Cut
    BY <1>10 DEF Cut
  <2>2. ASSUME NEW p \in Known(saved) PROVE \E i \in Entries(p) : TRUE
    <3>1. p \in Players
      BY DEF Known
    <3>2. PICK i \in 1..Len(file) : IsEntry(i) /\ file[2 * i - 1] = Path(p)
      BY <2>1 DEF FileInv, WholeInv
    <3>3. ASSUME NEW j \in 1..i
          PROVE  file[2 * j - 1].kind = "path" /\ file[2 * j - 1].value \in Readable
      <4>1. j \in 1..Len(file) /\ IsEntry(j)
        BY <1>1, <3>2 DEF IsEntry
      <4>2. PICK q \in Known(saved) : EntryOf(j, q)
        BY <2>1, <4>1 DEF FileInv, EntryInv
      <4>3. q \in Players /\ q \notin Long
        BY <1>10 DEF Known
      <4> QED
        BY <4>2, <4>3, FieldFacts DEF EntryOf, Readable
    <3>4. Reached(i)
      BY <3>2, <3>3 DEF Reached, IsEntry
    <3>5. i \in Entries(p)
      BY <3>1, <3>2, <3>4, FieldFacts DEF Entries
    <3> QED
      BY <3>5
  <2>3. ASSUME NEW p \in Players PROVE m[p] = saved[p]
    <3>1. CASE p \in Known(saved)
      BY <1>4, <1>10, <2>2, <3>1
    <3>2. CASE p \notin Known(saved)
      BY <1>7, <3>2 DEF Known
    <3> QED
      BY <3>1, <3>2
  <2>4. m = [p \in Players |-> m[p]] /\ saved = [p \in Players |-> saved[p]]
    BY <1>1, <1>6
  <2> QED
    BY <2>3, <2>4, Zenon
<1> QED
  BY <1>6, <1>7, <1>8, <1>9, <1>10

-----------------------------------------------------------------------------
(* Counting players.                                                       *)

LEMMA PlayersFacts ==
  /\ Cardinality(Players) \in Nat
  /\ \A S \in SUBSET Players : /\ IsFiniteSet(S) /\ Cardinality(S) \in Nat
                               /\ Cardinality(S) <= Cardinality(Players)
  /\ \A m : Known(m) \in SUBSET Players /\ Broken(m) \in SUBSET Players
BY CacheAssumption, FS_Subset, FS_CardinalityType DEF Known, Broken

LEMMA AtMostOne ==
  ASSUME NEW S \in SUBSET Players, \A x, y \in S : x = y
  PROVE  Cardinality(S) <= 1
<1>1. CASE S = {}
  BY <1>1, FS_EmptySet
<1>2. CASE S # {}
  <2>1. PICK x \in S : S = {x}
    BY <1>2
  <2>2. Cardinality({x}) = 1
    BY FS_Singleton
  <2> QED
    BY <2>1, <2>2
<1> QED
  BY <1>1, <1>2

(* What a start makes of the file.                                         *)
LEMMA MainKeepsCache ==
  ASSUME CacheInv, main
  PROVE  /\ map' \in [Players -> States] /\ FreshInv'
         /\ Cardinality(Broken(map')) <= tears
<1>1. /\ phase \in {"off", "aborted"} /\ saved' = saved /\ torn' = torn
      /\ TypeOK /\ FileInv /\ SaveInv /\ BrokenInv /\ todo = {}
  BY DEF main, history, CacheInv, SaveInv
<1>2. CASE Aborts
  <2>1. phase' = "aborted" /\ map' = NoPlayers
    BY <1>2 DEF main
  <2>2. map' \in [Players -> States] /\ Broken(map') = {}
    BY <2>1 DEF NoPlayers, States, Broken
  <2>3. torn /\ tears \in Nat
    BY <1>1, <1>2, AbortFacts DEF TypeOK
  <2>4. FreshInv'
    BY <1>1, <2>1, <2>3 DEF FreshInv
  <2> QED
    BY <2>2, <2>3, <2>4, FS_EmptySet
<1>3. CASE ~Aborts
  <2> SUFFICES ASSUME ~Aborts
               PROVE  /\ map' \in [Players -> States] /\ FreshInv'
                      /\ Cardinality(Broken(map')) <= tears
    BY <1>3
  <2>1. phase' = "fresh"
    BY DEF main
  <2>2. /\ map' = ytdl_dl_player_cache_load_file
        /\ \A i \in 1..Len(file) : Reached(i) => ~Sizeless(i)
    <3>1. CASE exists
      BY <3>1 DEF main, Aborts
    <3>2. CASE ~exists
      <4>1. 1..Len(file) = {}
        BY <1>1, <3>2 DEF SaveInv
      <4>2. \A p \in Players : Entries(p) = {}
        BY <4>1 DEF Entries
      <4> QED
        BY <3>2, <4>1, <4>2 DEF main, NoPlayers, ytdl_dl_player_cache_load_file
    <3> QED
      BY <3>1, <3>2
  <2> DEFINE m == map'
             D == {p \in Known(m) : m[p] # saved[p]}
  <2>3. /\ m \in [Players -> States]
        /\ Known(m) \subseteq Known(saved) \ Long
        /\ \A p, q \in Known(m) : m[p] # saved[p] /\ m[q] # saved[q] => p = q
        /\ \A p \in Known(m) : m[p] # saved[p] => torn
        /\ ~torn /\ Known(saved) \cap Long = {} => m = saved
    BY <1>1, <2>2, LoadFacts
  <2> HIDE DEF m
  <2>4. D \in SUBSET Players /\ Broken(m) \subseteq Broken(saved) \cup D
    BY DEF Known, Broken
  <2>5. Cardinality(D) <= IF torn THEN 1 ELSE 0
    <3>1. CASE torn
      BY <2>3, <2>4, <3>1, AtMostOne
    <3>2. CASE ~torn
      <4>1. D = {}
        BY <2>3, <3>2
      <4> QED
        BY <3>2, <4>1, FS_EmptySet
    <3> QED
      BY <3>1, <3>2
  <2>6. Cardinality(Broken(m)) <= tears
    <3> DEFINE B == Broken(saved)
    <3>1. /\ B \in SUBSET Players /\ D \in SUBSET Players /\ B \cup D \in SUBSET Players
          /\ B \cap D \in SUBSET Players /\ Broken(m) \in SUBSET (B \cup D)
      BY <2>4, PlayersFacts
    <3>2. /\ IsFiniteSet(B) /\ IsFiniteSet(D) /\ IsFiniteSet(B \cup D)
          /\ Cardinality(B) \in Nat /\ Cardinality(D) \in Nat
          /\ Cardinality(B \cap D) \in Nat /\ Cardinality(Broken(m)) \in Nat
          /\ Cardinality(B \cup D) \in Nat
      BY <2>4, <3>1, PlayersFacts
    <3>3. Cardinality(B \cup D) = Cardinality(B) + Cardinality(D) - Cardinality(B \cap D)
      BY <3>2, FS_Union
    <3>4. Cardinality(Broken(m)) <= Cardinality(B \cup D)
      BY <3>1, <3>2, FS_Subset
    <3>5. Cardinality(B) + (IF torn THEN 1 ELSE 0) <= tears
      BY <1>1 DEF BrokenInv
    <3>6. tears \in Nat
      BY <1>1 DEF TypeOK
    <3> HIDE DEF B, D
    <3> QED
      BY <2>5, <3>2, <3>3, <3>4, <3>5, <3>6
  <2>7. FreshInv'
    BY <1>1, <2>1, <2>3, <2>5 DEF FreshInv, Differing, m, Known
  <2> QED
    BY <2>3, <2>6, <2>7 DEF m
<1> QED
  BY <1>2, <1>3

-----------------------------------------------------------------------------
LEMMA CacheInit == Init => CacheInv
<1> SUFFICES ASSUME Init PROVE CacheInv
  OBVIOUS
<1>1. Cardinality(Players) \in Nat /\ MaxStarts \in Nat /\ Cardinality({}) = 0
  BY PlayersFacts, CacheAssumption, FS_EmptySet
<1>2. /\ Broken(map) = {} /\ Broken(saved) = {} /\ Known(saved) = {}
      /\ file = <<>> /\ todo = {} /\ phase = "off" /\ ~torn /\ tears = 0
      /\ starts = 0
  BY DEF Init, Broken, Known
<1>3. TypeOK
  <2>1. file \in Seq(Fields) /\ Len(file) = 0
    BY <1>2, EmptySeq
  <2>2. map \in [Players -> States] /\ saved \in [Players -> States]
    BY DEF Init, States
  <2>3. Len(file) <= 2 * Cardinality(Players)
    BY <1>1, <2>1
  <2>4. exists \in BOOLEAN /\ torn \in BOOLEAN
    BY Zenon DEF Init
  <2> QED
    BY <1>1, <1>2, <2>1, <2>2, <2>3, <2>4 DEF TypeOK
<1>4. FileInv
  BY <1>2, EmptyFile
<1>5. SaveInv /\ BrokenInv /\ FreshInv
  BY <1>1, <1>2 DEF SaveInv, BrokenInv, FreshInv
<1> QED
  BY <1>3, <1>4, <1>5 DEF CacheInv

LEMMA CacheStep == CacheInv /\ [Next]_vars => CacheInv'
<1> SUFFICES ASSUME CacheInv, [Next]_vars PROVE CacheInv'
  OBVIOUS
<1>0. /\ TypeOK /\ FileInv /\ SaveInv /\ BrokenInv /\ FreshInv
      /\ Cardinality(Players) \in Nat /\ MaxStarts \in Nat
      /\ Cardinality({}) = 0
      /\ \A S \in SUBSET Players : Cardinality(S) \in Nat
  BY PlayersFacts, CacheAssumption, FS_EmptySet DEF CacheInv
<1> USE DEF history
<1>1. CASE main
  <2>1. /\ phase \in {"off", "aborted"} /\ phase' \in {"fresh", "aborted"}
        /\ starts' = starts + 1
        /\ starts < MaxStarts
        /\ UNCHANGED <<exists, file, todo, saved, torn, tears>>
    BY <1>1 DEF main
  <2>2. /\ map' \in [Players -> States] /\ FreshInv'
        /\ Cardinality(Broken(map')) <= tears
    BY <1>1, MainKeepsCache
  <2>3. TypeOK'
    BY <1>0, <2>1, <2>2 DEF TypeOK
  <2>4. FileInv'
    BY <1>0, <2>1, SameFile DEF Cut
  <2>5. SaveInv'
    BY <1>0, <2>1 DEF SaveInv, TypeOK
  <2>6. BrokenInv'
    BY <1>0, <2>1, <2>2 DEF BrokenInv, Broken
  <2> QED
    BY <2>2, <2>3, <2>4, <2>5, <2>6 DEF CacheInv
<1>2. ASSUME NEW p \in Players, ytdl__player_js_complete(p) PROVE CacheInv'
  <2>1. /\ phase \in {"fresh", "busy"} /\ phase' = "busy" /\ map[p] = "none"
        /\ map' = [map EXCEPT ![p] = "good"]
        /\ UNCHANGED <<exists, file, todo, starts, saved, torn, tears>>
    BY <1>2 DEF ytdl__player_js_complete
  <2>2. map' \in [Players -> States] /\ Broken(map') = Broken(map)
    BY <1>0, <2>1 DEF TypeOK, States, Broken
  <2>3. TypeOK'
    BY <1>0, <2>1, <2>2 DEF TypeOK
  <2>4. FileInv'
    BY <1>0, <2>1, SameFile DEF Cut
  <2>5. SaveInv' /\ FreshInv'
    BY <1>0, <2>1 DEF SaveInv, FreshInv
  <2>6. BrokenInv'
    BY <1>0, <2>1, <2>2 DEF BrokenInv, Broken
  <2> QED
    BY <2>3, <2>4, <2>5, <2>6 DEF CacheInv
<1>3. CASE ytdl__info_complete_final
  <2>1. /\ phase \in {"fresh", "busy"} /\ phase' = "saving" /\ exists' = TRUE
        /\ file' = <<>> /\ todo' = Known(map) /\ saved' = map
        /\ UNCHANGED <<map, starts, torn, tears>>
    BY <1>3 DEF ytdl__info_complete_final, Truncated
  <2>2. todo' \in SUBSET Players /\ todo' = Known(saved)'
    BY <2>1 DEF Known
  <2>3. file' \in Seq(Fields) /\ Len(file') = 0
    BY <2>1, EmptySeq
  <2>4. TypeOK'
    BY <1>0, <2>1, <2>2, <2>3 DEF TypeOK
  <2>5. FileInv'
    BY <2>1, <2>2, EmptyFile
    DEF FileInv, EntryInv, DistinctInv, WholeInv
  <2>6. Cardinality(todo') \in Nat /\ Cardinality(todo') <= Cardinality(Players)
    BY <2>2, PlayersFacts
  <2>7. SaveInv' /\ FreshInv'
    BY <1>0, <2>1, <2>2, <2>3, <2>6 DEF SaveInv, FreshInv
  <2>8. BrokenInv'
    BY <1>0, <2>1 DEF BrokenInv, Broken
  <2> QED
    BY <2>4, <2>5, <2>7, <2>8 DEF CacheInv
<1>4. ASSUME NEW p \in Players, ytdl_dl_player_cache_save_file(p) PROVE CacheInv'
  <2>1. /\ phase = "saving" /\ p \in todo /\ todo' = todo \ {p}
        /\ UNCHANGED <<phase, map, exists, starts, saved, torn, tears>>
    BY <1>4 DEF ytdl_dl_player_cache_save_file
  <2>2. /\ FileInv' /\ file' \in Seq(Fields) /\ Len(file') = Len(file) + 2
    BY <1>0, <1>4, SaveKeepsFile
  <2>3. todo \in SUBSET Players /\ todo' \in SUBSET Players /\ IsFiniteSet(todo)
    BY <1>0, <2>1, PlayersFacts DEF TypeOK
  <2>4. Cardinality(todo') = Cardinality(todo) - 1
    BY <2>1, <2>3, FS_RemoveElement
  <2>5. Len(file) \in Nat /\ Cardinality(todo) \in Nat /\ Cardinality(todo') \in Nat
    BY <1>0, <2>3, LenProperties DEF TypeOK
  <2>6. Len(file') + 2 * Cardinality(todo') <= 2 * Cardinality(Players)
    BY <1>0, <2>2, <2>4, <2>5 DEF SaveInv
  <2>7. TypeOK'
    BY <1>0, <2>1, <2>2, <2>3, <2>5, <2>6 DEF TypeOK
  <2>8. todo' \subseteq Known(saved')
    BY <1>0, <2>1 DEF SaveInv, Known
  <2>9. exists
    BY <1>0, <2>1 DEF SaveInv
  <2>10. SaveInv' /\ FreshInv'
    BY <1>0, <2>1, <2>6, <2>8, <2>9 DEF SaveInv, FreshInv
  <2>11. BrokenInv'
    BY <1>0, <2>1 DEF BrokenInv, Broken
  <2> QED
    BY <2>2, <2>7, <2>10, <2>11 DEF CacheInv
<1>5. CASE Closed
  <2>1. /\ phase = "saving" /\ todo = {} /\ phase' = "off" /\ torn' = FALSE
        /\ UNCHANGED <<map, exists, file, todo, starts, saved, tears>>
    BY <1>5 DEF Closed
  <2>2. TypeOK'
    BY <1>0, <2>1 DEF TypeOK
  <2>3. FileInv'
    BY <1>0, <2>1, SameFile DEF Cut
  <2>4. SaveInv' /\ FreshInv'
    BY <1>0, <2>1 DEF SaveInv, FreshInv, TypeOK
  <2>5. BrokenInv'
    <3>1. saved = map /\ Cardinality(Broken(map)) <= tears
      BY <1>0, <2>1 DEF SaveInv, BrokenInv
    <3>2. Cardinality(Broken(map)) \in Nat
      BY <1>0, PlayersFacts
    <3> QED
      BY <2>1, <3>1, <3>2 DEF BrokenInv, Broken
  <2> QED
    BY <2>2, <2>3, <2>4, <2>5 DEF CacheInv
<1>6. CASE Torn
  <2>1. /\ phase = "saving" /\ phase' = "off" /\ todo' = {}
        /\ torn' = TRUE /\ tears' = tears + 1
        /\ UNCHANGED <<map, exists, starts, saved>>
    BY <1>6 DEF Torn
  <2>2. FileInv' /\ file' \in Seq(Fields) /\ Len(file') <= Len(file)
    BY <1>0, <1>6, TornKeepsFile
  <2>3. /\ Len(file) \in Nat /\ Len(file') \in Nat /\ Cardinality(todo) \in Nat
        /\ tears \in Nat /\ starts \in Nat
    BY <1>0, <2>2, LenProperties DEF TypeOK
  <2>4. tears' <= starts /\ tears' \in 0..MaxStarts
    BY <1>0, <2>1, <2>3 DEF SaveInv, TypeOK
  <2>5. TypeOK'
    BY <1>0, <2>1, <2>2, <2>3, <2>4 DEF TypeOK
  <2>6. ~exists => file' = <<>>
    <3>1. ~exists => Len(file) = 0
      BY <1>0 DEF SaveInv
    <3>2. Len(file') = 0 => file' = <<>>
      BY <2>2, EmptySeq
    <3> QED
      BY <2>2, <2>3, <3>1, <3>2
  <2>7. SaveInv' /\ FreshInv'
    BY <1>0, <2>1, <2>2, <2>3, <2>4, <2>6 DEF SaveInv, FreshInv
  <2>8. BrokenInv'
    <3>1. saved = map /\ Cardinality(Broken(map)) <= tears
      BY <1>0, <2>1 DEF SaveInv, BrokenInv
    <3>2. Cardinality(Broken(map)) \in Nat
      BY <1>0, PlayersFacts
    <3> QED
      BY <2>1, <2>3, <3>1, <3>2 DEF BrokenInv, Broken
  <2> QED
    BY <2>2, <2>5, <2>7, <2>8 DEF CacheInv
<1>7. CASE Ended
  <2>1. /\ phase \in {"fresh", "busy"} /\ phase' = "off"
        /\ UNCHANGED <<map, exists, file, todo, starts, saved, torn, tears>>
    BY <1>7 DEF Ended
  <2>2. TypeOK'
    BY <1>0, <2>1 DEF TypeOK
  <2>3. FileInv'
    BY <1>0, <2>1, SameFile DEF Cut
  <2>4. SaveInv' /\ FreshInv'
    BY <1>0, <2>1 DEF SaveInv, FreshInv, TypeOK
  <2>5. BrokenInv'
    BY <1>0, <2>1 DEF BrokenInv, Broken
  <2> QED
    BY <2>2, <2>3, <2>4, <2>5 DEF CacheInv
<1>8. CASE UNCHANGED vars
  <2>1. UNCHANGED <<phase, map, exists, file, todo, starts, saved, torn, tears>>
    BY <1>8 DEF vars
  <2>2. TypeOK'
    BY <1>0, <2>1 DEF TypeOK
  <2>3. FileInv'
    BY <1>0, <2>1, SameFile DEF Cut
  <2>4. SaveInv' /\ FreshInv'
    BY <1>0, <2>1 DEF SaveInv, FreshInv, Known, Differing
  <2>5. BrokenInv'
    BY <1>0, <2>1 DEF BrokenInv, Broken
  <2> QED
    BY <2>2, <2>3, <2>4, <2>5 DEF CacheInv
<1> QED
  BY <1>1, <1>2, <1>3, <1>4, <1>5, <1>6, <1>7, <1>8 DEF Next

THEOREM CacheInvariant == Spec => []CacheInv
BY CacheInit, CacheStep, PTL DEF Spec

(* What a save wrote to the end is what the next start finds, for any      *)
(* number of players, if no path is too long for the loader.               *)
THEOREM SaveThenLoad == Spec => []SavedIsLoaded
<1>1. CacheInv => SavedIsLoaded
  BY DEF CacheInv, FreshInv, SavedIsLoaded
<1> QED
  BY CacheInvariant, <1>1, PTL

(* A start aborts only after a torn save; one that does not finds nothing  *)
(* but what was saved, with at most one player broken at the end of a file *)
(* that was torn; each torn save breaks at most one.                       *)
THEOREM OnlyWhatWasSaved == Spec => []NothingInvented
<1>1. CacheInv => NothingInvented
  BY DEF CacheInv, FreshInv, BrokenInv, NothingInvented, Differing
<1> QED
  BY CacheInvariant, <1>1, PTL
=============================================================================
