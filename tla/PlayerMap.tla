----------------------------- MODULE PlayerMap -----------------------------
(***************************************************************************)
(* The hash map of src/hashmap.c, which holds the players of a context     *)
(* (player_map in src/dl.c): open addressing with linear probing, removal  *)
(* by shifting back, growth, and iterators.  It implements PlayerTable.    *)
(***************************************************************************)
EXTENDS Integers, FiniteSets

CONSTANTS
  Keys, NULL,
  DataOf,                \* what a key may be given, sets of data
  Hashes,                \* hash functions, from keys to numbers
  Capacities,            \* arguments of hashmap_reserve
  HASHMAP_SIZE_MIN,      \* powers of 2, as every size of a table
  HASHMAP_SIZE_DEFAULT

(* The sizes that can be computed: the 1 that is shifted is an int.         *)
PowersOf2 == {2^i : i \in 1..30}

(* A table has a slot in four that is free, so a map with n entries needs  *)
(* this many.                                                              *)
Needed(n) == n + (n \div 3)

ASSUME MapAssumption ==
  /\ NULL \notin Keys \cup UNION {DataOf[k] : k \in Keys}
  /\ \A h \in Hashes : h \in [Keys -> Nat]
  /\ IsFiniteSet(Keys) /\ Capacities \subseteq Nat
  /\ \A n \in Capacities \cup {Cardinality(Keys)} : Needed(n) <= 2^30
  /\ \A n \in {HASHMAP_SIZE_MIN, HASHMAP_SIZE_DEFAULT} : n \in PowersOf2 /\ n >= 4

VARIABLES
  hash,             \* hb->hash with the second hash that is run on it
  table_size_init,  \* 0 before hashmap_init and after hashmap_cleanup
  table,            \* hb->table, a function from 0..table_size - 1
  size,             \* the number of entries
  iter,             \* position of the iterator, NoIter or Finished
  result,           \* what the last call returned
  reserved,         \* history: the last capacity that was reserved
  visited,          \* history: how often the iterator was at each key
  start,            \* history: keys when the iteration began
  removing,         \* history: the iteration has removed an entry
  wrapped           \* history: a chain went past the end of the table then

history == <<visited, start, removing, wrapped>>
vars == <<hash, table_size_init, table, size, iter, result, reserved, history>>

NoIter == -1
Finished == -2
Empty == [key |-> NULL, data |-> NULL]

table_size(t) == Cardinality(DOMAIN t)
Blank(n) == [i \in 0..n - 1 |-> Empty]
KeysOf(t) == {t[i].key : i \in DOMAIN t} \ {NULL}

-----------------------------------------------------------------------------
(* The table.                                                              *)

(* The least power of 2 that is not less than 4/3 of size, but not less    *)
(* than init either.                                                       *)
hashmap_calc_table_size(init, n) ==
  IF Needed(n) < init THEN init
  ELSE CHOOSE p \in PowersOf2 :
         p >= Needed(n) /\ \A q \in PowersOf2 : q >= Needed(n) => p <= q

hashmap_calc_index(t, k) == hash[k] % table_size(t)

(* The i-th slot that is probed for k.                                     *)
Probe(t, k, i) == (hashmap_calc_index(t, k) + i) % table_size(t)

NotFound == -1

(* The slot of k, or the empty slot that ends the search.                  *)
hashmap_entry_find(t, k) ==
  LET ends == {i \in DOMAIN t : t[Probe(t, k, i)].key \in {k, NULL}} IN
  IF ends = {} THEN NotFound
  ELSE Probe(t, k, CHOOSE i \in ends : \A j \in ends : i <= j)

IsAt(t, slot) == slot # NotFound /\ t[slot] # Empty

NotProbed(t, e) ==  \* mutant: entries are stored where their search begins
  IF e = Empty THEN t ELSE [t EXCEPT ![hashmap_calc_index(t, e.key)] = e]
Rehashed(t, e) == IF e = Empty THEN t ELSE [t EXCEPT ![hashmap_entry_find(t, e.key)] = e]
hashmap_rehash(t, n) ==
  LET after[i \in 0..table_size(t)] ==
        IF i = 0 THEN Blank(n) ELSE Rehashed(after[i - 1], t[i - 1])
  IN  after[table_size(t)]

(* Distances are taken from the slot at which the search for an entry      *)
(* begins.                                                                 *)
Distance(t, from, to) == (to - from) % table_size(t)

AlwaysShifts(t, index, hole) == TRUE  \* mutant: the distances are not compared
Shifts(t, index, hole) ==
  LET home == hashmap_calc_index(t, t[index].key) IN
  Distance(t, home, index) > Distance(t, home, hole)

(* One step along the chain behind a removed entry: an entry that may be   *)
(* found in the hole is copied there and leaves the next hole.             *)
ShiftBack(r, index) ==
  IF r.done \/ r.table[index] = Empty THEN [r EXCEPT !.done = TRUE]
  ELSE IF Shifts(r.table, index, r.hole)
    THEN [r EXCEPT !.table[r.hole] = r.table[index], !.hole = index]
    ELSE r

hashmap_entry_remove(t, slot) ==
  LET after[i \in 0..size - 1] ==
        IF i = 0 THEN [table |-> t, hole |-> slot, done |-> FALSE]
        ELSE ShiftBack(after[i - 1], (slot + i) % table_size(t))
      r == after[size - 1]
  IN  [r.table EXCEPT ![r.hole] = Empty]

(* The first entry at or behind a position.                                *)
hashmap_entry_get_populated(t, from) ==
  LET there == {i \in DOMAIN t : i >= from /\ t[i] # Empty} IN
  IF there = {} THEN Finished ELSE CHOOSE i \in there : \A j \in there : i <= j

-----------------------------------------------------------------------------
(* The operations.  An iterator is given up by whoever changes the map.    *)

IsInit == table_size_init > 0

NoVisits == [k \in Keys |-> 0]
IteratorGone ==
  /\ iter' = NoIter /\ visited' = NoVisits /\ start' = {}
  /\ removing' = FALSE /\ wrapped' = FALSE

Fresh ==
  /\ table_size_init' = HASHMAP_SIZE_DEFAULT
  /\ table' = Blank(0) /\ size' = 0 /\ reserved' = 0

Init ==
  /\ hash \in Hashes
  /\ table_size_init = HASHMAP_SIZE_DEFAULT
  /\ table = Blank(0) /\ size = 0 /\ reserved = 0
  /\ iter = NoIter /\ result = NULL
  /\ visited = NoVisits /\ start = {} /\ removing = FALSE /\ wrapped = FALSE

hashmap_base_init ==
  /\ ~IsInit
  /\ Fresh /\ IteratorGone /\ result' = NULL
  /\ UNCHANGED hash

hashmap_base_cleanup ==
  /\ IsInit
  /\ table_size_init' = 0 /\ table' = Blank(0) /\ size' = 0 /\ reserved' = 0
  /\ IteratorGone /\ result' = NULL
  /\ UNCHANGED hash

NotRestored(init) == init  \* mutant: a failed reservation keeps its size
Restored(init) == table_size_init

(* A reservation that cannot be allocated leaves the map as it was.        *)
hashmap_base_reserve(n) ==
  LET init == hashmap_calc_table_size(HASHMAP_SIZE_MIN, n)
      grows == init > table_size(table)
  IN
  /\ IsInit
  /\ \/ /\ grows /\ result' = "ENOMEM"
        /\ table_size_init' = Restored(init)
        /\ UNCHANGED <<table, reserved>>
     \/ /\ table_size_init' = init /\ reserved' = n /\ result' = NULL
        /\ table' = IF grows THEN hashmap_rehash(table, init) ELSE table
  /\ IteratorGone
  /\ UNCHANGED <<hash, size>>

(* If the larger table cannot be allocated the old one is used as long as  *)
(* it has room.                                                            *)
hashmap_base_put(k, d) ==
  LET n == hashmap_calc_table_size(table_size_init, size)
      tables == IF n > table_size(table)
                  THEN {hashmap_rehash(table, n), table} ELSE {table}
  IN
  /\ IsInit
  /\ \E t \in tables :
       LET slot == hashmap_entry_find(t, k) IN
       CASE slot = NotFound ->
              /\ table' = t /\ result' = IF t = table /\ n > table_size(table)
                                           THEN "ENOMEM" ELSE "EADDRNOTAVAIL"
              /\ UNCHANGED size
         [] slot # NotFound /\ IsAt(t, slot) ->
              table' = t /\ result' = "EEXIST" /\ UNCHANGED size
         [] OTHER ->
              /\ table' = [t EXCEPT ![slot] = [key |-> k, data |-> d]]
              /\ size' = size + 1 /\ result' = "OK"
  /\ IteratorGone
  /\ UNCHANGED <<hash, table_size_init, reserved>>

hashmap_base_get(k) ==
  LET slot == hashmap_entry_find(table, k) IN
  /\ IsInit
  /\ result' = IF IsAt(table, slot) THEN table[slot].data ELSE NULL
  /\ UNCHANGED <<hash, table_size_init, table, size, iter, reserved, history>>

hashmap_base_remove(k) ==
  LET slot == hashmap_entry_find(table, k) IN
  /\ IsInit
  /\ IF IsAt(table, slot)
       THEN /\ result' = table[slot].data
            /\ table' = hashmap_entry_remove(table, slot) /\ size' = size - 1
       ELSE result' = NULL /\ UNCHANGED <<table, size>>
  /\ IteratorGone
  /\ UNCHANGED <<hash, table_size_init, reserved>>

hashmap_base_clear ==
  /\ IsInit
  /\ table' = Blank(table_size(table)) /\ size' = 0
  /\ IteratorGone /\ result' = NULL
  /\ UNCHANGED <<hash, table_size_init, reserved>>

(* The table gets its first size back, unless realloc fails.               *)
hashmap_base_reset ==
  /\ IsInit
  /\ \E n \in {table_size_init, table_size(table)} : table' = Blank(n)
  /\ size' = 0
  /\ IteratorGone /\ result' = NULL
  /\ UNCHANGED <<hash, table_size_init, reserved>>

-----------------------------------------------------------------------------
(* Iteration: the foreach macros of src/include/ytdl/hashmap.h.            *)

Counted(count, t, pos) ==
  IF pos = Finished THEN count ELSE [count EXCEPT ![t[pos].key] = @ + 1]

hashmap_base_iter ==
  LET pos == hashmap_entry_get_populated(table, 0) IN
  /\ IsInit /\ iter = NoIter
  /\ iter' = pos /\ result' = NULL
  /\ visited' = Counted(NoVisits, table, pos)
  /\ start' = KeysOf(table) /\ removing' = FALSE
  /\ wrapped' = (/\ table # Blank(0) /\ table[0] # Empty
                 /\ table[table_size(table) - 1] # Empty)
  /\ UNCHANGED <<hash, table_size_init, table, size, reserved>>

hashmap_base_iter_next ==
  LET pos == hashmap_entry_get_populated(table, iter + 1) IN
  /\ IsInit /\ iter >= 0
  /\ iter' = pos /\ result' = NULL
  /\ visited' = Counted(visited, table, pos)
  /\ UNCHANGED <<hash, table_size_init, table, size, reserved, start, removing,
                 wrapped>>

OnePastIt(pos) == pos + 1  \* mutant: the entry that was shifted is passed over
Onwards(pos) == pos

(* The iterator stays where it is: the entry that has moved there is next. *)
hashmap_base_iter_remove ==
  LET t == hashmap_entry_remove(table, iter)
      pos == hashmap_entry_get_populated(t, Onwards(iter))
  IN
  /\ IsInit /\ iter >= 0
  /\ table' = t /\ size' = size - 1
  /\ iter' = pos /\ result' = table[iter].data
  /\ visited' = Counted(visited, t, pos)
  /\ removing' = TRUE
  /\ UNCHANGED <<hash, table_size_init, reserved, start, wrapped>>

Next ==
  \/ hashmap_base_init \/ hashmap_base_cleanup
  \/ hashmap_base_clear \/ hashmap_base_reset
  \/ hashmap_base_iter \/ hashmap_base_iter_next \/ hashmap_base_iter_remove
  \/ \E n \in Capacities : hashmap_base_reserve(n)
  \/ \E k \in Keys : \/ hashmap_base_get(k) \/ hashmap_base_remove(k)
                     \/ \E d \in DataOf[k] : hashmap_base_put(k, d)

Spec == Init /\ [][Next]_vars

-----------------------------------------------------------------------------
(* Properties.                                                             *)

Data == UNION {DataOf[k] : k \in Keys}
Entries == [key : Keys, data : Data]

(* Every variable stays in its domain, and size counts the entries.        *)
TypeOK ==
  /\ hash \in Hashes
  /\ table_size_init \in PowersOf2 \cup {0}
  /\ table \in [DOMAIN table -> Entries \cup {Empty}]
  /\ size = Cardinality({i \in DOMAIN table : table[i] # Empty})
  /\ size = Cardinality(KeysOf(table))
  /\ iter \in DOMAIN table \cup {NoIter, Finished}
  /\ iter >= 0 => table[iter] # Empty

Content == [k \in Keys |->
  IF k \in KeysOf(table)
    THEN table[CHOOSE i \in DOMAIN table : table[i].key = k].data ELSE NULL]

Map == INSTANCE PlayerTable WITH content <- Content

(* Whatever the hash function, however often entries were removed and the  *)
(* table rebuilt, a key is found with its data exactly if it was put and   *)
(* not removed, a key that is there is not overwritten, and there is       *)
(* always a slot for a new one (hashmap_put, hashmap_get, hashmap_remove). *)
ImplementsMap == Map!Spec

(* An iteration comes by every entry that was there when it began, and by  *)
(* each only once if it removes none or no chain went past the end of the  *)
(* table (hashmap_iter_next, hashmap_iter_remove).                         *)
VisitsEach ==
  iter = Finished =>
    \A k \in Keys : /\ k \in start <=> visited[k] > 0
                    /\ ~(removing /\ wrapped) => visited[k] <= 1

(* After hashmap_reserve the table need not be enlarged before it has as   *)
(* many entries as were reserved, even if it was reset in between.         *)
ReservationHolds ==
  size < reserved =>
    hashmap_calc_table_size(table_size_init, size) <= table_size(table)
=============================================================================
