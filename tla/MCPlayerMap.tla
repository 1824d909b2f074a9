---------------------------- MODULE MCPlayerMap ----------------------------
(* Instance of PlayerMap for TLC: tables of 4 to 16 slots and hash         *)
(* functions under which keys share a slot, follow each other, fill the    *)
(* end of the table, or part when it grows.                                *)
EXTENDS PlayerMap, TLC
CONSTANTS k1, k2, k3, k4, k5

MCKeys == {k1, k2, k3, k4, k5}
HashOf(h) == k1 :> h[1] @@ k2 :> h[2] @@ k3 :> h[3] @@ k4 :> h[4] @@ k5 :> h[5]
MCHashes == {HashOf(h) : h \in {<<3, 3, 3, 3, 3>>, <<7, 3, 3, 2, 0>>,
                                <<2, 3, 7, 2, 6>>, <<0, 1, 2, 3, 4>>}}
MCDataOf == [k \in MCKeys |-> IF k = k1 THEN {"old", "new"} ELSE {"old"}]
=============================================================================
