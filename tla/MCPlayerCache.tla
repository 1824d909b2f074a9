--------------------------- MODULE MCPlayerCache ---------------------------
(* Instance of PlayerCache for TLC: the players are alike except for the   *)
(* one whose path is too long.                                             *)
EXTENDS PlayerCache, TLC
CONSTANTS p1, p2, p3, long
MCPlayers == {p1, p2, p3, long}
MCLong == {long}
MCSymmetry == Permutations({p1, p2, p3})
=============================================================================
