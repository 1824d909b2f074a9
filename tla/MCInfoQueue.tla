---------------------------- MODULE MCInfoQueue ----------------------------
(* Instance of InfoQueue for TLC: three calls and two players, so that a   *)
(* call can arrive while another is served, a player file can be fetched   *)
(* after another one, and a cached player can be used again.               *)
EXTENDS InfoQueue
=============================================================================
