---------------------------- MODULE MCVideoJoin ----------------------------
(* Instance of VideoJoin for TLC: two videos, whose downloads interleave;  *)
(* a file has a packet in common with its partner's time and ones of its   *)
(* own.                                                                    *)
EXTENDS VideoJoin, TLC

MCPackets == "audio" :> <<0, 2>> @@ "video" :> <<0, 1, 3>>
=============================================================================
