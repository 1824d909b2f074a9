-------------------------- MODULE MCMediaDownload --------------------------
(* Instance of MediaDownload for TLC: chunks of three bytes and files of   *)
(* up to three chunks, so that every remainder of the length by the chunk  *)
(* size occurs with none, one and two chunks in front.                     *)
EXTENDS MediaDownload
MCLengths == 1..8
=============================================================================
