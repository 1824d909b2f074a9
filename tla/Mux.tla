-------------------------------- MODULE Mux --------------------------------
(***************************************************************************)
(* The muxer of src/mux.c: two files become one, packet by packet.  A      *)
(* packet is known by its stream and its time.                             *)
(***************************************************************************)
EXTENDS Integers, Sequences, FiniteSets

CONSTANT Packets  \* times of the packets of each stream

(* The packets of a stream are stored in the order of their times; a video *)
(* with frames that refer to later ones is not.                            *)
ASSUME PacketsAssumption ==
  /\ Packets \in [{"audio", "video"} -> Seq(Nat)]
  /\ \A s \in DOMAIN Packets : \A i, j \in DOMAIN Packets[s] :
       i <= j => Packets[s][i] <= Packets[s][j]

Streams == {"audio", "video"}

(* r.at counts the packets of each stream that were written, r.encode says *)
(* whether there may be more of them.  The times compared are those of the *)
(* packets written last, 0 at first.                                       *)
Before == [out |-> <<>>, at |-> [s \in Streams |-> 0],
           encode |-> [s \in Streams |-> TRUE]]
next_pts(r, s) == IF r.at[s] = 0 THEN 0 ELSE Packets[s][r.at[s]]

AudioIfLater(r) ==  \* mutant: the comparison is inverted
  r.encode["audio"] /\ (r.encode["video"] => next_pts(r, "audio") > next_pts(r, "video"))
TakesAudio(r) ==
  r.encode["audio"] /\ (r.encode["video"] => next_pts(r, "audio") <= next_pts(r, "video"))

(* ends says how many packets of each stream can be read and written; what *)
(* comes next ends the stream, whether it is the end of the file or an     *)
(* error.                                                                  *)
ytdl__mux_write_frame(ends, r, s) ==
  IF r.at[s] = ends[s] THEN [r EXCEPT !.encode[s] = FALSE]
  ELSE [r EXCEPT !.at[s] = @ + 1,
                 !.out = Append(@, [stream |-> s, pts |-> Packets[s][r.at[s] + 1]])]

Round(ends, r) ==
  IF \A s \in Streams : ~r.encode[s] THEN r
  ELSE ytdl__mux_write_frame(ends, r, IF TakesAudio(r) THEN "audio" ELSE "video")

(* What the loop of ytdl_mux_files writes: it has a round for every packet *)
(* and one for every end.                                                  *)
Lengths == [s \in Streams |-> Len(Packets[s])]
AllEnds == {ends \in [Streams -> UNION {0..Lengths[s] : s \in Streams}] :
              \A s \in Streams : ends[s] <= Lengths[s]}
Loop(ends) ==
  LET after[n \in Nat] == IF n = 0 THEN Before ELSE Round(ends, after[n - 1])
  IN  after[ends["audio"] + ends["video"] + 2]
Written(ends) == Loop(ends).out
Muxes == {[ends |-> ends, out |-> Written(ends)] : ends \in AllEnds}

-----------------------------------------------------------------------------
(* What is expected of a file.                                             *)

OutPackets == [stream : Streams, pts : Nat]

(* How many packets of its stream there are up to the i-th.                *)
Rank(out, i) == Cardinality({j \in 1..i : out[j].stream = out[i].stream})

(* The packets of each stream are its first ones, in their order.          *)
InOrder(out) ==
  \A i \in 1..Len(out) :
    LET s == out[i].stream IN
    Rank(out, i) <= Lengths[s] /\ out[i].pts = Packets[s][Rank(out, i)]

(* No packet is written before one of the other stream that belongs in     *)
(* front of the packet before it: neither stream runs ahead by more than   *)
(* one packet.                                                             *)
KeepsPace(out) ==
  \A k, i, j \in 1..Len(out) :
    k < i /\ i < j /\ out[k].stream = out[i].stream
                   /\ out[i].stream # out[j].stream
      => out[k].pts <= out[j].pts
=============================================================================
