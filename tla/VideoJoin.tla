----------------------------- MODULE VideoJoin -----------------------------
(***************************************************************************)
(* What src/cli.c makes of the videos of a command line: for each, an      *)
(* audio and a video download side by side, each into a temporary file,    *)
(* and once both are complete one call of the muxer, after which the files *)
(* are removed and what the two share is freed.                            *)
(*                                                                         *)
(* A download is seen as its user sees it: it hands over data, completes   *)
(* once and is then shut down, or is given up by a failed connection       *)
(* without a word.  MediaDownload and DashDownload say when that is so.    *)
(* What the muxer writes is the subject of Mux.                            *)
(***************************************************************************)
EXTENDS Mux

CONSTANT Videos  \* the videos asked for

VARIABLES
  is_debug, \* opts->is_debug: temporary files are kept
  video,    \* ytdl_cli_video_t: "none", "live", "freed"
  kind,     \* downloads are "dash" or "media"
  ctx,      \* the download contexts
  is_done,  \* is_audio_done, is_video_done
  fd,       \* of the temporary files: "none", "open", "closed"
  file,     \* "none", "empty", "part", "whole", "damaged", "removed"
  output,   \* what the muxer made last: whether a file, and its packets
  muxed,    \* calls of ytdl_mux_files
  misuse    \* history: what was done with a freed video or a closed file

vars == <<is_debug, video, kind, ctx, is_done, fd, file, output, muxed,
          misuse>>

NoFile == [made |-> FALSE, packets |-> <<>>]
Made(packets) == [made |-> TRUE, packets |-> packets]

Pairs(x) == [Videos -> [Streams -> x]]
Each(x) == [v \in Videos |-> [s \in Streams |-> x]]

Init ==
  /\ is_debug \in BOOLEAN
  /\ video = [v \in Videos |-> "none"]
  /\ kind \in [Videos -> {"dash", "media"}]
  /\ ctx = Each("none") /\ is_done = Each(FALSE)
  /\ fd = Each("none") /\ file = Each("none")
  /\ output = NoFile /\ muxed = [v \in Videos |-> 0]
  /\ misuse = {}

-----------------------------------------------------------------------------
(* The information of v has arrived.  Two media downloads, or the download *)
(* of a manifest that will become two.                                     *)
ytdl__info_complete(v) ==
  /\ video[v] = "none"
  /\ video' = [video EXCEPT ![v] = "live"]
  /\ fd' = [fd EXCEPT ![v] = [s \in Streams |-> "open"]]
  /\ file' = [file EXCEPT ![v] = [s \in Streams |-> "empty"]]
  /\ ctx' = [ctx EXCEPT ![v] =
               IF kind[v] = "media" THEN [s \in Streams |-> "running"]
               ELSE [s \in Streams |-> IF s = "audio" THEN "manifest" ELSE "none"]]
  /\ UNCHANGED <<is_debug, kind, is_done, output, muxed, misuse>>

BothRun(v) == [s \in Streams |-> "running"]

(* The context of the manifest goes on as the audio download, its fork is  *)
(* the video download.                                                     *)
ytdl__dash_manifest_done(v) ==
  /\ ctx[v]["audio"] = "manifest"
  /\ ctx' = [ctx EXCEPT ![v] = BothRun(v)]
  /\ misuse' = misuse \cup (IF video[v] = "freed" THEN {"video"} ELSE {})
  /\ UNCHANGED <<is_debug, video, kind, is_done, fd, file, output, muxed>>

(* What write returns is not looked at.                                    *)
Pipe(v, s) ==
  /\ ctx[v][s] = "running"
  /\ \E written \in {"part", "damaged"} :
       file' = [file EXCEPT ![v][s] = IF @ \in {"empty", "part"} THEN written
                                                                 ELSE @]
  /\ misuse' = misuse \cup (IF video[v] = "freed" THEN {"video"} ELSE {})
                      \cup (IF fd[v][s] # "open" THEN {"file"} ELSE {})
  /\ UNCHANGED <<is_debug, video, kind, ctx, is_done, fd, output, muxed>>

ytdl__dash_pipe(v, s) == kind[v] = "dash" /\ Pipe(v, s)
ytdl__media_pipe(v, s) == kind[v] = "media" /\ Pipe(v, s)

(* Nobody hears of a connection that was not made or was lost.             *)
Lost(v, s) ==
  /\ ctx[v][s] \in {"manifest", "running"}
  /\ ctx' = [ctx EXCEPT ![v][s] = "lost"]
  /\ UNCHANGED <<is_debug, video, kind, is_done, fd, file, output, muxed,
                 misuse>>

-----------------------------------------------------------------------------
(* A download is complete.                                                 *)

Either(done) == \E s \in Streams : done[s]  \* mutant: one is enough
Both(done) == \A s \in Streams : done[s]

Unlinked(files) == IF is_debug THEN files ELSE [s \in Streams |-> "removed"]

(* All packets of a file that is whole can be read, unless an error ends   *)
(* the stream.                                                             *)
MuxesOf(files) ==
  {m \in Muxes : \A s \in Streams : files[s] = "whole" \/ m.ends[s] < Lengths[s]}

(* Without a file, because something is missing in one of the inputs or it *)
(* cannot be opened, or with what the loop makes of the inputs.            *)
ytdl_mux_files(files) == {NoFile} \cup {Made(m.out) : m \in MuxesOf(files)}

(* The files are muxed, the result of which is ignored, then removed.      *)
ytdl__mux_and_free(v, files) ==
  /\ muxed' = [muxed EXCEPT ![v] = @ + 1]
  /\ output' \in ytdl_mux_files(files)
  /\ file' = [file EXCEPT ![v] = Unlinked(files)]
  /\ video' = [video EXCEPT ![v] = "freed"]

StaysUp(v, s) == ctx  \* mutant: the context is not shut down
ShutDown(v, s) == [ctx EXCEPT ![v][s] = "stopped"]

AudioFlag(s) == "audio"  \* mutant: is_video is not looked at
FlagOf(s) == s

Complete(v, s) ==
  LET done == [is_done[v] EXCEPT ![FlagOf(s)] = TRUE]
      files == [file[v] EXCEPT ![s] = IF @ = "damaged" THEN @ ELSE "whole"]
  IN
  /\ ctx[v][s] = "running"
  /\ is_done' = [is_done EXCEPT ![v] = done]
  /\ ctx' = ShutDown(v, s)
  /\ misuse' = misuse \cup (IF video[v] = "freed" THEN {"video"} ELSE {})
  /\ IF Both(done) THEN ytdl__mux_and_free(v, files)
       ELSE /\ file' = [file EXCEPT ![v] = files]
            /\ UNCHANGED <<video, output, muxed>>
  /\ UNCHANGED <<is_debug, kind>>

(* The temporary files of a DASH download are not closed.                  *)
ytdl__dash_complete(v, s) ==
  /\ kind[v] = "dash"
  /\ Complete(v, s)
  /\ UNCHANGED fd

ytdl__media_complete(v, s) ==
  /\ kind[v] = "media"
  /\ Complete(v, s)
  /\ fd' = [fd EXCEPT ![v][s] = "closed"]

(* The shutdown is over and the context freed.                             *)
CloseCb(v, s) ==
  /\ ctx[v][s] = "stopped"
  /\ ctx' = [ctx EXCEPT ![v][s] = "freed"]
  /\ UNCHANGED <<is_debug, video, kind, is_done, fd, file, output, muxed,
                 misuse>>

ytdl__dash_close_cb(v, s) == kind[v] = "dash" /\ CloseCb(v, s)
ytdl__media_close_cb(v, s) == kind[v] = "media" /\ CloseCb(v, s)

-----------------------------------------------------------------------------
DownloadStep(v, s) ==
  \/ ytdl__dash_complete(v, s)
  \/ ytdl__media_complete(v, s)
  \/ ytdl__dash_close_cb(v, s)
  \/ ytdl__media_close_cb(v, s)

Next ==
  \E v \in Videos :
    \/ ytdl__info_complete(v)
    \/ ytdl__dash_manifest_done(v)
    \/ \E s \in Streams : \/ ytdl__dash_pipe(v, s)
                          \/ ytdl__media_pipe(v, s)
                          \/ Lost(v, s)
                          \/ DownloadStep(v, s)

Spec == Init /\ [][Next]_vars

(***************************************************************************)
(* DownloadSettles of MediaDownload, StreamsSettle of DashDownload and     *)
(* TeardownCloses of both: a download completes or is lost, and a shutdown *)
(* ends.  What they assume of the servers and of the manifest is assumed   *)
(* here.                                                                   *)
(***************************************************************************)
FairSpec ==
  /\ Spec
  /\ \A v \in Videos :
       /\ WF_vars(ytdl__dash_manifest_done(v))
       /\ \A s \in Streams : WF_vars(DownloadStep(v, s))

-----------------------------------------------------------------------------
(* Properties.                                                             *)

(* Every variable stays in its domain.                                     *)
TypeOK ==
  /\ is_debug \in BOOLEAN
  /\ video \in [Videos -> {"none", "live", "freed"}]
  /\ kind \in [Videos -> {"dash", "media"}]
  /\ ctx \in Pairs({"none", "manifest", "running", "lost", "stopped", "freed"})
  /\ is_done \in Pairs(BOOLEAN)
  /\ fd \in Pairs({"none", "open", "closed"})
  /\ file \in Pairs({"none", "empty", "part", "whole", "damaged", "removed"})
  /\ output \in [made : BOOLEAN, packets : Seq(OutPackets)]
  /\ muxed \in [Videos -> 0..1]
  /\ misuse \subseteq {"video", "file"}

(* The muxer runs at most once for a video and only when both its          *)
(* downloads have completed; without --debug-log no file of a video is     *)
(* left that has been muxed, and with it none is removed.                  *)
MuxedOnceComplete ==
  /\ TypeOK
  /\ \A v \in Videos :
       /\ muxed[v] = 1 => \A s \in Streams : ctx[v][s] \in {"stopped", "freed"}
       /\ \A s \in Streams :
            file[v][s] = "removed" <=> (muxed[v] = 1 /\ ~is_debug)

(* A file the muxer made has the packets of both downloads, each stream's  *)
(* in its order and up to where it ended, none of them twice, and with     *)
(* neither stream running away from the other (the loop of                 *)
(* ytdl_mux_files).                                                        *)
MuxedInPace ==
  output.made =>
    /\ \E v \in Videos : muxed[v] = 1
    /\ KeepsPace(output.packets) /\ InOrder(output.packets)

(* Whichever download is second frees what they share, and the other one   *)
(* never uses it again; nothing is written to a closed file.               *)
NoUseAfterFree == misuse = {}

(* The downloads of a video of which none was lost end in a call of the    *)
(* muxer, after which both of their contexts are freed.                    *)
EveryVideoSettles ==
  \A v \in Videos :
    (video[v] = "live") ~>
      \/ muxed[v] = 1 /\ \A s \in Streams : ctx[v][s] = "freed"
      \/ \E s \in Streams : ctx[v][s] = "lost"
=============================================================================
