---------------------------- MODULE DashDownload ----------------------------
(***************************************************************************)
(* The download of a DASH manifest and of the two streams it describes,    *)
(* ytdl_dl_dash_ctx_t of src/dl.c with the segment iterators of src/dash.c. *)
(* One context fetches the manifest, closes that connection, is forked for *)
(* the second stream from within on_manifest, as src/cli.c does, and both  *)
(* contexts fetch their segments one by one, each on its own connection.   *)
(*                                                                         *)
(* A segment is known by the name of its media, a number.                  *)
(***************************************************************************)
EXTENDS Integers, Sequences, SequencesExt

CONSTANTS
  Manifests,     \* the manifests a server may send
  MaxPieces,     \* bound: on_body callbacks for the manifest
  EarlyShutdown  \* may the user shut down before on_complete?

Streams == {"audio", "video"}

Null == -1
ManifestRequest == -2

(* A manifest is a sequence of AdaptationSets with the type of their media *)
(* and their Representations: whether there is a BaseURL and a SegmentList, *)
(* the name of the initial segment and the names in the SegmentURLs, which *)
(* are Null where they are missing, as is a bandwidth.                     *)
Names == Nat \cup {Null}
Representation ==
  [bandwidth : Names, base : BOOLEAN, segmented : BOOLEAN, initial : Names,
   list : Seq(Names)]

ASSUME DashAssumption ==
  /\ Manifests \subseteq
       Seq([type : Streams \cup {"text"}, representations : Seq(Representation)])
  /\ MaxPieces \in Nat \ {0}
  /\ EarlyShutdown \in BOOLEAN

VARIABLES
  mpd,          \* the manifest the server sends
  pause,        \* ctx->pause_between_chunks
  net,          \* state of ctx->http; "none": the context does not exist,
                \* "crashed": the program does not run any more
  on_closed,    \* which close callback was given to its shutdown
  stage,        \* whose callbacks it is connected for
  manifest,     \* pieces of the manifest in ctx->manifest
  is_shutdown,
  is_dash_init,
  path,         \* ctx->dash.[av]_segment_path: a name, or Null
  next,         \* ctx->dash.[av]_segment_list: the SegmentURL to look at
  reqs,         \* requests not fully answered
  body,         \* the body of the response to Head(reqs) has arrived
  waiting,      \* a segment is complete, the user has to ask for the next
  shutdown,     \* "no", "requested" (idle handle started), "done"
  asked,        \* history: the segments asked for
  got,          \* history: the segments handed to on_data
  completes,    \* calls of on_complete
  odd,          \* history: a segment was answered with an error
  uaf           \* history: memory was used after the shutdown freed it

iterVars == <<is_dash_init, path, next>>
httpVars == <<net, on_closed, stage>>
requestVars == <<reqs, body, asked, completes>>
fixedVars == <<mpd, pause>>
vars == <<fixedVars, httpVars, manifest, is_shutdown, iterVars, requestVars,
          waiting, shutdown, got, odd, uaf>>

-----------------------------------------------------------------------------
(* ytdl_dl_dash_ctx_init for the first context.                            *)
Init ==
  /\ mpd \in Manifests /\ pause \in [Streams -> BOOLEAN]
  /\ net = [c \in Streams |-> IF c = "audio" THEN "new" ELSE "none"]
  /\ on_closed = [c \in Streams |-> "none"]
  /\ stage = [c \in Streams |-> "manifest"]
  /\ manifest = [c \in Streams |-> 0]
  /\ is_shutdown = [c \in Streams |-> FALSE]
  /\ is_dash_init = [c \in Streams |-> FALSE]
  /\ path = [c \in Streams |-> Null] /\ next = [c \in Streams |-> 1]
  /\ reqs = [c \in Streams |-> <<>>] /\ body = [c \in Streams |-> FALSE]
  /\ waiting = [c \in Streams |-> FALSE]
  /\ shutdown = [c \in Streams |-> "no"]
  /\ asked = [c \in Streams |-> <<>>] /\ got = [c \in Streams |-> <<>>]
  /\ completes = [c \in Streams |-> 0]
  /\ odd = [c \in Streams |-> FALSE] /\ uaf = FALSE

-----------------------------------------------------------------------------
(* The manifest.                                                           *)

ytdl_dl_dash_ctx_connect ==
  /\ net["audio"] = "new" /\ stage["audio"] = "manifest"
  /\ net' = [net EXCEPT !["audio"] = "connecting"]
  /\ UNCHANGED <<fixedVars, on_closed, stage, manifest, is_shutdown, iterVars,
                 requestVars, waiting, shutdown, got, odd, uaf>>

ytdl__dash_manifest_connected_cb(c) ==
  /\ net[c] = "connecting" /\ stage[c] = "manifest"
  /\ net' = [net EXCEPT ![c] = "up"]
  /\ reqs' = [reqs EXCEPT ![c] = Append(@, ManifestRequest)]
  /\ UNCHANGED <<fixedVars, on_closed, stage, manifest, is_shutdown, iterVars,
                 body, asked, completes, waiting, shutdown, got, odd, uaf>>

Answering(c, s) == net[c] = "up" /\ stage[c] = s /\ reqs[c] # <<>>

ytdl__dash_manifest_cb(c) ==
  /\ Answering(c, "manifest")
  /\ manifest[c] < MaxPieces
  /\ manifest' = [manifest EXCEPT ![c] = @ + 1]
  /\ UNCHANGED <<fixedVars, httpVars, is_shutdown, iterVars, requestVars,
                 waiting, shutdown, got, odd, uaf>>

(* The connection to the manifest's host is given up.  A response without  *)
(* a body is left out, like one that is not an MPD document: their parse   *)
(* result is used without a test.                                          *)
ytdl__dash_manifest_complete_cb(c) ==
  /\ Answering(c, "manifest")
  /\ manifest[c] > 0
  /\ is_shutdown' = [is_shutdown EXCEPT ![c] = TRUE]
  /\ net' = [net EXCEPT ![c] = "closing"]
  /\ on_closed' = [on_closed EXCEPT ![c] = "manifest"]
  /\ UNCHANGED <<fixedVars, stage, manifest, iterVars, requestVars, waiting,
                 shutdown, got, odd, uaf>>

(* ytdl_dash_get_best_representation as the filter: the bandwidth picked   *)
(* so far, 0 at first, must be exceeded.                                   *)
NoRepresentation ==
  [bandwidth |-> 0, base |-> FALSE, segmented |-> FALSE, initial |-> Null,
   list |-> <<>>]
LastOne(best, rep) == rep  \* mutant: the bandwidths are not compared
Better(best, rep) == IF rep.bandwidth > best.bandwidth THEN rep ELSE best

(* The representations of one AdaptationSet are looked at after best was   *)
(* picked from those before it.                                            *)
ytdl__dash_representation_pick(best, reps) ==
  LET after[n \in 0..Len(reps)] ==
        IF n = 0 THEN best ELSE Better(after[n - 1], reps[n])
  IN  after[Len(reps)]

PickFrom(best, set, c) ==
  IF set.type = c THEN ytdl__dash_representation_pick(best, set.representations)
  ELSE best

Picked(m, c) ==
  LET after[i \in 0..Len(m)] ==
        IF i = 0 THEN NoRepresentation ELSE PickFrom(after[i - 1], m[i], c)
  IN  after[Len(m)]

(* ytdl_dash_get_format reads the base URLs once it has a representation   *)
(* for each stream; ytdl_dl_dash_load_fork gives them to strlen.           *)
Located(m) == \A c \in Streams : Picked(m, c).base

(* ytdl_dl_dash_load_fork for the contexts cs: the manifest is parsed, the *)
(* iterator put in front of the first segment, and the host of the stream  *)
(* connected to unless its base URL cannot be parsed.                      *)
ytdl_dl_dash_load_fork(cs) ==
  /\ is_dash_init' = [c \in Streams |-> c \in cs \/ is_dash_init[c]]
  /\ path' = [c \in Streams |-> IF c \in cs THEN Null ELSE path[c]]
  /\ next' = [c \in Streams |-> IF c \in cs THEN 1 ELSE next[c]]
  /\ stage' = [c \in Streams |-> IF c \in cs THEN "segments" ELSE stage[c]]
  /\ \E parsed \in SUBSET cs :
        net' = [c \in Streams |-> CASE c \in parsed -> "connecting"
                                    [] c \in cs \ parsed -> "new"
                                    [] c \notin cs -> net[c]]

LeftSet == is_shutdown   \* mutant: the flag is not taken back
TakenBack == [c \in Streams |-> FALSE]

(* ytdl_dl_dash_ctx_fork: the second context gets a copy of the manifest.  *)
Forked == [c \in Streams |-> manifest["audio"]]

(* The client is initialised again and on_manifest forks the context: the  *)
(* copy has the manifest and starts from there.  If a stream has no base   *)
(* URL the program ends here, by the strlen of a null pointer.  The idle   *)
(* handle of a shutdown that was asked for earlier has run by now, since   *)
(* the chain of close callbacks takes several rounds of the loop.          *)
ForkedOnManifest ==
  /\ is_shutdown' = TakenBack
  /\ reqs' = [reqs EXCEPT !["audio"] = <<>>]
  /\ manifest' = Forked
  /\ ytdl_dl_dash_load_fork(Streams)
  /\ on_closed' = [on_closed EXCEPT !["audio"] = "none"]

Crashed ==
  /\ net' = [c \in Streams |-> "crashed"]
  /\ UNCHANGED <<is_shutdown, reqs, manifest, iterVars, stage, on_closed>>

ytdl__dash_close_cb ==
  /\ net["audio"] = "closing" /\ on_closed["audio"] = "manifest"
  /\ shutdown["audio"] # "requested"
  /\ IF Located(mpd) THEN ForkedOnManifest ELSE Crashed
  /\ uaf' = (uaf \/ shutdown["audio"] = "done")
  /\ UNCHANGED <<fixedVars, body, asked, completes, waiting, shutdown, got,
                 odd>>

-----------------------------------------------------------------------------
(* The segments.                                                           *)

(* Without a SegmentList for each stream ytdl_dash_get_format has set the  *)
(* base URLs but returns before it looks for initial segments, and the     *)
(* iterators find nothing.  Its result is not looked at.                   *)
ytdl_dash_get_format(m) == Located(m) /\ \A c \in Streams : Picked(m, c).segmented
initial_segment(m, c) ==
  IF ytdl_dash_get_format(m) THEN Picked(m, c).initial ELSE Null
segment_list(m, c) == IF ytdl_dash_get_format(m) THEN Picked(m, c).list ELSE <<>>

AtInitial(c) == path[c] = Null /\ initial_segment(mpd, c) # Null

Advanced(c) == next[c] + 1

(* ytdl_dash_next_video_segment and ytdl_dash_next_audio_segment, and then *)
(* the request for what they return, after the requests q.  A SegmentURL   *)
(* without media returns NULL like the end of the list does.               *)
Ask(c, q, s) ==
  /\ reqs' = [reqs EXCEPT ![c] = Append(q, s)]
  /\ asked' = [asked EXCEPT ![c] = Append(@, s)]
  /\ path' = [path EXCEPT ![c] = s]
  /\ UNCHANGED completes

AskInitial(c, q) == AtInitial(c) /\ Ask(c, q, initial_segment(mpd, c)) /\ UNCHANGED next

AskListed(c, q) ==
  /\ ~AtInitial(c)
  /\ next[c] <= Len(segment_list(mpd, c)) /\ segment_list(mpd, c)[next[c]] # Null
  /\ Ask(c, q, segment_list(mpd, c)[next[c]])
  /\ next' = [next EXCEPT ![c] = Advanced(c)]

Complete(c, q) ==
  /\ ~AtInitial(c)
  /\ next[c] <= Len(segment_list(mpd, c)) => segment_list(mpd, c)[next[c]] = Null
  /\ reqs' = [reqs EXCEPT ![c] = q]
  /\ path' = [path EXCEPT ![c] = Null]
  /\ next' = [next EXCEPT ![c] = IF @ <= Len(segment_list(mpd, c))
                                   THEN Advanced(c) ELSE @]
  /\ completes' = [completes EXCEPT ![c] = @ + 1]
  /\ UNCHANGED asked

ytdl_dl_dash_ctx_next_chunk(c, q) ==
  AskInitial(c, q) \/ AskListed(c, q) \/ Complete(c, q)

ytdl__dash_segment_connected_cb(c) ==
  /\ net[c] = "connecting" /\ stage[c] = "segments"
  /\ net' = [net EXCEPT ![c] = "up"]
  /\ ytdl_dl_dash_ctx_next_chunk(c, reqs[c])
  /\ UNCHANGED <<fixedVars, on_closed, stage, manifest, is_shutdown,
                 is_dash_init, body, waiting, shutdown, got, odd, uaf>>

(* Whatever is in the body goes to on_data: the segment, or the text of an *)
(* error page, since no callback looks at the status.                      *)
ytdl__dash_echo_cb(c) ==
  /\ Answering(c, "segments") /\ ~body[c]
  /\ body' = [body EXCEPT ![c] = TRUE]
  /\ \/ got' = [got EXCEPT ![c] = Append(@, Head(reqs[c]))] /\ UNCHANGED odd
     \/ odd' = [odd EXCEPT ![c] = TRUE] /\ UNCHANGED got
  /\ UNCHANGED <<fixedVars, httpVars, manifest, is_shutdown, iterVars, reqs,
                 asked, completes, waiting, shutdown, uaf>>

GoesOnIfPaused(c) == pause[c]  \* mutant: the test is inverted
GoesOn(c) == ~pause[c]

(* The response is complete; the next segment is asked for, now or when    *)
(* the user says so.                                                       *)
ytdl__dash_segment_complete_cb(c) ==
  /\ Answering(c, "segments") /\ body[c]
  /\ body' = [body EXCEPT ![c] = FALSE]
  /\ IF GoesOn(c)
       THEN ytdl_dl_dash_ctx_next_chunk(c, Tail(reqs[c])) /\ UNCHANGED waiting
       ELSE /\ waiting' = [waiting EXCEPT ![c] = TRUE]
            /\ reqs' = [reqs EXCEPT ![c] = Tail(@)]
            /\ UNCHANGED <<path, next, asked, completes>>
  /\ UNCHANGED <<fixedVars, httpVars, manifest, is_shutdown, is_dash_init,
                 shutdown, got, odd, uaf>>

(* The user asks for the next segment after a pause.                       *)
UserNextChunk(c) ==
  /\ waiting[c] /\ shutdown[c] = "no"
  /\ waiting' = [waiting EXCEPT ![c] = FALSE]
  /\ ytdl_dl_dash_ctx_next_chunk(c, reqs[c])
  /\ UNCHANGED <<fixedVars, httpVars, manifest, is_shutdown, is_dash_init,
                 body, shutdown, got, odd, uaf>>

-----------------------------------------------------------------------------
(* Failure and shutdown.                                                   *)

(* The status callback only prints.                                        *)
ytdl__status_cb(c) ==
  /\ \/ net[c] = "connecting" /\ net' = [net EXCEPT ![c] = "failed"]
     \/ net[c] = "up" /\ net' = [net EXCEPT ![c] = "lost"]
  /\ UNCHANGED <<fixedVars, on_closed, stage, manifest, is_shutdown, iterVars,
                 requestVars, waiting, shutdown, got, odd, uaf>>

(* The user shuts a context down from on_complete or later; with           *)
(* EarlyShutdown at any time after it has connected.                       *)
ytdl_dl_dash_shutdown(c) ==
  /\ shutdown[c] = "no" /\ net[c] \in {"up", "lost", "closing"}
  /\ completes[c] > 0 \/ EarlyShutdown
  /\ shutdown' = [shutdown EXCEPT ![c] = "requested"]
  /\ UNCHANGED <<fixedVars, httpVars, manifest, is_shutdown, iterVars,
                 requestVars, waiting, got, odd, uaf>>

(* The idle handle of the shutdown: the context's memory is freed, and the *)
(* client shut down unless that was already done for the manifest.         *)
ytdl__dl_dash_shutdown(c) ==
  /\ shutdown[c] = "requested"
  /\ shutdown' = [shutdown EXCEPT ![c] = "done"]
  /\ IF is_shutdown[c] THEN UNCHANGED <<net, on_closed>>
       ELSE /\ net' = [net EXCEPT ![c] = "closing"]
            /\ on_closed' = [on_closed EXCEPT ![c] = "final"]
  /\ UNCHANGED <<fixedVars, stage, manifest, is_shutdown, iterVars,
                 requestVars, waiting, got, odd, uaf>>

ytdl__dash_close_f_cb(c) ==
  /\ net[c] = "closing" /\ on_closed[c] = "final"
  /\ net' = [net EXCEPT ![c] = "closed"]
  /\ UNCHANGED <<fixedVars, on_closed, stage, manifest, is_shutdown, iterVars,
                 requestVars, waiting, shutdown, got, odd, uaf>>

-----------------------------------------------------------------------------
(* What the server has a part in, and the teardown, in which it has none.  *)
Answer(c) ==
  \/ ytdl__dash_manifest_connected_cb(c)
  \/ ytdl__dash_manifest_cb(c)
  \/ ytdl__dash_manifest_complete_cb(c)
  \/ ytdl__dash_segment_connected_cb(c)
  \/ ytdl__dash_echo_cb(c)
  \/ ytdl__dash_segment_complete_cb(c)
Teardown(c) == ytdl__dl_dash_shutdown(c) \/ ytdl__dash_close_f_cb(c)
Callback(c) == Answer(c) \/ Teardown(c)

Next ==
  \/ ytdl_dl_dash_ctx_connect
  \/ ytdl__dash_close_cb
  \/ \E c \in Streams : \/ Callback(c)
                       \/ UserNextChunk(c)
                       \/ ytdl__status_cb(c)
                       \/ ytdl_dl_dash_shutdown(c)

Spec == Init /\ [][Next]_vars

(***************************************************************************)
(* What libuv gives: idle handles and close callbacks are run.             *)
(***************************************************************************)
LoopFairness ==
  /\ WF_vars(ytdl__dash_close_cb)
  /\ \A c \in Streams : WF_vars(Teardown(c))

(***************************************************************************)
(* What is assumed of the servers, since the code has no timer: each       *)
(* answers the TLS handshake or the attempt fails, and while the           *)
(* connection lasts it sends the response it owes to the end.  Each        *)
(* context has a connection of its own, so each is treated fairly.         *)
(***************************************************************************)
ServersAnswer == \A c \in Streams : WF_vars(Answer(c))

FairSpec == Spec /\ LoopFairness /\ ServersAnswer

-----------------------------------------------------------------------------
(* Properties.                                                             *)

(* The positions of a stream's representations in a manifest, in order.    *)
Offered(m, c) ==
  UNION {{<<i, j>> : j \in DOMAIN m[i].representations} :
           i \in {i \in DOMAIN m : m[i].type = c}}
At(m, p) == m[p[1]].representations[p[2]]
Earlier(p, q) == p[1] < q[1] \/ (p[1] = q[1] /\ p[2] <= q[2])

(* The representation a stream should have: the first of those with the    *)
(* greatest bandwidth, if any has one.                                     *)
BestAmong(m, positions) ==
  {p \in positions :
     /\ At(m, p).bandwidth > 0
     /\ \A q \in positions :
          /\ At(m, q).bandwidth <= At(m, p).bandwidth
          /\ At(m, q).bandwidth = At(m, p).bandwidth => Earlier(p, q)}
Best(m, c) ==
  LET best == BestAmong(m, Offered(m, c)) IN
  IF best = {} THEN NoRepresentation ELSE At(m, CHOOSE p \in best : TRUE)

(* For a stream there is no representation, or the best has no base URL.   *)
Unlocated(m) == \E c \in Streams : ~Best(m, c).base

(* The segments of a stream, the initial one first; none if a stream has   *)
(* no list.                                                                *)
Whole(m, c) ==
  IF Unlocated(m) \/ \E d \in Streams : ~Best(m, d).segmented THEN <<>>
  ELSE (IF Best(m, c).initial = Null THEN <<>> ELSE <<Best(m, c).initial>>)
         \o Best(m, c).list
AllMedia(m, c) == Null \notin ToSet(Whole(m, c))

Segments(m) == UNION {ToSet(Whole(m, c)) : c \in Streams}

(* Every variable stays in its domain; the iterator does not run past the  *)
(* end of the list.                                                        *)
TypeOK ==
  /\ mpd \in Manifests /\ pause \in [Streams -> BOOLEAN]
  /\ net \in [Streams -> {"none", "new", "connecting", "up", "failed", "lost",
                          "closing", "closed", "crashed"}]
  /\ on_closed \in [Streams -> {"none", "manifest", "final"}]
  /\ stage \in [Streams -> {"manifest", "segments"}]
  /\ manifest \in [Streams -> 0..MaxPieces]
  /\ is_shutdown \in [Streams -> BOOLEAN]
  /\ is_dash_init \in [Streams -> BOOLEAN]
  /\ path \in [Streams -> Segments(mpd) \cup {Null}]
  /\ \A c \in Streams : next[c] \in 1..(Len(Whole(mpd, c)) + 1)
  /\ reqs \in [Streams -> Seq(Segments(mpd) \cup {ManifestRequest})]
  /\ body \in [Streams -> BOOLEAN] /\ waiting \in [Streams -> BOOLEAN]
  /\ shutdown \in [Streams -> {"no", "requested", "done"}]
  /\ asked \in [Streams -> Seq(Segments(mpd))] /\ got \in [Streams -> Seq(Segments(mpd))]
  /\ completes \in [Streams -> Nat] /\ odd \in [Streams -> BOOLEAN]
  /\ uaf \in BOOLEAN

(* The segments of each stream's best representation are asked for in the  *)
(* manifest's order, none twice and none left out, one at a time, and      *)
(* on_data receives them in that order; only the one asked for last can be *)
(* outstanding.  on_complete is called at most once, when every segment    *)
(* has been handed over and nothing is outstanding.  The program gets as   *)
(* far as the segments, and then with both streams, exactly if the best    *)
(* representation of each has a base URL; otherwise it crashes when it has *)
(* the manifest.                                                           *)
SegmentsInOrder ==
  /\ TypeOK
  /\ \A c \in Streams :
       /\ stage[c] = "segments" => ~Unlocated(mpd)
       /\ net[c] = "crashed" => Unlocated(mpd)
       /\ stage[c] = "segments" =>
            /\ IsPrefix(asked[c], Whole(mpd, c))
            /\ ~odd[c] => /\ IsPrefix(got[c], asked[c])
                          /\ Len(asked[c]) - Len(got[c]) \in {0, 1}
            /\ Len(reqs[c]) <= 1
       /\ completes[c] <= 1
       /\ completes[c] = 1 =>
            /\ reqs[c] = <<>>
            /\ (AllMedia(mpd, c) /\ ~odd[c]) => got[c] = Whole(mpd, c)

(* Once connecting for the manifest, each stream completes, waits for its  *)
(* user to ask for more, or its connection fails or has a host that is no  *)
(* host; or the connection of the manifest fails before there is a second  *)
(* context; or the manifest lacks a representation with a base URL for a   *)
(* stream, and the program crashes.                                        *)
Settled(c) == \/ completes[c] > 0 \/ (pause[c] /\ waiting[c])
              \/ net[c] \in {"failed", "lost", "new"}
ManifestFailed ==
  stage["audio"] = "manifest" /\ net["audio"] \in {"failed", "lost"}

StreamsSettle ==
  \A c \in Streams :
    (net["audio"] = "connecting") ~>
      \/ Settled(c) \/ ManifestFailed
      \/ Unlocated(mpd) /\ net[c] = "crashed"

(* A shutdown ends with on_close, for each of the two contexts.            *)
TeardownCloses ==
  \A c \in Streams : (shutdown[c] # "no") ~> (net[c] = "closed")

(* Nothing uses a context's memory after its shutdown freed it: the event  *)
(* in progress is finished first.                                          *)
NoUseAfterFree == ~uaf
=============================================================================
