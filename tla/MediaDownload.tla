--------------------------- MODULE MediaDownload ---------------------------
(***************************************************************************)
(* The download of one media file, ytdl_dl_media_ctx_t of src/dl.c: the    *)
(* plan of byte ranges, the chain of requests on one connection, pausing   *)
(* between chunks, redirects to another host, and the shutdown.            *)
(*                                                                         *)
(* The file's bytes are numbered from 0.  got counts the bytes of the file *)
(* that were handed to on_data and intact says that they were handed over  *)
(* in order, with nothing in between.  What a server does that the code    *)
(* does not withstand is recorded in odd; OrdinaryServer says what is left.*)
(***************************************************************************)
EXTENDS Integers, Sequences

CONSTANTS
  ChunkSize,     \* YTDL_DL_CHUNK_SIZE
  Lengths,       \* lengths of the files to download
  MaxRedirects   \* bound: redirects the server sends

ASSUME MediaAssumption ==
  /\ ChunkSize \in Nat \ {0}
  /\ Lengths \subseteq Nat \ {0}
  /\ MaxRedirects \in Nat

VARIABLES
  total,           \* the length of the file
  clen,            \* ctx->format_content_length: total, or 0 if not known
  is_chunked,      \* the format has audio or video but not both
  pause,           \* ctx->pause_between_chunks
  net,             \* state of ctx->http
  on_closed,       \* which close callback was given to its shutdown
  handler,         \* installed on_message_complete: "chunk" or "final"
  last_chunk_end,
  reqs,            \* byte ranges requested and not fully answered; to = 0: open
  stage,           \* where the parser is in the response to Head(reqs)
  pos, end,        \* next and last byte of a media response
  want_redirect,
  redirect_was_location,
  url,             \* number of the redirect format_url comes from
  url_parsed,      \* the format_url that the offsets in ctx->url belong to
  waiting,         \* a chunk is complete and the user has to ask for the next
  shutdown,        \* "no", "requested" (idle handle started), "done"
  got, intact,
  completes,       \* calls of on_complete
  redirects,       \* redirects the server has sent
  odd,             \* history: what it did that OrdinaryServer excludes
  past_end,        \* history: a range that starts behind the end was asked for
  misuse           \* history: what the code did that it must not

format == <<total, clen, is_chunked, pause>>
parserVars == <<stage, pos, end, want_redirect, redirect_was_location>>
urlVars == <<url, url_parsed>>
planVars == <<handler, last_chunk_end, reqs, past_end>>
outVars == <<got, intact, completes>>
vars == <<format, net, on_closed, planVars, parserVars, urlVars, waiting,
          shutdown, outVars, redirects, odd, misuse>>

ByteRange(f, t) == [from |-> f, to |-> t]

-----------------------------------------------------------------------------
(* ytdl_dl_media_ctx_init.                                                 *)
Init ==
  /\ total \in Lengths /\ clen \in {0, total}
  /\ is_chunked \in BOOLEAN /\ pause \in BOOLEAN
  /\ net = "new" /\ on_closed = "none"
  /\ handler = "chunk" /\ last_chunk_end = 0 /\ reqs = <<>>
  /\ stage = "none" /\ pos = 0 /\ end = 0
  /\ want_redirect = FALSE /\ redirect_was_location = FALSE
  /\ url = 0 /\ url_parsed = 0
  /\ waiting = FALSE /\ shutdown = "no"
  /\ got = 0 /\ intact = TRUE /\ completes = 0
  /\ redirects = 0 /\ odd = {} /\ past_end = FALSE /\ misuse = {}

ytdl_dl_media_ctx_connect ==
  /\ net = "new" /\ on_closed = "none"
  /\ net' = "connecting"
  /\ UNCHANGED <<format, on_closed, planVars, parserVars, urlVars, waiting,
                 shutdown, outVars, redirects, odd, misuse>>

(* Ask for the range r, after the requests q.                              *)
ytdl_net_request_media_chunk(q, r) ==
  /\ reqs' = Append(q, r)
  /\ past_end' = (past_end \/ r.from >= total)

FirstRange == ByteRange(0, ChunkSize)

(* The first request on a connection.                                      *)
ytdl__media_connected_cb ==
  /\ net = "connecting"
  /\ net' = "up"
  /\ IF is_chunked /\ ChunkSize < clen
       THEN /\ ytdl_net_request_media_chunk(reqs, FirstRange)
            /\ last_chunk_end' = ChunkSize
            /\ UNCHANGED handler
       ELSE /\ ytdl_net_request_media_chunk(reqs, ByteRange(0, 0))
            /\ handler' = IF is_chunked THEN "final" ELSE handler
            /\ UNCHANGED last_chunk_end
  /\ UNCHANGED <<format, on_closed, parserVars, urlVars, waiting, shutdown,
                 outVars, redirects, odd, misuse>>

(* The status callbacks only print.                                        *)
ytdl__status_cb ==
  /\ \/ net = "connecting" /\ net' = "failed"
     \/ net = "up" /\ net' = "lost"
  /\ UNCHANGED <<format, on_closed, planVars, parserVars, urlVars, waiting,
                 shutdown, outVars, redirects, odd, misuse>>

(* The plan: the next range starts behind the last one and is open when it *)
(* reaches the end.                                                        *)
LastIfPassed == last_chunk_end >= clen             \* mutant: looks back
LastIfBeyond == last_chunk_end + ChunkSize > clen  \* mutant: off by one
IsLast == last_chunk_end + ChunkSize >= clen

Overlapping == last_chunk_end  \* mutant: the last byte is asked for again
NextStart == last_chunk_end + 1

OpenRange == ByteRange(NextStart, 0)

(* The next request, after the requests q.  It is cut out of format_url    *)
(* with the offsets in ctx->url, which may belong to the URL before a      *)
(* redirect.                                                               *)
ytdl_dl_media_ctx_next_chunk(q) ==
  /\ IF IsLast
       THEN /\ handler' = "final"
            /\ ytdl_net_request_media_chunk(q, OpenRange)
            /\ UNCHANGED last_chunk_end
       ELSE /\ ytdl_net_request_media_chunk(q,
                 ByteRange(NextStart, last_chunk_end + ChunkSize))
            /\ last_chunk_end' = last_chunk_end + ChunkSize
            /\ UNCHANGED handler
  /\ misuse' = misuse \cup (IF url # url_parsed THEN {"stale_offsets"} ELSE {})

(* The user asks for the next chunk after a pause.                         *)
UserNextChunk ==
  /\ waiting /\ shutdown = "no"
  /\ waiting' = FALSE
  /\ ytdl_dl_media_ctx_next_chunk(reqs)
  /\ UNCHANGED <<format, net, on_closed, parserVars, urlVars, shutdown,
                 outVars, redirects, odd>>

-----------------------------------------------------------------------------
(* A response.  The value that ytdl__media_status_cb returns is ignored by *)
(* the parser, so a response with any other status is read like a 200.     *)

ytdl__media_status_cb ==
  LET r == Head(reqs) IN
  /\ net = "up" /\ stage = "none" /\ reqs # <<>>
  /\ \/ /\ r.from < total           \* 200 or 206
        /\ stage' = "media"
        /\ pos' = r.from
        /\ end' = IF r.to = 0 \/ r.to >= total THEN total - 1 ELSE r.to
        /\ UNCHANGED <<want_redirect, redirects, odd>>
     \/ /\ r.from >= total          \* 416
        /\ stage' = "junk"
        /\ UNCHANGED <<pos, end, want_redirect, redirects, odd>>
     \/ /\ stage' = "junk"          \* any other status
        /\ odd' = odd \cup {"error_status"}
        /\ UNCHANGED <<pos, end, want_redirect, redirects>>
     \/ /\ redirects < MaxRedirects \* 301 or 302
        /\ redirects' = redirects + 1
        /\ stage' = "headers"
        /\ want_redirect' = TRUE
        /\ odd' = odd \cup (IF got > 0 THEN {"late_redirect"} ELSE {})
        /\ UNCHANGED <<pos, end>>
  /\ UNCHANGED <<format, net, on_closed, planVars, redirect_was_location,
                 urlVars, waiting, shutdown, outVars, misuse>>

ytdl__media_header_field_cb ==
  /\ net = "up" /\ stage = "headers"
  /\ want_redirect /\ ~redirect_was_location
  /\ redirect_was_location' = TRUE
  /\ UNCHANGED <<format, net, on_closed, planVars, stage, pos, end,
                 want_redirect, urlVars, waiting, shutdown, outVars,
                 redirects, odd, misuse>>

(* The value of Location becomes the new URL and the client is shut down   *)
(* from within its own read callback.                                      *)
ytdl__media_header_value_cb ==
  /\ net = "up" /\ stage = "headers"
  /\ redirect_was_location
  /\ url' = redirects
  /\ want_redirect' = FALSE /\ redirect_was_location' = FALSE
  /\ stage' = "tail"
  /\ net' = "closing" /\ on_closed' = "redirect"
  /\ UNCHANGED <<format, planVars, pos, end, url_parsed, waiting, shutdown,
                 outVars, redirects, odd, misuse>>

(* Everything in the body goes to on_data: a byte of the file, or the text *)
(* of an error page or of the rest of a redirect.                          *)
ytdl__media_echo_cb ==
  \/ /\ net = "up" /\ stage = "media" /\ pos <= end
     /\ intact' = (intact /\ pos = got)
     /\ got' = got + 1
     /\ pos' = pos + 1
     /\ UNCHANGED <<format, net, on_closed, planVars, stage, end,
                    want_redirect, redirect_was_location, urlVars, waiting,
                    shutdown, completes, redirects, odd, misuse>>
  \/ /\ net \in {"up", "closing"} /\ stage \in {"junk", "tail"}
     /\ intact' = FALSE
     /\ odd' = odd \cup (IF stage = "tail" THEN {"redirect_tail"} ELSE {})
     /\ UNCHANGED <<format, net, on_closed, planVars, parserVars, urlVars,
                    waiting, shutdown, got, completes, redirects, misuse>>

(* The end of a response, for both completion callbacks.  The rest of a    *)
(* redirect that came in the same read as its headers gets here too, with  *)
(* the client already closing.                                             *)
MessageComplete(h) ==
  /\ handler = h
  /\ \/ net = "up" /\ stage = "media" /\ pos > end /\ UNCHANGED odd
     \/ net = "up" /\ stage = "junk" /\ UNCHANGED odd
     \/ net = "up" /\ stage = "headers" /\ ~redirect_was_location
          /\ odd' = odd \cup {"no_location"}
     \/ net = "closing" /\ stage = "tail" /\ odd' = odd \cup {"redirect_tail"}
  /\ stage' = "none"
  /\ UNCHANGED <<format, net, on_closed, pos, end, want_redirect,
                 redirect_was_location, urlVars, shutdown, got, intact,
                 redirects>>

ytdl__media_chunk_final_complete_cb ==
  /\ MessageComplete("final")
  /\ reqs' = Tail(reqs)
  /\ completes' = completes + 1
  /\ UNCHANGED <<handler, last_chunk_end, past_end, waiting, misuse>>

GoOnIfPaused == pause  \* mutant: the test is inverted
GoOn == ~pause

ytdl__media_chunk_complete_cb ==
  /\ MessageComplete("chunk")
  /\ IF is_chunked /\ GoOn
       THEN /\ ytdl_dl_media_ctx_next_chunk(Tail(reqs))
            /\ UNCHANGED <<waiting, completes>>
       ELSE /\ waiting' = (waiting \/ (is_chunked /\ pause))
            /\ completes' = IF is_chunked THEN completes ELSE completes + 1
            /\ reqs' = Tail(reqs)
            /\ UNCHANGED <<handler, last_chunk_end, past_end, misuse>>

-----------------------------------------------------------------------------
(* The client has been closed.                                             *)

NotParsed == url_parsed  \* mutant: the offsets are not computed again
Parsed == url

(* It is initialised again, with nothing pending, and connects to the host *)
(* in the new URL, unless that cannot be parsed.                           *)
ytdl__media_close_redirect_cb ==
  /\ net = "closing" /\ on_closed = "redirect"
  /\ reqs' = <<>> /\ stage' = "none" /\ handler' = "chunk"
  /\ \/ net' = "connecting" /\ url_parsed' = Parsed
     \/ net' = "new" /\ UNCHANGED url_parsed
  /\ UNCHANGED <<format, on_closed, last_chunk_end, past_end, pos, end,
                 want_redirect, redirect_was_location, url, waiting, shutdown,
                 outVars, redirects, odd, misuse>>

(* The user shuts the download down from on_complete or later.             *)
ytdl_dl_media_shutdown ==
  /\ completes > 0 /\ shutdown = "no"
  /\ shutdown' = "requested"
  /\ UNCHANGED <<format, net, on_closed, planVars, parserVars, urlVars,
                 waiting, outVars, redirects, odd, misuse>>

ForRedirect == "redirect"  \* mutant: the wrong close callback
ForUser == "user"

ytdl__dl_media_shutdown ==
  /\ shutdown = "requested"
  /\ shutdown' = "done"
  /\ net' = "closing" /\ on_closed' = ForUser
  /\ misuse' = misuse \cup (IF net = "closing" THEN {"double_shutdown"} ELSE {})
  /\ UNCHANGED <<format, planVars, parserVars, urlVars, waiting, outVars,
                 redirects, odd>>

ytdl__media_close_cb ==
  /\ net = "closing" /\ on_closed = "user"
  /\ net' = "closed"
  /\ UNCHANGED <<format, on_closed, planVars, parserVars, urlVars, waiting,
                 shutdown, outVars, redirects, odd, misuse>>

-----------------------------------------------------------------------------
Next ==
  \/ ytdl_dl_media_ctx_connect
  \/ ytdl__media_connected_cb
  \/ ytdl__status_cb
  \/ UserNextChunk
  \/ ytdl__media_status_cb
  \/ ytdl__media_header_field_cb
  \/ ytdl__media_header_value_cb
  \/ ytdl__media_echo_cb
  \/ ytdl__media_chunk_final_complete_cb
  \/ ytdl__media_chunk_complete_cb
  \/ ytdl__media_close_redirect_cb
  \/ ytdl_dl_media_shutdown
  \/ ytdl__dl_media_shutdown
  \/ ytdl__media_close_cb

Spec == Init /\ [][Next]_vars

(***************************************************************************)
(* What libuv gives: the callbacks that need nothing from the server are   *)
(* run when they are due.                                                  *)
(***************************************************************************)
LoopFairness ==
  /\ WF_vars(ytdl__media_close_redirect_cb)
  /\ WF_vars(ytdl__dl_media_shutdown)
  /\ WF_vars(ytdl__media_close_cb)

(***************************************************************************)
(* What is assumed of the server, since the code has no timer: it answers  *)
(* the TLS handshake or the attempt fails, and while the connection lasts  *)
(* it sends the response it owes to the end.                               *)
(***************************************************************************)
ServerAnswers ==
  /\ WF_vars(ytdl__media_connected_cb)
  /\ WF_vars(ytdl__media_status_cb)
  /\ WF_vars(ytdl__media_header_field_cb)
  /\ WF_vars(ytdl__media_header_value_cb)
  /\ WF_vars(ytdl__media_echo_cb)
  /\ WF_vars(ytdl__media_chunk_final_complete_cb)
  /\ WF_vars(ytdl__media_chunk_complete_cb)

FairSpec == Spec /\ LoopFairness /\ ServerAnswers

-----------------------------------------------------------------------------
(* Properties.                                                             *)

Ranges == [from : Nat, to : Nat]

(* Every variable stays in its domain; the chunk plan never runs past the  *)
(* end of the file.                                                        *)
TypeOK ==
  /\ total \in Lengths /\ clen \in {0, total}
  /\ is_chunked \in BOOLEAN /\ pause \in BOOLEAN
  /\ net \in {"new", "connecting", "up", "failed", "lost", "closing", "closed"}
  /\ on_closed \in {"none", "redirect", "user"}
  /\ handler \in {"chunk", "final"} /\ last_chunk_end \in 0..total
  /\ reqs \in Seq(Ranges)
  /\ stage \in {"none", "headers", "media", "junk", "tail"}
  /\ pos \in Nat /\ end \in Nat
  /\ want_redirect \in BOOLEAN /\ redirect_was_location \in BOOLEAN
  /\ url \in 0..MaxRedirects /\ url_parsed \in 0..MaxRedirects
  /\ waiting \in BOOLEAN /\ shutdown \in {"no", "requested", "done"}
  /\ got \in Nat /\ intact \in BOOLEAN /\ completes \in Nat
  /\ redirects \in 0..MaxRedirects
  /\ odd \subseteq {"error_status", "late_redirect", "redirect_tail",
                    "no_location"}
  /\ past_end \in BOOLEAN
  /\ misuse \subseteq {"stale_offsets", "double_shutdown"}

(* What the code needs of a server; each of the four exemptions is one     *)
(* that it does not withstand:                                             *)
(*   error_status   a status other than 200, 206, 301 and 302, or a 416 for *)
(*                  a range inside of the file, whose text on_data gets and *)
(*                  whose end counts as that of a chunk;                   *)
(*   late_redirect  a redirect after some of the file has arrived, after   *)
(*                  which the download starts again from the first byte;   *)
(*   no_location    a redirect without Location, which counts as a chunk;  *)
(*   redirect_tail  any redirect, the first request's too, whose rest is   *)
(*                  parsed in the read that had Location: its body goes to *)
(*                  on_data, and its end asks for a chunk on, or completes, *)
(*                  the client that is closing.                            *)
(* A redirect that arrives in one piece has such a tail, so the redirects  *)
(* that are left are those cut in two directly behind the value of Location. *)
OrdinaryServer == odd = {}

(* The chunks join up: of an ordinary server on_data receives the bytes of *)
(* the file in order, none left out, none twice and nothing else, unless a *)
(* range behind the end was asked for, and on_complete is called once,     *)
(* when the whole file was received.                                       *)
DataIntact ==
  OrdinaryServer =>
    /\ ~past_end => intact
    /\ completes > 0 => completes = 1 /\ got = total

(* ytdl_dl_media_ctx_next_chunk asks for a range behind the end of the     *)
(* file only for a length that is one more than a multiple of the chunk    *)
(* size: the first chunk is one byte longer than the others.               *)
PastEndOnlyAtBoundary ==
  past_end => /\ is_chunked /\ total > ChunkSize
              /\ (total - 1) % ChunkSize = 0

(* No parser callback runs on a client that has been shut down: the event  *)
(* in progress is finished before the client is.                           *)
EventFinishedFirst == "redirect_tail" \notin odd

(* With an ordinary server requests are cut out of the URL their offsets   *)
(* belong to, over the redirects it may send, and a client that is closing *)
(* is not shut down again.                                                 *)
NoStaleUse == OrdinaryServer => misuse = {}

(* A download that has begun to connect completes, unless the connection   *)
(* fails or is lost, the new URL is not one, the user has to ask for the   *)
(* next chunk, or the server is not an ordinary one.                       *)
DownloadSettles ==
  (net = "connecting") ~> \/ completes > 0 \/ waiting \/ ~OrdinaryServer
                          \/ net \in {"failed", "lost", "new"}

(* A shutdown after a download from an ordinary server ends with on_close. *)
TeardownCloses == (shutdown # "no" /\ OrdinaryServer) ~> (net = "closed")
=============================================================================
