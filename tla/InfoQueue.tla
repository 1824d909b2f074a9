----------------------------- MODULE InfoQueue -----------------------------
(***************************************************************************)
(* The video information pipeline of src/dl.c: ytdl_dl_ctx_t, its queue of *)
(* videos, the one keep-alive connection to www.youtube.com they share,    *)
(* the cache of player files, and the two-step shutdown.                   *)
(*                                                                         *)
(* libuv runs one callback at a time, so a callback is one action.  The    *)
(* exception is ytdl__dl_finalize, which calls the caller's on_complete    *)
(* half way: the actions up to that call set cb, the caller may then use   *)
(* the context, and the rest of the function is an action of its own.      *)
(*                                                                         *)
(* A video is the number of the ytdl_dl_get_info call that made it.  A     *)
(* piece of a response body is the request it answers, so that a buffer's  *)
(* contents show whose bytes were put in it.                               *)
(***************************************************************************)
EXTENDS Naturals, Sequences

CONSTANTS
  Players,        \* paths of player files (info.player_url)
  MaxCalls,       \* bound: calls of ytdl_dl_get_info
  MaxFragments,   \* bound: on_body callbacks per response
  MallocSlots,    \* pointers that fit the block malloc returns for one
  EarlyShutdown,  \* may the caller shut down before it is connected?
  NoPlayer        \* info.player_url before a watch page is read

ASSUME InfoQueueAssumption ==
  /\ MaxCalls \in Nat
  /\ MaxFragments \in Nat
  /\ MallocSlots \in Nat \ {0}
  /\ EarlyShutdown \in BOOLEAN
  /\ NoPlayer \notin Players
  /\ Players \cap {"extract_error", "unplayable", "none"} = {}

VARIABLES
  queue,       \* ctx->queue.videos[0 .. len - 1]
  size,        \* ctx->queue.size
  status,      \* the flags set in ctx->status
  handler,     \* whose on_body / on_message_complete are installed
  response,    \* response[v]: contents of vid->response
  player_url,  \* player_url[v]: vid->info.player_url
  player_js,   \* contents of ctx->player_js
  player_map,  \* ctx->player_map: path -> what its sig_actions were read from
  cb,          \* the player of the on_complete call in progress, or "none"
  shutdown,    \* "no", "requested" (idle handle started), "freed"
  net,         \* state of ctx->http
  wire,        \* requests handed to ctx->http and not yet fully answered
  frags,       \* body fragments of the current response seen so far
  calls,       \* how many times ytdl_dl_get_info was called
  page,        \* page[v]: what the server's watch page of call v says
  completed,   \* history: the on_complete calls
  fault,       \* history: why the head of the queue was given up, or "none"
  uaf          \* history: a callback read memory that had been freed

ctxVars == <<queue, size, status, handler, response, player_url, player_js,
             player_map, cb, shutdown>>
netVars == <<net, wire, frags>>
vars == <<ctxVars, netVars, calls, page, completed, fault, uaf>>

Calls == 1..MaxCalls
BadPages == {"extract_error", "unplayable"}

WatchRequest(v) == [kind |-> "watch", of |-> v]
PlayerRequest(p) == [kind |-> "player", of |-> p]
Requests == [kind : {"watch"}, of : Calls] \cup [kind : {"player"}, of : Players]

Pieces(content) == {content[i] : i \in 1..Len(content)}

-----------------------------------------------------------------------------
(* ytdl_dl_ctx_init; the players a cache file may have held are loaded by  *)
(* ytdl_dl_player_cache_load_file before anything else happens.            *)

Init ==
  /\ queue = <<>> /\ size = 1 /\ status = {}
  /\ handler = "watch"
  /\ response = [v \in Calls |-> <<>>]
  /\ player_url = [v \in Calls |-> NoPlayer]
  /\ player_js = <<>>
  /\ \E cached \in SUBSET Players :
        player_map = [p \in cached |-> <<PlayerRequest(p)>>]
  /\ cb = "none" /\ shutdown = "no"
  /\ net = "new" /\ wire = <<>> /\ frags = 0
  /\ calls = 0
  /\ page \in [Calls -> Players \cup BadPages]
  /\ completed = <<>> /\ fault = "none" /\ uaf = FALSE

-----------------------------------------------------------------------------
(* Mutant: the request is sent but the connection still counts as idle.   *)
WakeStaysIdle(q, st) ==
  IF "IDLE" \in st /\ q # <<>>
    THEN /\ handler' = "watch"
         /\ wire' = Append(wire, WatchRequest(Head(q)))
         /\ status' = st
    ELSE /\ status' = st
         /\ UNCHANGED <<handler, wire>>

(* Send the watch request of the first video q holds, if the connection is *)
(* idle; q and st are the queue and the flags at the time of the call.     *)
ytdl__dl_wake(q, st) ==
  IF "IDLE" \in st /\ q # <<>>
    THEN /\ handler' = "watch"
         /\ wire' = Append(wire, WatchRequest(Head(q)))
         /\ status' = st \ {"IDLE"}
    ELSE /\ status' = st
         /\ UNCHANGED <<handler, wire>>

(* queue.size *= 1.5 is computed in double and truncated to size_t.        *)
Grown(n) == (3 * n) \div 2

(* The entry that queue.len++ makes room for.                              *)
OldVideo == calls  \* mutant: numbered before the increment
NewVideo == calls + 1

(* Called at any time, also from within an on_complete callback.  The      *)
(* store goes through although size may be too small for it as long as it  *)
(* stays inside the slack of malloc's block.                               *)
ytdl_dl_get_info ==
  /\ calls < MaxCalls /\ shutdown # "freed"
  /\ Len(queue) < MallocSlots
  /\ calls' = calls + 1
  /\ size' = IF size = Len(queue) THEN Grown(size) ELSE size
  /\ queue' = Append(queue, NewVideo)
  /\ ytdl__dl_wake(queue', status)
  /\ UNCHANGED <<response, player_url, player_js, player_map, cb, shutdown,
                 net, frags, page, completed, fault, uaf>>

-----------------------------------------------------------------------------
(* The connection.                                                         *)

ytdl_dl_ctx_connect ==
  /\ net = "new" /\ shutdown = "no"
  /\ net' = "connecting"
  /\ UNCHANGED <<ctxVars, wire, frags, calls, page, completed, fault, uaf>>

ConnectedOnly == {"CONNECTED"}  \* mutant: not marked idle
ConnectedFlags == {"CONNECTED", "IDLE"}

(* ytdl__connected_cb wakes the queue.  Nothing stops a connection attempt *)
(* when the context is torn down before it succeeds: wake then looks for   *)
(* videos[0] in a queue that has been freed.                               *)
ytdl__connected_cb ==
  /\ net = "connecting" /\ cb = "none"
  /\ net' = "up"
  /\ ytdl__dl_wake(queue, status \cup ConnectedFlags)
  /\ uaf' = (uaf \/ (shutdown = "freed" /\ queue # <<>>))
  /\ UNCHANGED <<queue, size, response, player_url, player_js, player_map, cb,
                 shutdown, frags, calls, page, completed, fault>>

(* ytdl__status_cb only prints, so a failed attempt or a connection that   *)
(* the server ends changes nothing in the context.                         *)
ytdl__status_cb ==
  /\ cb = "none"
  /\ \/ net = "connecting" /\ net' = "failed"
     \/ net = "up" /\ net' = "lost"
  /\ UNCHANGED <<ctxVars, wire, frags, calls, page, completed, fault, uaf>>

(* The TLS write in ytdl__http_client_tls_poll_cb may fail and the request *)
(* be dropped all the same: ytdl__write_cb is told YTDL_NET_E_OK, does     *)
(* nothing, and the request is popped from the write queue.                *)
WriteDropped ==
  /\ net = "up" /\ cb = "none"
  /\ wire # <<>> /\ frags = 0
  /\ wire' = Tail(wire)
  /\ fault' = "request_lost"
  /\ UNCHANGED <<ctxVars, net, frags, calls, page, completed, uaf>>

-----------------------------------------------------------------------------
(* A response arrives: parser callbacks on ctx->http.  They all use the    *)
(* context's buffers, whether or not these still exist.                    *)

Receiving(h) ==
  /\ net = "up" /\ cb = "none"
  /\ wire # <<>> /\ queue # <<>>
  /\ handler = h
  /\ uaf' = (uaf \/ shutdown = "freed")

ytdl__watch_body_cb ==
  /\ Receiving("watch") /\ frags < MaxFragments
  /\ response' = [response EXCEPT ![Head(queue)] = Append(@, Head(wire))]
  /\ frags' = frags + 1
  /\ UNCHANGED <<queue, size, status, handler, player_url, player_js,
                 player_map, cb, shutdown, net, wire, calls, page, completed,
                 fault>>

yt__player_body_cb ==
  /\ Receiving("player") /\ frags < MaxFragments
  /\ player_js' = Append(player_js, Head(wire))
  /\ frags' = frags + 1
  /\ UNCHANGED <<queue, size, status, handler, response, player_url,
                 player_map, cb, shutdown, net, wire, calls, page, completed,
                 fault>>

(* ytdl_info_extract_watch_html and ytdl_info_get_playability_status: the  *)
(* page is read off the buffer, which must hold one watch page and only    *)
(* that.                                                                   *)
ytdl_info_extract_watch_html(content) ==
  IF \E v \in Calls : Pieces(content) = {WatchRequest(v)}
    THEN page[CHOOSE v \in Calls : Pieces(content) = {WatchRequest(v)}]
    ELSE "extract_error"

(* ytdl__dl_finalize up to and including the call of vid->on_complete.     *)
OnComplete(vid, path, map) ==
  /\ cb' = path
  /\ completed' = Append(completed,
                         [job |-> vid, player |-> path, source |-> map[path]])

ytdl__watch_html_complete ==
  LET vid == Head(queue)
      path == ytdl_info_extract_watch_html(response[vid]) IN
  /\ Receiving("watch")
  /\ frags' = 0
  /\ \/ /\ path \in BadPages
        /\ wire' = Tail(wire)
        /\ fault' = path
        /\ UNCHANGED <<handler, player_url, cb, completed>>
     \/ /\ path \in DOMAIN player_map
        /\ wire' = Tail(wire)
        /\ player_url' = [player_url EXCEPT ![vid] = path]
        /\ OnComplete(vid, path, player_map)
        /\ UNCHANGED <<handler, fault>>
     \/ /\ path \in Players \ DOMAIN player_map
        /\ handler' = "player"
        /\ wire' = Append(Tail(wire), PlayerRequest(path))
        /\ player_url' = [player_url EXCEPT ![vid] = path]
        /\ UNCHANGED <<cb, completed, fault>>
  /\ UNCHANGED <<queue, size, status, response, player_js, player_map,
                 shutdown, net, calls, page>>

(* hashmap_put of what ytdl_sig_actions_extract made of the buffer.        *)
WithPlayer(map, path, content) ==
  [p \in DOMAIN map \cup {path} |-> IF p = path THEN content ELSE map[p]]

NotRewound == player_js  \* mutant: the next file is added to this one
Rewound == <<>>

ytdl__player_js_complete ==
  LET vid == Head(queue)
      path == player_url[vid] IN
  /\ Receiving("player")
  /\ frags' = 0
  /\ wire' = Tail(wire)
  /\ \/ /\ fault' = "sig_extract"
        /\ UNCHANGED <<player_js, player_map, cb, completed>>
     \/ /\ player_js # <<>>
        /\ player_map' = WithPlayer(player_map, path, player_js)
        /\ player_js' = Rewound
        /\ OnComplete(vid, path, player_map')
        /\ UNCHANGED fault
  /\ UNCHANGED <<queue, size, status, handler, response, player_url,
                 shutdown, net, calls, page>>

(* The queue without its head, and whether that leaves any video.          *)
WithoutLast == SubSeq(queue, 1, Len(queue) - 1)  \* mutant: shifted wrongly
Shifted == Tail(queue)

MoreThanOneLeft == Len(queue) - 1 > 1  \* mutant: off by one
AnyLeft == Len(queue) - 1 > 0

(* The rest of ytdl__dl_finalize, once on_complete has returned.           *)
ytdl__dl_finalize ==
  /\ cb # "none"
  /\ cb' = "none"
  /\ queue' = Shifted
  /\ IF AnyLeft
       THEN ytdl__dl_wake(queue', status \cup {"IDLE"})
       ELSE status' = status \cup {"IDLE"} /\ UNCHANGED <<handler, wire>>
  /\ UNCHANGED <<size, response, player_url, player_js, player_map, shutdown,
                 net, frags, calls, page, completed, fault, uaf>>

-----------------------------------------------------------------------------
(* Shutdown: the caller starts an idle handle; its callback frees all.     *)

ytdl_dl_shutdown ==
  /\ shutdown = "no"
  /\ EarlyShutdown \/ "CONNECTED" \in status
  /\ shutdown' = "requested"
  /\ UNCHANGED <<queue, size, status, handler, response, player_url,
                 player_js, player_map, cb, netVars, calls, page, completed,
                 fault, uaf>>

OnlyIfIdle == "IDLE" \in status  \* mutant: not with a request in flight
HasConnection == "CONNECTED" \in status

ytdl__dl_shutdown ==
  /\ shutdown = "requested" /\ cb = "none"
  /\ shutdown' = "freed"
  /\ net' = IF HasConnection THEN "closing" ELSE net
  /\ UNCHANGED <<queue, size, status, handler, response, player_url,
                 player_js, player_map, cb, wire, frags, calls, page,
                 completed, fault, uaf>>

ytdl__close_cb ==
  /\ net = "closing" /\ cb = "none"
  /\ net' = "closed"
  /\ UNCHANGED <<ctxVars, wire, frags, calls, page, completed, fault, uaf>>

-----------------------------------------------------------------------------
Next ==
  \/ ytdl_dl_get_info
  \/ ytdl_dl_ctx_connect
  \/ ytdl__connected_cb
  \/ ytdl__status_cb
  \/ WriteDropped
  \/ ytdl__watch_body_cb
  \/ yt__player_body_cb
  \/ ytdl__watch_html_complete
  \/ ytdl__player_js_complete
  \/ ytdl__dl_finalize
  \/ ytdl_dl_shutdown
  \/ ytdl__dl_shutdown
  \/ ytdl__close_cb

Spec == Init /\ [][Next]_vars

(***************************************************************************)
(* What libuv and the caller give: the idle handle and the close callback  *)
(* are run when they are due, and on_complete returns.                     *)
(***************************************************************************)
LoopFairness ==
  /\ WF_vars(ytdl__dl_finalize)
  /\ WF_vars(ytdl__dl_shutdown)
  /\ WF_vars(ytdl__close_cb)

(***************************************************************************)
(* What is assumed of the server, since the code has no timer: it answers  *)
(* the TLS handshake or the attempt fails, and while the connection lasts  *)
(* it sends the response it owes to the end.                               *)
(***************************************************************************)
ServerAnswers ==
  /\ WF_vars(ytdl__connected_cb)
  /\ WF_vars(ytdl__watch_html_complete)
  /\ WF_vars(ytdl__player_js_complete)

FairSpec == Spec /\ LoopFairness /\ ServerAnswers

-----------------------------------------------------------------------------
(* Properties.                                                             *)

NetStates == {"new", "connecting", "up", "failed", "lost", "closing", "closed"}

(* Every variable stays in its domain: the queue holds numbers of calls    *)
(* that were made, buffers hold pieces of responses, the flags of status   *)
(* are those of dl.h.                                                      *)
TypeOK ==
  /\ queue \in Seq(Calls) /\ size \in Nat
  /\ status \subseteq {"CONNECTED", "IDLE"}
  /\ handler \in {"watch", "player"}
  /\ response \in [Calls -> Seq(Requests)]
  /\ player_url \in [Calls -> Players \cup {NoPlayer}]
  /\ player_js \in Seq(Requests)
  /\ DOMAIN player_map \subseteq Players
  /\ player_map \in [DOMAIN player_map -> Seq(Requests)]
  /\ cb \in Players \cup {"none"}
  /\ shutdown \in {"no", "requested", "freed"}
  /\ net \in NetStates /\ wire \in Seq(Requests) /\ frags \in 0..MaxFragments
  /\ calls \in 0..MaxCalls
  /\ page \in [Calls -> Players \cup BadPages]
  /\ completed \in Seq([job : Calls, player : Players, source : Seq(Requests)])
  /\ fault \in BadPages \cup {"none", "sig_extract", "request_lost"}
  /\ uaf \in BOOLEAN

(* The body callbacks of dl.c credit what they receive to videos[0] and to *)
(* whichever handler is installed, never to a request.  This is right only *)
(* if at most one request is in flight and it is the one that the          *)
(* installed handler and the head of the queue expect, whatever calls of   *)
(* ytdl_dl_get_info came in between; and none while the queue is idle.     *)
RepliesReachTheirOwner ==
  wire # <<>> =>
    /\ Len(wire) = 1 /\ "IDLE" \notin status /\ cb = "none" /\ queue # <<>>
    /\ Head(wire) = IF handler = "watch"
                      THEN WatchRequest(Head(queue))
                      ELSE PlayerRequest(player_url[Head(queue)])

(* No buffer ever mixes two responses: a video's buffer holds only its own *)
(* watch page, and the signature actions kept for a player were read from  *)
(* that player's file alone, although all player files share one buffer    *)
(* that ytdl__player_js_complete rewinds.                                  *)
BuffersUnmixed ==
  /\ \A v \in Calls : Pieces(response[v]) \subseteq {WatchRequest(v)}
  /\ \A p \in DOMAIN player_map : Pieces(player_map[p]) = {PlayerRequest(p)}

(* The IDLE flag never strands the queue: while the connection has been    *)
(* made and nothing went wrong, a queue that is not empty has a request in *)
(* flight, however calls, completions and the connection interleaved.      *)
NoLostWakeup ==
  (/\ "CONNECTED" \in status /\ cb = "none" /\ queue # <<>>
   /\ fault = "none" /\ shutdown # "freed")
  => wire # <<>>

(* No callback uses the queue after ytdl__dl_shutdown has freed it.        *)
NoUseAfterFree == ~uaf

(* The queue array has room for its entries: ytdl_dl_get_info enlarges it  *)
(* before it stores a video.                                               *)
QueueFits == Len(queue) <= size

(* The player whose file, and whose file alone, content was received from. *)
SigOwner(content) ==
  IF \E p \in Players : Pieces(content) = {PlayerRequest(p)}
    THEN CHOOSE p \in Players : Pieces(content) = {PlayerRequest(p)}
    ELSE NoPlayer

DeliveredView ==
  [i \in 1..Len(completed) |->
     [job |-> completed[i].job, player |-> completed[i].player,
      sig |-> SigOwner(completed[i].source)]]

Service == INSTANCE InfoService
             WITH submitted <- calls, delivered <- DeliveredView,
                  open <- (shutdown # "freed")

(* The pipeline keeps the promise of InfoService: on_complete is called in *)
(* call order, once per call, with the player of the call's own page and   *)
(* that player's own signature actions, and never after the teardown.      *)
ImplementsService == Service!ServiceSpec

Delivered(v) == \E i \in 1..Len(completed) : completed[i].job = v

(* Every call is answered unless the head of the queue was given up, the   *)
(* connection was never made or was lost, or the context is shut down: no  *)
(* other way of waiting for ever exists.                                   *)
EveryCallSettles ==
  \A v \in Calls :
    (v <= calls) ~> \/ Delivered(v)
                    \/ fault # "none" \/ shutdown # "no"
                    \/ net \in {"new", "failed", "lost"}

(* A shutdown requested on a connected context ends with on_close.         *)
ShutdownCloses ==
  (shutdown # "no" /\ "CONNECTED" \in status) ~> (net = "closed")
=============================================================================
