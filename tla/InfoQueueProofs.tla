-------------------------- MODULE InfoQueueProofs --------------------------
(***************************************************************************)
(* Proofs about InfoQueue, for every set of players and every value of the *)
(* bounds.  Pipeline is the inductive invariant that makes the crediting   *)
(* of responses to videos[0] right; the buffers, the order of completions  *)
(* and the teardown are proved on top of it.                               *)
(***************************************************************************)
EXTENDS InfoQueue, SequenceTheorems, TLAPS

(* The context counts as connected from connected_cb on, and before that   *)
(* it has asked for nothing.                                               *)
ConnectionInv ==
  /\ "CONNECTED" \in status <=> net \notin {"new", "connecting", "failed"}
  /\ "CONNECTED" \notin status =>
       status = {} /\ wire = <<>> /\ cb = "none" /\ fault = "none"

(* A video is being completed, the head of the queue was given up, the     *)
(* queue is idle and empty, or a request is in flight.                     *)
ServingInv ==
  /\ cb # "none" => queue # <<>> /\ "IDLE" \notin status
  /\ fault # "none" => wire = <<>> /\ cb = "none" /\ "IDLE" \notin status
  /\ ("CONNECTED" \in status /\ cb = "none" /\ fault = "none" /\ wire = <<>>)
       => "IDLE" \in status /\ queue = <<>>

Pipeline ==
  TypeOK /\ RepliesReachTheirOwner /\ ConnectionInv /\ ServingInv

-----------------------------------------------------------------------------
(* The request kinds and what a buffer's pieces are.                       *)

LEMMA RequestFacts ==
  /\ \A v \in Calls : WatchRequest(v) \in Requests
  /\ \A p \in Players : PlayerRequest(p) \in Requests
  /\ \A p : PlayerRequest(p) \in Requests => p \in Players
BY DEF WatchRequest, PlayerRequest, Requests

LEMMA PlayerNames ==
  ASSUME NEW p \in Players
  PROVE  p # NoPlayer /\ p # "none" /\ p # "extract_error" /\ p # "unplayable"
BY InfoQueueAssumption

LEMMA AppendFacts ==
  ASSUME NEW S, NEW s \in Seq(S), NEW e \in S
  PROVE  /\ Append(s, e) \in Seq(S) /\ Append(s, e) # <<>>
         /\ Len(Append(s, e)) = Len(s) + 1
         /\ Append(s, e)[Len(s) + 1] = e
         /\ \A i \in 1..Len(s) : Append(s, e)[i] = s[i]
         /\ Head(Append(s, e)) = IF s = <<>> THEN e ELSE Head(s)
<1>1. Append(s, e) \in Seq(S) /\ Append(s, e) # <<>>
  BY AppendProperties
<1>2. /\ Len(Append(s, e)) = Len(s) + 1
      /\ Append(s, e)[Len(s) + 1] = e
      /\ \A i \in 1..Len(s) : Append(s, e)[i] = s[i]
  BY AppendProperties
<1>3. Head(Append(s, e)) = IF s = <<>> THEN e ELSE Head(s)
  BY HeadTailAppend
<1> QED
  BY <1>1, <1>2, <1>3

LEMMA TailFacts ==
  ASSUME NEW S, NEW s \in Seq(S), s # <<>>
  PROVE  /\ Head(s) \in S /\ Tail(s) \in Seq(S)
         /\ Len(s) \in Nat \ {0} /\ Len(Tail(s)) = Len(s) - 1
         /\ (Tail(s) = <<>> <=> Len(s) = 1)
         /\ Head(s) = s[1]
         /\ \A i \in 1..Len(Tail(s)) : Tail(s)[i] = s[i + 1]
<1>1. /\ Head(s) \in S /\ Tail(s) \in Seq(S)
      /\ Len(Tail(s)) = Len(s) - 1
      /\ \A i \in 1..Len(Tail(s)) : Tail(s)[i] = s[i + 1]
  BY HeadTailProperties
<1>2. Len(s) \in Nat \ {0}
  BY EmptySeq
<1>3. Tail(s) = <<>> <=> Len(Tail(s)) = 0
  BY <1>1, EmptySeq
<1>4. Head(s) = s[1]
  OBVIOUS
<1> QED
  BY <1>1, <1>2, <1>3, <1>4

LEMMA PiecesFacts ==
  ASSUME NEW S, NEW s \in Seq(S)
  PROVE  /\ Pieces(<<>>) = {}
         /\ \A e \in S : Pieces(Append(s, e)) = Pieces(s) \cup {e}
         /\ s # <<>> => Pieces(s) # {}
<1>1. ASSUME NEW e \in S
      PROVE  Pieces(Append(s, e)) = Pieces(s) \cup {e}
  BY AppendFacts, LenProperties DEF Pieces
<1>2. s # <<>> => Pieces(s) # {}
  BY TailFacts DEF Pieces
<1>3. Pieces(<<>>) = {}
  BY DEF Pieces
<1> QED
  BY <1>1, <1>2, <1>3

-----------------------------------------------------------------------------
(* The initial states.                                                     *)

LEMMA PipelineInit == Init => Pipeline
<1> SUFFICES ASSUME Init PROVE Pipeline
  OBVIOUS
<1>1. PICK cached \in SUBSET Players :
        player_map = [p \in cached |-> <<PlayerRequest(p)>>]
  BY DEF Init
<1>2. ASSUME NEW p \in cached PROVE <<PlayerRequest(p)>> \in Seq(Requests)
  <2>1. PlayerRequest(p) \in Requests
    BY RequestFacts
  <2> QED
    BY <2>1
<1>3. DOMAIN player_map \subseteq Players
      /\ player_map \in [DOMAIN player_map -> Seq(Requests)]
  <2>1. DOMAIN player_map = cached
    BY <1>1
  <2>2. \A p \in cached : player_map[p] = <<PlayerRequest(p)>>
    BY <1>1
  <2>3. player_map \in [cached -> Seq(Requests)]
    BY <1>1, <1>2
  <2> QED
    BY <2>1, <2>3
<1>4. TypeOK
  <2>1. /\ queue \in Seq(Calls) /\ size \in Nat
        /\ player_js \in Seq(Requests) /\ wire \in Seq(Requests)
        /\ completed \in Seq([job : Calls, player : Players,
                               source : Seq(Requests)])
    BY EmptySeq DEF Init
  <2>2. response \in [Calls -> Seq(Requests)]
    BY EmptySeq DEF Init
  <2>3. player_url \in [Calls -> Players \cup {NoPlayer}]
    BY DEF Init
  <2>4. calls \in 0..MaxCalls /\ frags \in 0..MaxFragments
    BY InfoQueueAssumption DEF Init
  <2>5. /\ status \subseteq {"CONNECTED", "IDLE"}
        /\ handler \in {"watch", "player"} /\ cb \in Players \cup {"none"}
        /\ shutdown \in {"no", "requested", "freed"}
        /\ fault \in BadPages \cup {"none", "sig_extract", "request_lost"}
        /\ uaf \in BOOLEAN /\ net \in NetStates
    BY DEF Init, NetStates
  <2>6. page \in [Calls -> Players \cup BadPages]
    BY DEF Init
  <2> QED
    BY <1>3, <2>1, <2>2, <2>3, <2>4, <2>5, <2>6 DEF TypeOK
<1>5. RepliesReachTheirOwner /\ ConnectionInv /\ ServingInv
  BY DEF Init, RepliesReachTheirOwner, ConnectionInv, ServingInv
<1> QED
  BY <1>4, <1>5 DEF Pipeline

-----------------------------------------------------------------------------
(* Every action preserves the pipeline invariant.                          *)

(* ytdl__dl_wake, called while a context is not completing a video: either *)
(* the connection was not idle or there is nothing to ask for, and nothing *)
(* changes, or the watch request of the first video is now in flight.      *)
LEMMA WakeFacts ==
  ASSUME TypeOK, NEW q \in Seq(Calls), NEW st, ytdl__dl_wake(q, st),
         st \subseteq {"CONNECTED", "IDLE"}, "IDLE" \in st => wire = <<>>
  PROVE  /\ status' \subseteq {"CONNECTED", "IDLE"}
         /\ "CONNECTED" \in status' <=> "CONNECTED" \in st
         /\ wire' \in Seq(Requests) /\ handler' \in {"watch", "player"}
         /\ \/ /\ "IDLE" \in st /\ q # <<>> /\ "IDLE" \notin status'
               /\ wire' # <<>> /\ Len(wire') = 1
               /\ handler' = "watch" /\ Head(wire') = WatchRequest(Head(q))
            \/ /\ "IDLE" \notin st \/ q = <<>>
               /\ status' = st /\ wire' = wire /\ handler' = handler
<1>1. CASE "IDLE" \in st /\ q # <<>>
  <2>1. /\ handler' = "watch" /\ status' = st \ {"IDLE"}
        /\ wire' = Append(wire, WatchRequest(Head(q))) /\ wire = <<>>
    BY <1>1 DEF ytdl__dl_wake
  <2>2. WatchRequest(Head(q)) \in Requests
    BY <1>1, TailFacts, RequestFacts
  <2>3. /\ wire' \in Seq(Requests) /\ wire' # <<>> /\ Len(wire') = 1
        /\ Head(wire') = WatchRequest(Head(q))
    BY <2>1, <2>2, AppendFacts, EmptySeq
  <2> QED
    BY <1>1, <2>1, <2>3
<1>2. CASE "IDLE" \notin st \/ q = <<>>
  BY <1>2 DEF ytdl__dl_wake, TypeOK
<1> QED
  BY <1>1, <1>2

LEMMA GetInfoKeepsPipeline ==
  ASSUME Pipeline, ytdl_dl_get_info PROVE Pipeline'
<1> USE DEF Pipeline
<1>1. /\ queue \in Seq(Calls) /\ NewVideo \in Calls
      /\ queue' = Append(queue, NewVideo) /\ calls' = calls + 1
      /\ calls' \in 0..MaxCalls
  BY InfoQueueAssumption DEF ytdl_dl_get_info, NewVideo, TypeOK, Calls
<1>2. /\ queue' \in Seq(Calls) /\ queue' # <<>>
      /\ Head(queue') = IF queue = <<>> THEN NewVideo ELSE Head(queue)
  BY <1>1, AppendFacts
<1>3. "IDLE" \in status => wire = <<>>
  BY DEF RepliesReachTheirOwner
<1>4. ytdl__dl_wake(queue', status)
  BY DEF ytdl_dl_get_info
<1>5. /\ status' \subseteq {"CONNECTED", "IDLE"}
      /\ "CONNECTED" \in status' <=> "CONNECTED" \in status
      /\ wire' \in Seq(Requests) /\ handler' \in {"watch", "player"}
      /\ \/ /\ "IDLE" \in status /\ "IDLE" \notin status'
            /\ wire' # <<>> /\ Len(wire') = 1
            /\ handler' = "watch" /\ Head(wire') = WatchRequest(Head(queue'))
         \/ /\ "IDLE" \notin status
            /\ status' = status /\ wire' = wire /\ handler' = handler
  BY <1>2, <1>3, <1>4, WakeFacts DEF TypeOK
<1>6. size' \in Nat
  BY DEF ytdl_dl_get_info, TypeOK, Grown
<1>7. UNCHANGED <<response, player_url, player_js, player_map, cb, shutdown,
                  net, frags, page, completed, fault, uaf>>
  BY DEF ytdl_dl_get_info
<1>8. TypeOK'
  BY <1>1, <1>2, <1>5, <1>6, <1>7 DEF TypeOK
<1>9. RepliesReachTheirOwner'
  BY <1>2, <1>5, <1>7 DEF RepliesReachTheirOwner, ConnectionInv, ServingInv, TypeOK
<1>10. ConnectionInv'
  BY <1>5, <1>7 DEF ConnectionInv
<1>11. ServingInv'
  BY <1>2, <1>5, <1>7 DEF ServingInv, ConnectionInv, RepliesReachTheirOwner
<1> QED
  BY <1>8, <1>9, <1>10, <1>11

LEMMA ConnectedKeepsPipeline ==
  ASSUME Pipeline, ytdl__connected_cb PROVE Pipeline'
<1> USE DEF Pipeline
<1>1. /\ net = "connecting" /\ cb = "none" /\ net' = "up"
      /\ ytdl__dl_wake(queue, status \cup ConnectedFlags)
      /\ uaf' \in BOOLEAN
      /\ UNCHANGED <<queue, size, response, player_url, player_js, player_map,
                     cb, shutdown, frags, calls, page, completed, fault>>
  BY DEF ytdl__connected_cb
<1>2. status = {} /\ wire = <<>> /\ fault = "none"
  BY <1>1 DEF ConnectionInv
<1>3. status \cup ConnectedFlags = {"CONNECTED", "IDLE"}
  BY <1>2 DEF ConnectedFlags
<1>4. /\ status' \subseteq {"CONNECTED", "IDLE"} /\ "CONNECTED" \in status'
      /\ wire' \in Seq(Requests) /\ handler' \in {"watch", "player"}
      /\ \/ /\ queue # <<>> /\ "IDLE" \notin status'
            /\ wire' # <<>> /\ Len(wire') = 1
            /\ handler' = "watch" /\ Head(wire') = WatchRequest(Head(queue))
         \/ /\ queue = <<>> /\ wire' = <<>> /\ "IDLE" \in status'
  BY <1>1, <1>2, <1>3, WakeFacts DEF TypeOK
<1>5. TypeOK'
  BY <1>1, <1>4 DEF TypeOK, NetStates
<1>6. RepliesReachTheirOwner'
  BY <1>1, <1>4 DEF RepliesReachTheirOwner
<1>7. ConnectionInv' /\ ServingInv'
  BY <1>1, <1>2, <1>4 DEF ConnectionInv, ServingInv
<1> QED
  BY <1>5, <1>6, <1>7

LEMMA FinalizeKeepsPipeline ==
  ASSUME Pipeline, ytdl__dl_finalize PROVE Pipeline'
<1> USE DEF Pipeline
<1>1. /\ cb # "none" /\ cb' = "none" /\ queue' = Tail(queue)
      /\ UNCHANGED <<size, response, player_url, player_js, player_map,
                     shutdown, net, frags, calls, page, completed, fault, uaf>>
  BY DEF ytdl__dl_finalize, Shifted
<1>2. /\ queue # <<>> /\ wire = <<>> /\ fault = "none"
      /\ "CONNECTED" \in status
  BY <1>1 DEF RepliesReachTheirOwner, ServingInv, ConnectionInv
<1>3. /\ queue \in Seq(Calls) /\ Tail(queue) \in Seq(Calls)
      /\ Tail(queue) = <<>> <=> Len(queue) = 1
      /\ Len(queue) \in Nat \ {0}
  BY <1>2, TailFacts DEF TypeOK
<1>4. AnyLeft <=> queue' # <<>>
  BY <1>1, <1>3 DEF AnyLeft
<1>5. /\ status' \subseteq {"CONNECTED", "IDLE"} /\ "CONNECTED" \in status'
      /\ wire' \in Seq(Requests) /\ handler' \in {"watch", "player"}
      /\ \/ /\ queue' # <<>> /\ "IDLE" \notin status'
            /\ wire' # <<>> /\ Len(wire') = 1
            /\ handler' = "watch" /\ Head(wire') = WatchRequest(Head(queue'))
         \/ /\ queue' = <<>> /\ wire' = <<>> /\ "IDLE" \in status'
  <2>1. CASE AnyLeft
    <3>1. ytdl__dl_wake(queue', status \cup {"IDLE"})
      BY <2>1 DEF ytdl__dl_finalize
    <3>2. /\ queue' \in Seq(Calls) /\ queue' # <<>>
          /\ status \cup {"IDLE"} \subseteq {"CONNECTED", "IDLE"}
      BY <1>1, <1>3, <1>4, <2>1 DEF TypeOK
    <3> QED
      BY <1>2, <3>1, <3>2, WakeFacts
  <2>2. CASE ~AnyLeft
    <3>1. status' = status \cup {"IDLE"} /\ UNCHANGED <<handler, wire>>
      BY <2>2 DEF ytdl__dl_finalize
    <3> QED
      BY <1>2, <1>4, <2>2, <3>1 DEF TypeOK
  <2> QED
    BY <2>1, <2>2
<1>6. TypeOK'
  BY <1>1, <1>3, <1>5 DEF TypeOK
<1>7. RepliesReachTheirOwner'
  BY <1>1, <1>5 DEF RepliesReachTheirOwner
<1>8. ConnectionInv' /\ ServingInv'
  BY <1>1, <1>2, <1>5 DEF ConnectionInv, ServingInv
<1> QED
  BY <1>6, <1>7, <1>8

LEMMA WriteDroppedKeepsPipeline ==
  ASSUME Pipeline, WriteDropped PROVE Pipeline'
<1> USE DEF Pipeline
<1>1. /\ net = "up" /\ cb = "none" /\ wire # <<>> /\ wire' = Tail(wire)
      /\ fault' = "request_lost"
      /\ UNCHANGED <<ctxVars, net, frags, calls, page, completed, uaf>>
  BY DEF WriteDropped
<1>2. wire' = <<>> /\ "IDLE" \notin status
  BY <1>1, TailFacts DEF RepliesReachTheirOwner, TypeOK
<1>3. TypeOK'
  BY <1>1, <1>2, EmptySeq DEF TypeOK, ctxVars
<1>4. RepliesReachTheirOwner' /\ ConnectionInv' /\ ServingInv'
  BY <1>1, <1>2 DEF RepliesReachTheirOwner, ConnectionInv, ServingInv, ctxVars
<1> QED
  BY <1>3, <1>4

(* What the guard of a parser callback and the invariant give together.    *)
LEMMA ReceivingFacts ==
  ASSUME Pipeline, NEW h, Receiving(h)
  PROVE  /\ queue # <<>> /\ Head(queue) \in Calls
         /\ wire # <<>> /\ Head(wire) \in Requests /\ Tail(wire) = <<>>
         /\ cb = "none" /\ fault = "none"
         /\ "CONNECTED" \in status /\ "IDLE" \notin status
         /\ handler = h /\ net = "up" /\ uaf' \in BOOLEAN
         /\ h = "watch" => Head(wire) = WatchRequest(Head(queue))
         /\ h = "player" =>
              /\ player_url[Head(queue)] \in Players
              /\ Head(wire) = PlayerRequest(player_url[Head(queue)])
<1>1. /\ net = "up" /\ cb = "none" /\ wire # <<>> /\ queue # <<>>
      /\ handler = h /\ uaf' \in BOOLEAN
  BY DEF Receiving
<1>2. Len(wire) = 1 /\ "IDLE" \notin status
  BY <1>1 DEF Pipeline, RepliesReachTheirOwner
<1>3. Head(queue) \in Calls /\ Head(wire) \in Requests /\ Tail(wire) = <<>>
  BY <1>1, <1>2, TailFacts DEF Pipeline, TypeOK
<1>4. "CONNECTED" \in status /\ fault = "none"
  BY <1>1 DEF Pipeline, ConnectionInv, ServingInv
<1>5. h = "watch" => Head(wire) = WatchRequest(Head(queue))
  BY <1>1 DEF Pipeline, RepliesReachTheirOwner
<1>6. ASSUME h = "player"
      PROVE  /\ player_url[Head(queue)] \in Players
             /\ Head(wire) = PlayerRequest(player_url[Head(queue)])
  BY <1>1, <1>3, <1>6, RequestFacts DEF Pipeline, RepliesReachTheirOwner
<1> QED
  BY <1>1, <1>2, <1>3, <1>4, <1>5, <1>6

LEMMA WatchBodyKeepsPipeline ==
  ASSUME Pipeline, ytdl__watch_body_cb PROVE Pipeline'
<1> USE DEF Pipeline
<1>1. /\ Receiving("watch") /\ frags < MaxFragments /\ frags' = frags + 1
      /\ response' = [response EXCEPT ![Head(queue)] = Append(@, Head(wire))]
      /\ UNCHANGED <<queue, size, status, handler, player_url, player_js,
                     player_map, cb, shutdown, net, wire, calls, page,
                     completed, fault>>
  BY DEF ytdl__watch_body_cb
<1>2. /\ Head(queue) \in Calls /\ Head(wire) \in Requests /\ uaf' \in BOOLEAN
  BY <1>1, ReceivingFacts
<1>3. response' \in [Calls -> Seq(Requests)]
  BY <1>1, <1>2, AppendFacts DEF TypeOK
<1>4. frags' \in 0..MaxFragments
  BY <1>1, InfoQueueAssumption DEF TypeOK
<1>5. TypeOK'
  BY <1>1, <1>2, <1>3, <1>4 DEF TypeOK
<1>6. RepliesReachTheirOwner' /\ ConnectionInv' /\ ServingInv'
  BY <1>1 DEF RepliesReachTheirOwner, ConnectionInv, ServingInv
<1> QED
  BY <1>5, <1>6

LEMMA PlayerBodyKeepsPipeline ==
  ASSUME Pipeline, yt__player_body_cb PROVE Pipeline'
<1> USE DEF Pipeline
<1>1. /\ Receiving("player") /\ frags < MaxFragments /\ frags' = frags + 1
      /\ player_js' = Append(player_js, Head(wire))
      /\ UNCHANGED <<queue, size, status, handler, response, player_url,
                     player_map, cb, shutdown, net, wire, calls, page,
                     completed, fault>>
  BY DEF yt__player_body_cb
<1>2. Head(wire) \in Requests /\ uaf' \in BOOLEAN
  BY <1>1, ReceivingFacts
<1>3. player_js' \in Seq(Requests)
  BY <1>1, <1>2, AppendFacts DEF TypeOK
<1>4. frags' \in 0..MaxFragments
  BY <1>1, InfoQueueAssumption DEF TypeOK
<1>5. TypeOK'
  BY <1>1, <1>2, <1>3, <1>4 DEF TypeOK
<1>6. RepliesReachTheirOwner' /\ ConnectionInv' /\ ServingInv'
  BY <1>1 DEF RepliesReachTheirOwner, ConnectionInv, ServingInv
<1> QED
  BY <1>5, <1>6

(* A completion is recorded with the player and what it was read from.     *)
LEMMA OnCompleteFacts ==
  ASSUME TypeOK, NEW vid \in Calls, NEW path \in Players, NEW map,
         map[path] \in Seq(Requests), OnComplete(vid, path, map)
  PROVE  /\ cb' = path /\ cb' \in Players /\ cb' # "none"
         /\ completed' \in Seq([job : Calls, player : Players,
                                source : Seq(Requests)])
<1> DEFINE Entry == [job |-> vid, player |-> path, source |-> map[path]]
<1>1. Entry \in [job : Calls, player : Players, source : Seq(Requests)]
  OBVIOUS
<1>2. completed' = Append(completed, Entry) /\ cb' = path
  BY DEF OnComplete
<1> HIDE DEF Entry
<1>3. completed' \in Seq([job : Calls, player : Players,
                         source : Seq(Requests)])
  BY <1>1, <1>2, AppendFacts DEF TypeOK
<1> QED
  BY <1>2, <1>3, PlayerNames

LEMMA WatchCompleteKeepsPipeline ==
  ASSUME Pipeline, ytdl__watch_html_complete PROVE Pipeline'
<1> USE DEF Pipeline
<1> DEFINE vid == Head(queue)
           path == ytdl_info_extract_watch_html(response[vid])
<1>1. /\ Receiving("watch") /\ frags' = 0
      /\ UNCHANGED <<queue, size, status, response, player_js, player_map,
                     shutdown, net, calls, page>>
  BY DEF ytdl__watch_html_complete
<1>2. /\ queue # <<>> /\ vid \in Calls /\ Tail(wire) = <<>>
      /\ cb = "none" /\ fault = "none" /\ uaf' \in BOOLEAN
      /\ "CONNECTED" \in status /\ "IDLE" \notin status
  BY <1>1, ReceivingFacts
<1>3. frags' \in 0..MaxFragments
  BY <1>1, InfoQueueAssumption
<1>4. CASE /\ path \in BadPages /\ wire' = Tail(wire) /\ fault' = path
           /\ UNCHANGED <<handler, player_url, cb, completed>>
  <2>1. wire' = <<>> /\ fault' \in BadPages /\ fault' # "none"
    BY <1>2, <1>4 DEF BadPages
  <2>2. TypeOK'
    BY <1>1, <1>2, <1>3, <1>4, <2>1, EmptySeq DEF TypeOK
  <2>3. RepliesReachTheirOwner' /\ ConnectionInv' /\ ServingInv'
    BY <1>1, <1>2, <1>4, <2>1
    DEF RepliesReachTheirOwner, ConnectionInv, ServingInv
  <2> QED
    BY <2>2, <2>3
<1>5. CASE /\ path \in DOMAIN player_map /\ wire' = Tail(wire)
           /\ player_url' = [player_url EXCEPT ![vid] = path]
           /\ OnComplete(vid, path, player_map)
           /\ UNCHANGED <<handler, fault>>
  <2>1. path \in Players /\ player_map[path] \in Seq(Requests)
    BY <1>5 DEF TypeOK
  <2>2. /\ cb' \in Players /\ cb' # "none"
        /\ completed' \in Seq([job : Calls, player : Players,
                               source : Seq(Requests)])
    BY <1>2, <1>5, <2>1, OnCompleteFacts
  <2>3. player_url' \in [Calls -> Players \cup {NoPlayer}]
    BY <1>5, <2>1 DEF TypeOK
  <2>4. TypeOK'
    BY <1>1, <1>2, <1>3, <1>5, <2>2, <2>3, EmptySeq DEF TypeOK
  <2>5. RepliesReachTheirOwner' /\ ConnectionInv' /\ ServingInv'
    BY <1>1, <1>2, <1>5, <2>2
    DEF RepliesReachTheirOwner, ConnectionInv, ServingInv
  <2> QED
    BY <2>4, <2>5
<1>6. CASE /\ path \in Players \ DOMAIN player_map /\ handler' = "player"
           /\ wire' = Append(Tail(wire), PlayerRequest(path))
           /\ player_url' = [player_url EXCEPT ![vid] = path]
           /\ UNCHANGED <<cb, completed, fault>>
  <2>1. PlayerRequest(path) \in Requests
    BY <1>6, RequestFacts
  <2>2. /\ wire' \in Seq(Requests) /\ wire' # <<>> /\ Len(wire') = 1
        /\ Head(wire') = PlayerRequest(path)
    <3>1. wire' = Append(<<>>, PlayerRequest(path))
      BY <1>2, <1>6
    <3>2. <<>> \in Seq(Requests) /\ Len(<<>>) = 0
      BY EmptySeq
    <3> HIDE DEF path
    <3> QED
      BY <2>1, <3>1, <3>2, AppendFacts
  <2>3. /\ player_url' \in [Calls -> Players \cup {NoPlayer}]
        /\ player_url'[vid] = path
    BY <1>2, <1>6 DEF TypeOK
  <2>4. TypeOK'
    BY <1>1, <1>2, <1>3, <1>6, <2>2, <2>3 DEF TypeOK
  <2>5. RepliesReachTheirOwner'
    BY <1>1, <1>2, <1>6, <2>2, <2>3 DEF RepliesReachTheirOwner
  <2>6. ConnectionInv' /\ ServingInv'
    BY <1>1, <1>2, <1>6, <2>2 DEF ConnectionInv, ServingInv
  <2> QED
    BY <2>4, <2>5, <2>6
<1> QED
  BY <1>4, <1>5, <1>6 DEF ytdl__watch_html_complete

LEMMA PlayerCompleteKeepsPipeline ==
  ASSUME Pipeline, ytdl__player_js_complete PROVE Pipeline'
<1> USE DEF Pipeline
<1> DEFINE vid == Head(queue)
           path == player_url[vid]
<1>1. /\ Receiving("player") /\ frags' = 0 /\ wire' = Tail(wire)
      /\ UNCHANGED <<queue, size, status, handler, response, player_url,
                     shutdown, net, calls, page>>
  BY DEF ytdl__player_js_complete
<1>2. /\ queue # <<>> /\ vid \in Calls /\ path \in Players
      /\ wire' = <<>> /\ cb = "none" /\ fault = "none" /\ uaf' \in BOOLEAN
      /\ "CONNECTED" \in status /\ "IDLE" \notin status
  BY <1>1, ReceivingFacts
<1>3. frags' \in 0..MaxFragments
  BY <1>1, InfoQueueAssumption
<1>4. CASE /\ fault' = "sig_extract"
           /\ UNCHANGED <<player_js, player_map, cb, completed>>
  <2>1. TypeOK'
    BY <1>1, <1>2, <1>3, <1>4, EmptySeq DEF TypeOK
  <2>2. RepliesReachTheirOwner' /\ ConnectionInv' /\ ServingInv'
    BY <1>1, <1>2, <1>4
    DEF RepliesReachTheirOwner, ConnectionInv, ServingInv
  <2> QED
    BY <2>1, <2>2
<1>5. CASE /\ player_js # <<>>
           /\ player_map' = WithPlayer(player_map, path, player_js)
           /\ player_js' = Rewound
           /\ OnComplete(vid, path, player_map')
           /\ UNCHANGED fault
  <2>1. /\ DOMAIN player_map' = DOMAIN player_map \cup {path}
        /\ \A p \in DOMAIN player_map' :
             player_map'[p] = IF p = path THEN player_js ELSE player_map[p]
    BY <1>5 DEF WithPlayer
  <2>2. player_map' = [p \in DOMAIN player_map \cup {path} |->
                         IF p = path THEN player_js ELSE player_map[p]]
    BY <1>5 DEF WithPlayer
  <2>3. \A p \in DOMAIN player_map : player_map[p] \in Seq(Requests)
    BY DEF TypeOK
  <2>4. /\ DOMAIN player_map' \subseteq Players
        /\ player_map' \in [DOMAIN player_map' -> Seq(Requests)]
        /\ player_map'[path] \in Seq(Requests)
    BY <1>2, <2>1, <2>2, <2>3 DEF TypeOK
  <2>5. /\ cb' \in Players /\ cb' # "none"
        /\ completed' \in Seq([job : Calls, player : Players,
                               source : Seq(Requests)])
    BY <1>2, <1>5, <2>4, OnCompleteFacts
  <2>6. TypeOK'
    BY <1>1, <1>2, <1>3, <1>5, <2>4, <2>5, EmptySeq DEF TypeOK, Rewound
  <2>7. RepliesReachTheirOwner' /\ ConnectionInv' /\ ServingInv'
    BY <1>1, <1>2, <1>5, <2>5
    DEF RepliesReachTheirOwner, ConnectionInv, ServingInv
  <2> QED
    BY <2>6, <2>7
<1> QED
  BY <1>4, <1>5 DEF ytdl__player_js_complete

(* The actions that leave the queue and the request in flight alone.       *)
LEMMA OthersKeepPipeline ==
  ASSUME Pipeline,
         \/ ytdl_dl_ctx_connect \/ ytdl__status_cb \/ ytdl_dl_shutdown
         \/ ytdl__dl_shutdown \/ ytdl__close_cb \/ UNCHANGED vars
  PROVE  Pipeline'
<1> USE DEF Pipeline
<1>1. /\ UNCHANGED <<queue, size, status, handler, response, player_url,
                     player_js, player_map, cb, wire, frags, calls, page,
                     completed, fault, uaf>>
      /\ shutdown' \in {"no", "requested", "freed"} /\ net' \in NetStates
      /\ net' \in {"new", "connecting", "failed"} <=>
           net \in {"new", "connecting", "failed"}
  <2>1. CASE ytdl_dl_ctx_connect
    BY <2>1 DEF ytdl_dl_ctx_connect, ctxVars, TypeOK, NetStates
  <2>2. CASE ytdl__status_cb
    BY <2>2 DEF ytdl__status_cb, ctxVars, TypeOK, NetStates
  <2>3. CASE ytdl_dl_shutdown
    BY <2>3 DEF ytdl_dl_shutdown, netVars, TypeOK
  <2>4. CASE ytdl__dl_shutdown
    BY <2>4 DEF ytdl__dl_shutdown, HasConnection, ConnectionInv, TypeOK,
                NetStates
  <2>5. CASE ytdl__close_cb
    BY <2>5 DEF ytdl__close_cb, ctxVars, TypeOK, NetStates
  <2>6. CASE UNCHANGED vars
    BY <2>6 DEF vars, ctxVars, netVars, TypeOK
  <2> QED
    BY <2>1, <2>2, <2>3, <2>4, <2>5, <2>6
<1>2. TypeOK'
  BY <1>1 DEF TypeOK
<1>3. RepliesReachTheirOwner' /\ ConnectionInv' /\ ServingInv'
  BY <1>1 DEF RepliesReachTheirOwner, ConnectionInv, ServingInv
<1> QED
  BY <1>2, <1>3

LEMMA PipelineStep == Pipeline /\ [Next]_vars => Pipeline'
<1> SUFFICES ASSUME Pipeline, [Next]_vars PROVE Pipeline'
  OBVIOUS
<1> QED
  BY GetInfoKeepsPipeline, ConnectedKeepsPipeline, WriteDroppedKeepsPipeline,
     WatchBodyKeepsPipeline, PlayerBodyKeepsPipeline,
     WatchCompleteKeepsPipeline, PlayerCompleteKeepsPipeline,
     FinalizeKeepsPipeline, OthersKeepPipeline
  DEF Next

LEMMA PipelineInvariant == Spec => []Pipeline
BY PipelineInit, PipelineStep, PTL DEF Spec

(* Every variable of the context stays in its domain.                      *)
THEOREM TypeCorrect == Spec => []TypeOK
BY PipelineInvariant, PTL DEF Pipeline

(* At most one request is in flight, and it is the one that videos[0] and  *)
(* the installed handler stand for: a response is never credited to a      *)
(* video that did not ask for it, however ytdl_dl_get_info is called.      *)
THEOREM RepliesAreOwned == Spec => []RepliesReachTheirOwner
BY PipelineInvariant, PTL DEF Pipeline

(* ytdl__dl_wake is called wherever it has to be: the idle flag is never   *)
(* cleared with nothing in flight, nor left set with a video waiting.      *)
THEOREM NoWakeupIsLost == Spec => []NoLostWakeup
<1>1. Pipeline => NoLostWakeup
  BY DEF Pipeline, ServingInv, NoLostWakeup
<1> QED
  BY <1>1, PipelineInvariant, PTL

-----------------------------------------------------------------------------
(* The buffers.  The shared player buffer holds pieces of the file that is *)
(* being received and is empty between two files, except once the queue    *)
(* has been given up.                                                      *)

BufferInv ==
  /\ BuffersUnmixed
  /\ \/ player_js = <<>> \/ fault # "none"
     \/ /\ wire # <<>> /\ handler = "player"
        /\ Pieces(player_js) \subseteq {Head(wire)}

LEMMA BufferInit == Init => BufferInv
<1> SUFFICES ASSUME Init PROVE BufferInv
  OBVIOUS
<1>1. PICK cached \in SUBSET Players :
        player_map = [p \in cached |-> <<PlayerRequest(p)>>]
  BY DEF Init
<1>2. \A v \in Calls : Pieces(response[v]) = {}
  BY DEF Init, Pieces
<1>3. ASSUME NEW p \in DOMAIN player_map
      PROVE  Pieces(player_map[p]) = {PlayerRequest(p)}
  BY <1>1 DEF Pieces
<1> QED
  BY <1>2, <1>3 DEF BufferInv, BuffersUnmixed, Init

LEMMA BufferStep ==
  Pipeline /\ Pipeline' /\ BufferInv /\ [Next]_vars => BufferInv'
<1> SUFFICES ASSUME Pipeline, Pipeline', BufferInv, [Next]_vars
             PROVE  BufferInv'
  OBVIOUS
<1>1. ASSUME UNCHANGED <<response, player_js, player_map, fault>>,
             player_js = <<>> \/ fault # "none"
                \/ UNCHANGED <<wire, handler>>
      PROVE  BufferInv'
  BY <1>1 DEF BufferInv, BuffersUnmixed
<1>2. CASE ytdl_dl_get_info
  <2>1. wire = <<>> \/ UNCHANGED <<wire, handler>>
    BY <1>2 DEF ytdl_dl_get_info, ytdl__dl_wake, Pipeline,
                RepliesReachTheirOwner
  <2> QED
    BY <1>1, <1>2, <2>1 DEF ytdl_dl_get_info, BufferInv
<1>3. CASE ytdl__connected_cb
  <2>1. wire = <<>>
    BY <1>3 DEF ytdl__connected_cb, Pipeline, ConnectionInv
  <2> QED
    BY <1>1, <1>3, <2>1 DEF ytdl__connected_cb, BufferInv
<1>4. CASE ytdl__dl_finalize
  <2>1. wire = <<>>
    BY <1>4 DEF ytdl__dl_finalize, Pipeline, RepliesReachTheirOwner
  <2> QED
    BY <1>1, <1>4, <2>1 DEF ytdl__dl_finalize, BufferInv
<1>5. CASE WriteDropped
  BY <1>5 DEF WriteDropped, ctxVars, BufferInv, BuffersUnmixed
<1>6. CASE ytdl__watch_body_cb
  <2>1. /\ Head(queue) \in Calls /\ Head(wire) \in Requests
        /\ Head(wire) = WatchRequest(Head(queue))
    BY <1>6, ReceivingFacts DEF ytdl__watch_body_cb
  <2>2. /\ response \in [Calls -> Seq(Requests)]
        /\ response' = [response EXCEPT ![Head(queue)] =
                          Append(@, Head(wire))]
    BY <1>6 DEF ytdl__watch_body_cb, Pipeline, TypeOK
  <2>3. ASSUME NEW v \in Calls
        PROVE  Pieces(response'[v]) \subseteq {WatchRequest(v)}
    <3>1. Pieces(response[v]) \subseteq {WatchRequest(v)}
      BY DEF BufferInv, BuffersUnmixed
    <3>2. CASE v = Head(queue)
      <4>1. response'[v] = Append(response[v], Head(wire))
        BY <2>1, <2>2, <3>2
      <4>2. Pieces(response'[v]) = Pieces(response[v]) \cup {Head(wire)}
        BY <2>1, <2>2, <4>1, PiecesFacts
      <4> QED
        BY <2>1, <3>1, <3>2, <4>2
    <3>3. CASE v # Head(queue)
      BY <2>1, <2>2, <3>1, <3>3
    <3> QED
      BY <3>2, <3>3
  <2>4. UNCHANGED <<player_js, player_map, wire, handler, fault>>
    BY <1>6 DEF ytdl__watch_body_cb
  <2> QED
    BY <2>3, <2>4 DEF BufferInv, BuffersUnmixed
<1>7. CASE yt__player_body_cb
  <2>1. /\ wire # <<>> /\ Head(wire) \in Requests /\ handler = "player"
        /\ fault = "none"
    BY <1>7, ReceivingFacts DEF yt__player_body_cb
  <2>2. /\ player_js \in Seq(Requests)
        /\ player_js' = Append(player_js, Head(wire))
        /\ UNCHANGED <<response, player_map, wire, handler, fault>>
    BY <1>7 DEF yt__player_body_cb, Pipeline, TypeOK
  <2>3. Pieces(player_js) \subseteq {Head(wire)}
    <3>1. player_js = <<>> => Pieces(player_js) = {}
      BY DEF Pieces
    <3> QED
      BY <2>1, <3>1 DEF BufferInv
  <2>4. Pieces(player_js') \subseteq {Head(wire)}
    BY <2>1, <2>2, <2>3, PiecesFacts
  <2> QED
    BY <2>1, <2>2, <2>4 DEF BufferInv, BuffersUnmixed
<1>8. CASE ytdl__watch_html_complete
  <2>1. handler = "watch" /\ fault = "none"
    BY <1>8, ReceivingFacts DEF ytdl__watch_html_complete
  <2>2. player_js = <<>>
    BY <2>1 DEF BufferInv
  <2> QED
    BY <1>8, <2>2 DEF ytdl__watch_html_complete, BufferInv, BuffersUnmixed
<1>9. CASE ytdl__player_js_complete
  <2> DEFINE path == player_url[Head(queue)]
  <2>1. /\ Head(wire) = PlayerRequest(path) /\ fault = "none"
        /\ player_js \in Seq(Requests) /\ UNCHANGED response
    BY <1>9, ReceivingFacts DEF ytdl__player_js_complete, Pipeline, TypeOK
  <2>2. CASE fault' = "sig_extract" /\ UNCHANGED <<player_js, player_map>>
    BY <2>1, <2>2 DEF BufferInv, BuffersUnmixed
  <2>3. CASE /\ player_js # <<>> /\ player_js' = Rewound
             /\ player_map' = WithPlayer(player_map, path, player_js)
    <3>1. Pieces(player_js) = {PlayerRequest(path)}
      BY <2>1, <2>3, PiecesFacts DEF BufferInv
    <3>2. ASSUME NEW p \in DOMAIN player_map'
          PROVE  Pieces(player_map'[p]) = {PlayerRequest(p)}
      <4>1. p \in DOMAIN player_map \cup {path}
        BY <2>3 DEF WithPlayer
      <4>2. player_map'[p] = IF p = path THEN player_js ELSE player_map[p]
        BY <2>3, <4>1 DEF WithPlayer
      <4>3. CASE p = path
        BY <3>1, <4>2, <4>3
      <4>4. CASE p # path
        BY <4>1, <4>2, <4>4 DEF BufferInv, BuffersUnmixed
      <4> QED
        BY <4>3, <4>4
    <3> QED
      BY <2>1, <2>3, <3>2 DEF BufferInv, BuffersUnmixed, Rewound
  <2> QED
    BY <1>9, <2>2, <2>3 DEF ytdl__player_js_complete
<1>10. CASE \/ ytdl_dl_ctx_connect \/ ytdl__status_cb \/ ytdl_dl_shutdown
            \/ ytdl__dl_shutdown \/ ytdl__close_cb \/ UNCHANGED vars
  BY <1>1, <1>10 DEF ytdl_dl_ctx_connect, ytdl__status_cb, ytdl_dl_shutdown,
     ytdl__dl_shutdown, ytdl__close_cb, vars, ctxVars, netVars
<1> QED
  BY <1>2, <1>3, <1>4, <1>5, <1>6, <1>7, <1>8, <1>9, <1>10 DEF Next

LEMMA BufferInvariant == Spec => []BufferInv
BY PipelineInvariant, BufferInit, BufferStep, PTL DEF Spec

(* No response is mixed into another's buffer: a watch page is read from   *)
(* its own bytes, and the signature actions of every player come from that *)
(* player's own file although all files go through ctx->player_js.         *)
THEOREM BuffersStayUnmixed == Spec => []BuffersUnmixed
BY BufferInvariant, PTL DEF BufferInv

-----------------------------------------------------------------------------
(* The teardown, for a caller that shuts down only once it is connected.   *)

TeardownInv ==
  /\ shutdown # "no" => "CONNECTED" \in status
  /\ shutdown = "freed" => net \in {"closing", "closed"}
  /\ ~uaf

LEMMA TeardownStep ==
  ~EarlyShutdown => (Pipeline /\ TeardownInv /\ [Next]_vars => TeardownInv')
<1> SUFFICES ASSUME ~EarlyShutdown, Pipeline, TeardownInv, [Next]_vars
             PROVE  TeardownInv'
  OBVIOUS
<1>1. ASSUME NEW h, Receiving(h) PROVE ~uaf'
  BY <1>1 DEF Receiving, TeardownInv
<1>2. CASE ytdl_dl_get_info
  BY <1>2 DEF ytdl_dl_get_info, ytdl__dl_wake, TeardownInv
<1>3. CASE ytdl__connected_cb
  BY <1>3 DEF ytdl__connected_cb, Pipeline, ConnectionInv, TeardownInv
<1>4. CASE ytdl__dl_finalize
  BY <1>4 DEF ytdl__dl_finalize, ytdl__dl_wake, TeardownInv
<1>5. CASE \/ ytdl__watch_body_cb \/ yt__player_body_cb
           \/ ytdl__watch_html_complete \/ ytdl__player_js_complete
  BY <1>1, <1>5 DEF ytdl__watch_body_cb, yt__player_body_cb,
     ytdl__watch_html_complete, ytdl__player_js_complete, TeardownInv
<1>6. CASE ytdl_dl_ctx_connect \/ ytdl__status_cb \/ WriteDropped
  BY <1>6 DEF ytdl_dl_ctx_connect, ytdl__status_cb, WriteDropped, ctxVars,
              TeardownInv
<1>7. CASE ytdl_dl_shutdown
  BY <1>7 DEF ytdl_dl_shutdown, netVars, TeardownInv
<1>8. CASE ytdl__dl_shutdown
  BY <1>8 DEF ytdl__dl_shutdown, HasConnection, TeardownInv
<1>9. CASE ytdl__close_cb \/ UNCHANGED vars
  BY <1>9 DEF ytdl__close_cb, vars, ctxVars, netVars, TeardownInv
<1> QED
  BY <1>2, <1>3, <1>4, <1>5, <1>6, <1>7, <1>8, <1>9 DEF Next

LEMMA TeardownInvariant == ~EarlyShutdown => (Spec => []TeardownInv)
<1>1. Init => TeardownInv
  BY DEF Init, TeardownInv
<1>2. ASSUME ~EarlyShutdown PROVE Spec => []TeardownInv
  BY <1>1, <1>2, TeardownStep, PipelineInvariant, PTL DEF Spec
<1> QED
  BY <1>2

(* A context that is only shut down once it is connected is not used by    *)
(* any callback after ytdl__dl_shutdown has freed it.                      *)
THEOREM FreedMemoryIsUnused == ~EarlyShutdown => (Spec => []NoUseAfterFree)
<1>1. TeardownInv => NoUseAfterFree
  BY DEF TeardownInv, NoUseAfterFree
<1>2. ASSUME ~EarlyShutdown PROVE Spec => []NoUseAfterFree
  BY <1>1, <1>2, TeardownInvariant, PTL
<1> QED
  BY <1>2

-----------------------------------------------------------------------------
(* The order of completions.  The queue holds the last calls, oldest       *)
(* first; the video being completed is still at its head.                  *)

OrderInv ==
  /\ Len(queue) <= calls
  /\ \A i \in 1..Len(queue) : queue[i] = calls - Len(queue) + i
  /\ Len(completed) + Len(queue) = IF cb = "none" THEN calls ELSE calls + 1
  /\ (wire # <<>> /\ handler = "player") =>
       player_url[Head(queue)] = page[Head(queue)]

(* A page read off a buffer that holds pieces of v's page only is v's.     *)
LEMMA ExtractFacts ==
  ASSUME NEW v \in Calls, NEW content,
         Pieces(content) \subseteq {WatchRequest(v)},
         ytdl_info_extract_watch_html(content) \in Players
  PROVE  ytdl_info_extract_watch_html(content) = page[v]
<1>1. ytdl_info_extract_watch_html(content) # "extract_error"
  BY PlayerNames
<1>2. PICK u \in Calls : Pieces(content) = {WatchRequest(u)}
  BY <1>1 DEF ytdl_info_extract_watch_html
<1>3. \A u1, u2 \in Calls : WatchRequest(u1) = WatchRequest(u2) => u1 = u2
  BY DEF WatchRequest
<1>4. u = v
  BY <1>2, <1>3
<1>5. (CHOOSE w \in Calls : Pieces(content) = {WatchRequest(w)}) = v
  BY <1>2, <1>3, <1>4
<1> QED
  BY <1>2, <1>5 DEF ytdl_info_extract_watch_html

LEMMA SigOwnerFacts ==
  ASSUME NEW p \in Players, NEW content, Pieces(content) = {PlayerRequest(p)}
  PROVE  SigOwner(content) = p
<1>1. \A q1, q2 \in Players : PlayerRequest(q1) = PlayerRequest(q2) => q1 = q2
  BY DEF PlayerRequest
<1>2. (CHOOSE q \in Players : Pieces(content) = {PlayerRequest(q)}) = p
  BY <1>1
<1> QED
  BY <1>2 DEF SigOwner

(* A response that is credited to the head of the queue is its own.        *)
LEMMA PageOfHead ==
  ASSUME Pipeline, BufferInv, queue # <<>>, Head(queue) \in Calls,
         ytdl_info_extract_watch_html(response[Head(queue)]) \in Players
  PROVE  ytdl_info_extract_watch_html(response[Head(queue)])
           = page[Head(queue)]
<1>1. Pieces(response[Head(queue)]) \subseteq {WatchRequest(Head(queue))}
  BY DEF BufferInv, BuffersUnmixed
<1> QED
  BY <1>1, ExtractFacts

(* on_complete is called for the next call in order, with the player its   *)
(* own page names and that player's own signature actions.                 *)
LEMMA CompletionFacts ==
  ASSUME Pipeline, BufferInv, BufferInv', OrderInv,
         ytdl__watch_html_complete \/ ytdl__player_js_complete,
         cb' # cb \/ completed' # completed
  PROVE  /\ cb = "none" /\ cb' # "none" /\ net = "up" /\ wire' = <<>>
         /\ UNCHANGED <<queue, calls, page, shutdown>>
         /\ Len(completed) + 1 \in 1..calls
         /\ \E source \in Seq(Requests) :
              /\ completed' = Append(completed,
                    [job |-> Len(completed) + 1,
                     player |-> page[Len(completed) + 1],
                     source |-> source])
              /\ page[Len(completed) + 1] \in Players
              /\ SigOwner(source) = page[Len(completed) + 1]
<1> DEFINE vid == Head(queue)
<1>1. PICK h : Receiving(h) /\ UNCHANGED <<queue, calls, page, shutdown>>
  BY DEF ytdl__watch_html_complete, ytdl__player_js_complete
<1>2. /\ queue # <<>> /\ vid \in Calls /\ cb = "none" /\ net = "up"
      /\ wire # <<>> /\ Tail(wire) = <<>>
  BY <1>1, ReceivingFacts
<1>3. vid = Len(completed) + 1 /\ vid \in 1..calls
  <2>1. vid = queue[1] /\ Len(queue) \in Nat \ {0} /\ Len(completed) \in Nat
    BY <1>2, TailFacts, LenProperties DEF Pipeline, TypeOK
  <2>2. vid = calls - Len(queue) + 1 /\ Len(completed) + Len(queue) = calls
    <3>1. 1 \in 1..Len(queue) /\ cb = "none"
      BY <1>2, <2>1
    <3> QED
      BY <2>1, <3>1 DEF OrderInv
  <2>3. calls \in Nat
    BY DEF Pipeline, TypeOK
  <2> QED
    BY <2>1, <2>2, <2>3
<1>4. CASE ytdl__watch_html_complete
  <2> DEFINE path == ytdl_info_extract_watch_html(response[vid])
  <2>1. /\ path \in DOMAIN player_map /\ wire' = Tail(wire)
        /\ OnComplete(vid, path, player_map)
    BY <1>4 DEF ytdl__watch_html_complete
  <2>2. path \in Players /\ player_map[path] \in Seq(Requests)
    BY <2>1 DEF Pipeline, TypeOK
  <2>3. path = page[vid]
    BY <1>2, <2>2, PageOfHead
  <2>4. SigOwner(player_map[path]) = path
    BY <2>1, <2>2, SigOwnerFacts DEF BufferInv, BuffersUnmixed
  <2> QED
    BY <1>1, <1>2, <1>3, <2>1, <2>2, <2>3, <2>4, PlayerNames DEF OnComplete
<1>5. CASE ytdl__player_js_complete
  <2> DEFINE path == player_url[vid]
  <2>1. /\ Receiving("player") /\ wire' = Tail(wire) /\ player_js # <<>>
        /\ player_map' = WithPlayer(player_map, path, player_js)
        /\ OnComplete(vid, path, player_map')
    BY <1>5 DEF ytdl__player_js_complete
  <2>2. path \in Players /\ handler = "player"
    BY <2>1, ReceivingFacts
  <2>3. path = page[vid]
    BY <1>2, <2>2 DEF OrderInv
  <2>4. /\ path \in DOMAIN player_map' /\ player_map'[path] = player_js
        /\ player_js \in Seq(Requests)
    BY <2>1 DEF WithPlayer, Pipeline, TypeOK
  <2>5. Pieces(player_map'[path]) = {PlayerRequest(path)}
    BY <2>4 DEF BufferInv, BuffersUnmixed
  <2>6. SigOwner(player_map'[path]) = path
    BY <2>2, <2>5, SigOwnerFacts
  <2> QED
    BY <1>1, <1>2, <1>3, <2>1, <2>2, <2>3, <2>4, <2>6, PlayerNames
    DEF OnComplete
<1> QED
  BY <1>4, <1>5

LEMMA OrderStep ==
  Pipeline /\ Pipeline' /\ BufferInv /\ BufferInv' /\ OrderInv /\ [Next]_vars
    => OrderInv'
<1> SUFFICES ASSUME Pipeline, Pipeline', BufferInv, BufferInv', OrderInv,
                    [Next]_vars
             PROVE  OrderInv'
  OBVIOUS
<1> USE DEF Pipeline
<1>1. CASE ytdl_dl_get_info
  <2>1. /\ queue' = Append(queue, calls + 1) /\ calls' = calls + 1
        /\ queue \in Seq(Calls) /\ calls + 1 \in Calls /\ calls \in Nat
        /\ UNCHANGED <<completed, cb, player_url, page>>
    BY <1>1, InfoQueueAssumption DEF ytdl_dl_get_info, NewVideo, TypeOK, Calls
  <2>2. /\ Len(queue') = Len(queue) + 1 /\ queue'[Len(queue) + 1] = calls + 1
        /\ \A i \in 1..Len(queue) : queue'[i] = queue[i]
        /\ Head(queue') = IF queue = <<>> THEN calls + 1 ELSE Head(queue)
        /\ Len(queue) \in Nat /\ Len(completed) \in Nat
    BY <2>1, AppendFacts, LenProperties DEF TypeOK
  <2>3. \A i \in 1..Len(queue') : queue'[i] = calls' - Len(queue') + i
    BY <2>1, <2>2 DEF OrderInv
  <2>4. UNCHANGED <<wire, handler>> \/ handler' = "watch"
    BY <1>1 DEF ytdl_dl_get_info, ytdl__dl_wake
  <2>5. (wire' # <<>> /\ handler' = "player") =>
          player_url'[Head(queue')] = page'[Head(queue')]
    BY <2>1, <2>2, <2>4 DEF OrderInv, RepliesReachTheirOwner
  <2>6. Len(queue') <= calls'
    BY <2>1, <2>2 DEF OrderInv
  <2>7. Len(completed') + Len(queue') = IF cb' = "none" THEN calls' ELSE calls' + 1
    BY <2>1, <2>2 DEF OrderInv
  <2> QED
    BY <2>3, <2>5, <2>6, <2>7 DEF OrderInv
<1>2. CASE ytdl__dl_finalize
  <2>1. /\ queue' = Tail(queue) /\ cb # "none" /\ cb' = "none" /\ queue # <<>>
        /\ wire = <<>> /\ calls \in Nat
        /\ UNCHANGED <<calls, completed, player_url, page>>
    BY <1>2, InfoQueueAssumption DEF ytdl__dl_finalize, Shifted, ServingInv,
                     RepliesReachTheirOwner, TypeOK
  <2>2. /\ Len(queue') = Len(queue) - 1 /\ Len(queue) \in Nat \ {0}
        /\ \A i \in 1..Len(queue') : queue'[i] = queue[i + 1]
        /\ Len(completed) \in Nat
    BY <2>1, TailFacts, LenProperties DEF TypeOK
  <2>3. wire' = <<>> \/ handler' = "watch"
    BY <1>2, <2>1 DEF ytdl__dl_finalize, ytdl__dl_wake
  <2>4. \A i \in 1..Len(queue') : queue'[i] = calls' - Len(queue') + i
    BY <2>1, <2>2 DEF OrderInv
  <2> QED
    BY <2>1, <2>2, <2>3, <2>4 DEF OrderInv
<1>3. CASE /\ ytdl__watch_html_complete \/ ytdl__player_js_complete
           /\ cb' # cb \/ completed' # completed
  <2>1. /\ cb = "none" /\ cb' # "none" /\ wire' = <<>>
        /\ UNCHANGED <<queue, calls>>
    BY <1>3, CompletionFacts
  <2>2. completed' \in Seq([job : Calls, player : Players,
                           source : Seq(Requests)])
        /\ completed \in Seq([job : Calls, player : Players,
                           source : Seq(Requests)])
    BY DEF TypeOK
  <2>3. Len(completed') = Len(completed) + 1 /\ Len(completed) \in Nat
    <3>1. PICK e : completed' = Append(completed, e)
      BY <1>3, CompletionFacts
    <3> QED
      BY <2>2, <3>1
  <2>4. Len(queue) \in Nat /\ calls \in Nat
    BY LenProperties, InfoQueueAssumption DEF TypeOK
  <2>5. Len(completed) + Len(queue) = calls
    BY <2>1 DEF OrderInv
  <2>6. Len(completed') + Len(queue') =
          IF cb' = "none" THEN calls' ELSE calls' + 1
    BY <2>1, <2>3, <2>4, <2>5
  <2>7. /\ Len(queue') <= calls'
        /\ \A i \in 1..Len(queue') : queue'[i] = calls' - Len(queue') + i
    BY <2>1 DEF OrderInv
  <2> QED
    BY <2>1, <2>6, <2>7 DEF OrderInv
<1>4. CASE /\ ytdl__watch_html_complete
           /\ UNCHANGED <<cb, completed>>
  <2> DEFINE vid == Head(queue)
             path == ytdl_info_extract_watch_html(response[vid])
  <2>1. /\ queue # <<>> /\ vid \in Calls /\ Tail(wire) = <<>>
        /\ handler = "watch" /\ UNCHANGED <<queue, calls, page>>
    BY <1>4, ReceivingFacts DEF ytdl__watch_html_complete
  <2>2. \/ wire' = Tail(wire)
        \/ /\ path \in Players
           /\ player_url' = [player_url EXCEPT ![vid] = path]
    BY <1>4 DEF ytdl__watch_html_complete
  <2>3. wire' # <<>> => player_url'[Head(queue')] = page'[Head(queue')]
    BY <2>1, <2>2, PageOfHead DEF TypeOK
  <2> QED
    BY <1>4, <2>1, <2>3 DEF OrderInv
<1>5. CASE /\ ytdl__player_js_complete
           /\ UNCHANGED <<cb, completed>>
  <2>1. wire' = <<>> /\ UNCHANGED <<queue, calls, page, player_url>>
    BY <1>5, ReceivingFacts DEF ytdl__player_js_complete
  <2> QED
    BY <1>5, <2>1 DEF OrderInv
<1>6. CASE WriteDropped
  <2>1. wire' = <<>> /\ UNCHANGED <<queue, calls, cb, completed>>
    BY <1>6, TailFacts DEF WriteDropped, ctxVars, RepliesReachTheirOwner, TypeOK
  <2> QED
    BY <2>1 DEF OrderInv
<1>7. CASE ytdl__connected_cb
  <2>1. /\ wire = <<>>
        /\ UNCHANGED <<queue, calls, cb, completed, player_url, page>>
    BY <1>7 DEF ytdl__connected_cb, ConnectionInv
  <2>2. wire' = <<>> \/ handler' = "watch"
    BY <1>7, <2>1 DEF ytdl__connected_cb, ytdl__dl_wake
  <2> QED
    BY <2>1, <2>2 DEF OrderInv
<1>8. CASE \/ ytdl_dl_ctx_connect \/ ytdl__status_cb \/ ytdl__watch_body_cb
           \/ yt__player_body_cb \/ ytdl_dl_shutdown \/ ytdl__dl_shutdown
           \/ ytdl__close_cb \/ UNCHANGED vars
  <2>1. UNCHANGED <<queue, calls, cb, completed, player_url, page, wire,
                    handler>>
    BY <1>8 DEF ytdl_dl_ctx_connect, ytdl__status_cb, ytdl__watch_body_cb,
       yt__player_body_cb, ytdl_dl_shutdown, ytdl__dl_shutdown,
       ytdl__close_cb, vars, ctxVars, netVars
  <2> QED
    BY <2>1 DEF OrderInv
<1> QED
  BY <1>1, <1>2, <1>3, <1>4, <1>5, <1>6, <1>7, <1>8 DEF Next

LEMMA OrderInvariant == Spec => []OrderInv
<1>1. Init => OrderInv
  BY EmptySeq DEF Init, OrderInv
<1> QED
  BY <1>1, OrderStep, PipelineInvariant, BufferInvariant, PTL DEF Spec

-----------------------------------------------------------------------------
(* InfoQueue implements InfoService.                                       *)

Completions == [job : Calls, player : Players, source : Seq(Requests)]

ViewEntries == [job : Nat, player : Players, sig : Players \cup {NoPlayer}]

EntryView(c) == [job |-> c.job, player |-> c.player, sig |-> SigOwner(c.source)]

ViewOf(c) == [i \in 1..Len(c) |-> EntryView(c[i])]

LEMMA ViewTypes ==
  ASSUME NEW c \in Seq(Completions)
  PROVE  /\ Len(ViewOf(c)) = Len(c) /\ Len(c) \in Nat
         /\ ViewOf(c) \in Seq(ViewEntries)
<1>1. Len(c) \in Nat
  BY LenProperties
<1>2. ASSUME NEW i \in 1..Len(c)
      PROVE  EntryView(c[i]) \in ViewEntries
  <2>1. c[i] \in Completions
    BY ElementOfSeq
  <2>2. SigOwner(c[i].source) \in Players \cup {NoPlayer}
    BY DEF SigOwner
  <2> QED
    BY <2>1, <2>2 DEF ViewEntries, EntryView, Completions, Calls
<1>3. ViewOf(c) \in [1..Len(c) -> ViewEntries]
  BY <1>2 DEF ViewOf
<1> QED
  BY <1>1, <1>3

(* One more completion is one more answer.                                 *)
LEMMA ViewAppend ==
  ASSUME NEW c \in Seq(Completions), NEW e \in Completions
  PROVE  ViewOf(Append(c, e)) = Append(ViewOf(c), EntryView(e))
<1> DEFINE d == Append(c, e)
           n == Len(c) + 1
<1>1. /\ d \in Seq(Completions) /\ Len(d) = n /\ d[n] = e
      /\ \A i \in 1..Len(c) : d[i] = c[i]
  BY AppendFacts
<1>2. /\ Len(ViewOf(c)) = Len(c) /\ Len(c) \in Nat
      /\ ViewOf(c) \in Seq(ViewEntries)
      /\ Len(ViewOf(d)) = n /\ ViewOf(d) \in Seq(ViewEntries)
  BY <1>1, ViewTypes
<1>3. EntryView(e) \in ViewEntries
  <2>1. SigOwner(e.source) \in Players \cup {NoPlayer}
    BY DEF SigOwner
  <2> QED
    BY <2>1 DEF ViewEntries, EntryView, Completions, Calls
<1>4. /\ Append(ViewOf(c), EntryView(e)) \in Seq(ViewEntries)
      /\ Len(Append(ViewOf(c), EntryView(e))) = n
      /\ Append(ViewOf(c), EntryView(e))[n] = EntryView(e)
      /\ \A i \in 1..Len(c) :
           Append(ViewOf(c), EntryView(e))[i] = ViewOf(c)[i]
  BY <1>2, <1>3, AppendFacts
<1> HIDE DEF d
<1>5. ViewOf(d)[n] = EntryView(e)
  BY <1>1, <1>2 DEF ViewOf
<1>6. \A i \in 1..Len(c) : ViewOf(d)[i] = ViewOf(c)[i]
  BY <1>1, <1>2 DEF ViewOf
<1>7. \A i \in 1..n : ViewOf(d)[i] = Append(ViewOf(c), EntryView(e))[i]
  BY <1>2, <1>4, <1>5, <1>6
<1>8. ViewOf(d) = Append(ViewOf(c), EntryView(e))
  BY <1>2, <1>4, <1>7, SeqEqual
<1> QED
  BY <1>8 DEF d

LEMMA ViewIsViewOf == DeliveredView = ViewOf(completed)
BY DEF DeliveredView, ViewOf, EntryView

LEMMA InitRefines == Init => Service!ServiceInit
<1> SUFFICES ASSUME Init PROVE Service!ServiceInit
  OBVIOUS
<1>1. DeliveredView = <<>>
  BY DEF Init, DeliveredView
<1> QED
  BY <1>1 DEF Init, Service!ServiceInit

(* A step that completes nothing is a call, the teardown, or a stutter.    *)
LEMMA QuietStepRefines ==
  ASSUME Pipeline, Next, UNCHANGED completed
  PROVE  Service!ServiceNext \/ UNCHANGED Service!serviceVars
<1> USE DEF Service!serviceVars
<1>1. UNCHANGED DeliveredView
  BY DEF DeliveredView
<1>2. CASE ytdl_dl_get_info
  BY <1>1, <1>2 DEF ytdl_dl_get_info, Service!ServiceNext, Service!Submit
<1>3. CASE ytdl__dl_shutdown
  BY <1>1, <1>3 DEF ytdl__dl_shutdown, Service!ServiceNext, Service!TearDown
<1>4. CASE \/ ytdl_dl_ctx_connect \/ ytdl__connected_cb \/ ytdl__status_cb
           \/ WriteDropped \/ ytdl__watch_body_cb \/ yt__player_body_cb
           \/ ytdl__watch_html_complete \/ ytdl__player_js_complete
           \/ ytdl__dl_finalize \/ ytdl__close_cb
  BY <1>1, <1>4 DEF ytdl_dl_ctx_connect, ytdl__connected_cb, ytdl__status_cb,
     WriteDropped, ytdl__watch_body_cb, yt__player_body_cb,
     ytdl__watch_html_complete, ytdl__player_js_complete, ytdl__dl_finalize,
     ytdl__close_cb, ctxVars
<1>5. CASE ytdl_dl_shutdown
  BY <1>1, <1>5, PlayerNames DEF ytdl_dl_shutdown
<1> QED
  BY <1>2, <1>3, <1>4, <1>5 DEF Next

(* A completion is the delivery of the next call's answer.                 *)
LEMMA CompletionRefines ==
  ASSUME Pipeline, BufferInv, BufferInv', OrderInv, TeardownInv, Pipeline',
         ytdl__watch_html_complete \/ ytdl__player_js_complete,
         completed' # completed
  PROVE  Service!Deliver
<1> DEFINE n == Len(completed) + 1
<1>1. /\ net = "up" /\ n \in 1..calls
      /\ UNCHANGED <<calls, page, shutdown>>
  BY CompletionFacts
<1>2. PICK source \in Seq(Requests) :
        /\ completed' = Append(completed,
              [job |-> n, player |-> page[n], source |-> source])
        /\ page[n] \in Players /\ SigOwner(source) = page[n]
  BY CompletionFacts
<1> DEFINE entry == [job |-> n, player |-> page[n], source |-> source]
           answer == [job |-> n, player |-> page[n], sig |-> page[n]]
<1>3. shutdown # "freed"
  BY <1>1 DEF TeardownInv
<1>4. completed \in Seq(Completions) /\ entry \in Completions
  BY <1>1, <1>2, InfoQueueAssumption DEF Pipeline, TypeOK, Completions, Calls
<1>5. EntryView(entry) = answer
  BY <1>2 DEF EntryView
<1>6. DeliveredView' = ViewOf(completed')
  BY DEF DeliveredView, ViewOf, EntryView
<1>7. DeliveredView' = Append(DeliveredView, answer)
  BY <1>2, <1>4, <1>5, <1>6, ViewAppend, ViewIsViewOf
<1>8. Len(DeliveredView) = Len(completed)
  BY <1>4, ViewTypes, ViewIsViewOf
<1> QED
  BY <1>1, <1>3, <1>7, <1>8 DEF Service!Deliver

LEMMA StepRefines ==
  ~EarlyShutdown =>
    (/\ Pipeline /\ Pipeline' /\ BufferInv /\ BufferInv' /\ OrderInv
     /\ TeardownInv /\ [Next]_vars
     => [Service!ServiceNext]_Service!serviceVars)
<1> SUFFICES ASSUME Pipeline, Pipeline', BufferInv, BufferInv', OrderInv,
                    TeardownInv, [Next]_vars
             PROVE  [Service!ServiceNext]_Service!serviceVars
  OBVIOUS
<1>1. CASE UNCHANGED vars
  BY <1>1 DEF vars, ctxVars, netVars, Service!serviceVars, DeliveredView
<1>2. CASE Next /\ UNCHANGED completed
  BY <1>2, QuietStepRefines
<1>3. CASE Next /\ completed' # completed
  <2>1. ytdl__watch_html_complete \/ ytdl__player_js_complete
    BY <1>3 DEF Next, ytdl_dl_get_info, ytdl_dl_ctx_connect,
       ytdl__connected_cb, ytdl__status_cb, WriteDropped, ytdl__watch_body_cb,
       yt__player_body_cb, ytdl__dl_finalize, ytdl_dl_shutdown,
       ytdl__dl_shutdown, ytdl__close_cb
  <2> QED
    BY <1>3, <2>1, CompletionRefines DEF Service!ServiceNext
<1> QED
  BY <1>1, <1>2, <1>3

(* The pipeline implements InfoService: calls are answered in order, each  *)
(* once, with the player of their own page and that player's own signature *)
(* actions, and never after the teardown.                                  *)
THEOREM PipelineImplementsService ==
  ~EarlyShutdown => (Spec => ImplementsService)
<1>1. ASSUME ~EarlyShutdown PROVE Spec => ImplementsService
  BY <1>1, InitRefines, StepRefines, PipelineInvariant, BufferInvariant,
     OrderInvariant, TeardownInvariant, PTL
  DEF Spec, ImplementsService, Service!ServiceSpec
<1> QED
  BY <1>1
=============================================================================
