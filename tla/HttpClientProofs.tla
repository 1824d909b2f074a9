-------------------------- MODULE HttpClientProofs --------------------------
(***************************************************************************)
(* Proofs about HttpClient, for every number of writes and of lives of a   *)
(* client.  Lifecycle is the inductive invariant: it says which handles    *)
(* and requests a client may have in each stage of its life, provided that *)
(* it is only shut down once it is ready.                                  *)
(***************************************************************************)
EXTENDS HttpClient, SequenceTheorems, TLAPS

(* At most one of the resolver's request, the connect request and the      *)
(* handshake is under way, and none after an error was reported.           *)
ConnectingInv ==
  /\ dns \in {"none", "pending", "refused"} => conn = "none"
  /\ conn # "done" => ssl = "null" /\ handshake = "none" /\ poll = "none"
  /\ conn = "pending" \/ handshake = "active" => tcp = "open"
  /\ handshake = "active" => ssl = "live" /\ poll = "none" /\ ~ready
  /\ errors > 0 => /\ dns # "pending" /\ conn # "pending"
                   /\ handshake = "none" /\ ~ready

(* Before the client is ready there is no poll handle in use.              *)
UnreadyInv ==
  ~ready => /\ ~shut /\ ended = 0 /\ closer = "none" /\ pc = "loop"
            /\ tls_write_queue = <<>> /\ poll \in {"none", "stopped"}

(* Once it is, its session lasts until the idle handle of the shutdown has *)
(* run, and a callback that is in progress has a poll handle.              *)
ReadyInv ==
  /\ ready => dns \in {"numeric", "done"} /\ conn = "done" /\ handshake = "none"
  /\ ready /\ ~shut => /\ ssl = "live" /\ tcp = "open" /\ closer = "none"
                       /\ poll \in {"active", "stopped"}
  /\ pc \in {"read_cb", "write"} => poll \in {"active", "closing"}
  /\ pc = "write_stop" => poll = "active"

(* The three stages of a shutdown: the poll handle is being closed, the    *)
(* session is being shut down, the socket is being closed.                 *)
ShutdownInv ==
  /\ shut => ready
  /\ shut => \/ poll = "closing" /\ closer = "none" /\ ssl = "live" /\ tcp = "open"
             \/ /\ poll = "closed" /\ pc = "loop" /\ tls_write_queue = <<>>
                /\ \/ closer = "active" /\ ssl = "live" /\ tcp = "open"
                   \/ closer = "done" /\ ssl = "freed" /\ tcp \in {"closing", "closed"}
  /\ ~shut => tcp \in {"nofd", "open"}
  /\ closed <=> tcp = "closed"

Lifecycle ==
  /\ TypeOK /\ ConnectingInv /\ UnreadyInv /\ ReadyInv /\ ShutdownInv
  /\ fault = {}

-----------------------------------------------------------------------------
(* Types.                                                                  *)

(* The write queue and what was sent are sequences of writes, and stay so  *)
(* when the newest write is taken from the end of the queue.               *)
LEMMA QueueFacts ==
  ASSUME NEW S, NEW q \in Seq(S), NEW e \in S
  PROVE  /\ Append(q, e) \in Seq(S)
         /\ Len(q) > 0 => /\ q[Len(q)] \in S
                          /\ SubSeq(q, 1, Len(q) - 1) \in Seq(S)
<1>1. Append(q, e) \in Seq(S)
  BY AppendProperties
<1>2. ASSUME Len(q) > 0
      PROVE  q[Len(q)] \in S /\ SubSeq(q, 1, Len(q) - 1) \in Seq(S)
  <2>1. Len(q) \in Nat /\ Len(q) \in 1..Len(q)
    BY <1>2, LenProperties
  <2>2. \A i \in 1..(Len(q) - 1) : q[i] \in S
    BY <2>1, ElementOfSeq
  <2>3. SubSeq(q, 1, Len(q) - 1) \in Seq(S)
    BY <2>1, <2>2, SubSeqProperties
  <2> QED
    BY <2>1, <2>3, ElementOfSeq
<1> QED
  BY <1>1, <1>2

LEMMA TypeInit == Init => TypeOK
<1> SUFFICES ASSUME Init PROVE TypeOK
  OBVIOUS
<1>1. tls_write_queue \in Seq(Writes) /\ sent \in Seq(Writes)
  BY DEF Init
<1>2. /\ writes \in 0..MaxWrites /\ inits \in 1..MaxInits
      /\ errors \in Nat /\ ended \in Nat
  BY HttpClientAssumption DEF Init
<1> QED
  BY <1>1, <1>2 DEF Init, TypeOK

LEMMA TypeStep == TypeOK /\ [Next]_vars => TypeOK'
<1> SUFFICES ASSUME TypeOK, [Next]_vars PROVE TypeOK'
  OBVIOUS
<1> USE DEF TypeOK, handleVars, userVars, writeVars, Stray, UsesSsl
<1>1. CASE ytdl_http_client_init
  <2>1. tls_write_queue' \in Seq(Writes)
    BY <1>1 DEF ytdl_http_client_init
  <2>2. inits' \in 1..MaxInits /\ errors' \in Nat /\ ended' \in Nat
    BY <1>1, HttpClientAssumption DEF ytdl_http_client_init
  <2> QED
    BY <1>1, <2>1, <2>2 DEF ytdl_http_client_init
<1>2. CASE ytdl_http_client_connect
  BY <1>2 DEF ytdl_http_client_connect, ytdl__tcp_client_connect
<1>3. CASE ytdl__tcp_client_getaddrinfo_cb
  BY <1>3 DEF ytdl__tcp_client_getaddrinfo_cb, ytdl__tcp_client_connect, Reported
<1>4. CASE ytdl__tcp_client_connect_cb
  BY <1>4 DEF ytdl__tcp_client_connect_cb, SetUpTls
<1>5. CASE ytdl__http_client_tls_handshake_cb
  <2>1. ready' \in BOOLEAN
    BY <1>5, Zenon DEF ytdl__http_client_tls_handshake_cb
  <2> QED
    BY <1>5, <2>1 DEF ytdl__http_client_tls_handshake_cb, IdleStopped,
                      HandshakeFailed, HandshakeOver
<1>6. CASE ytdl_http_client_write
  <2>1. NewWrite \in Writes /\ writes' \in 0..MaxWrites
    BY <1>6, HttpClientAssumption DEF ytdl_http_client_write, NewWrite, Writes
  <2>2. tls_write_queue' \in Seq(Writes)
    BY <1>6, <2>1, QueueFacts DEF ytdl_http_client_write
  <2> QED
    BY <1>6, <2>1, <2>2 DEF ytdl_http_client_write
<1>7. CASE ytdl__http_client_tls_poll_cb
  BY <1>7 DEF ytdl__http_client_tls_poll_cb
<1>8. CASE ReadReturns
  BY <1>8 DEF ReadReturns, AfterRead
<1>9. CASE PollWrite
  <2> DEFINE w == tls_write_queue[Len(tls_write_queue)]
  <2>1. /\ w \in Writes /\ Append(sent, w) \in Seq(Writes)
        /\ tls_write_queue' \in Seq(Writes)
    <3>1. Len(tls_write_queue) > 0
      BY <1>9 DEF PollWrite, AnyToWrite
    <3>2. PICK e \in Writes : e = w
      BY <3>1, LenProperties, ElementOfSeq
    <3> QED
      BY <1>9, <3>1, <3>2, QueueFacts DEF PollWrite
  <2>2. sent' \in Seq(Writes) /\ report' \in [Writes -> {"none", "ok", "error"}]
    BY <1>9, <2>1 DEF PollWrite, WriteFailed
  <2> QED
    BY <1>9, <2>1, <2>2 DEF PollWrite, EndPoll, PollAfter
<1>10. CASE PollSkipsWrite
  BY <1>10 DEF PollSkipsWrite, EndPoll, PollAfter
<1>11. CASE ytdl_http_client_shutdown
  <2>1. shut' \in BOOLEAN /\ closed' \in BOOLEAN
    BY <1>11, Zenon DEF ytdl_http_client_shutdown
  <2>2. /\ tcp' \in {"nofd", "open", "closing", "closed"}
        /\ poll' \in {"none", "active", "stopped", "closing", "closed"}
    BY <1>11, Zenon DEF ytdl_http_client_shutdown
  <2>3. fault' \subseteq {"init_while_active", "callback_after_close", "bad_ssl",
                         "poll_stop", "uninitialised_poll"}
    BY <1>11, Zenon DEF ytdl_http_client_shutdown
  <2>4. /\ dns' = dns /\ conn' = conn /\ ssl' = ssl /\ handshake' = handshake
        /\ closer' = closer /\ pc' = pc /\ ready' = ready /\ errors' = errors
        /\ ended' = ended /\ inits' = inits /\ tls_write_queue' = tls_write_queue
        /\ writes' = writes /\ sent' = sent /\ report' = report
    BY <1>11 DEF ytdl_http_client_shutdown
  <2> QED
    BY <2>1, <2>2, <2>3, <2>4
<1>12. CASE ytdl__tls_poll_close
  BY <1>12, EmptySeq DEF ytdl__tls_poll_close, Started
<1>13. CASE ytdl__http_client_tls_shutdown_cb
  BY <1>13 DEF ytdl__http_client_tls_shutdown_cb
<1>14. CASE TcpClosed
  BY <1>14 DEF TcpClosed
<1>15. CASE UNCHANGED vars
  BY <1>15 DEF vars
<1> QED
  BY <1>1, <1>2, <1>3, <1>4, <1>5, <1>6, <1>7, <1>8, <1>9, <1>10, <1>11,
     <1>12, <1>13, <1>14, <1>15 DEF Next

(* Every variable of the client stays in its domain, however it is used.   *)
THEOREM ClientTypes == Spec => []TypeOK
BY TypeInit, TypeStep, PTL DEF Spec

-----------------------------------------------------------------------------
(* The life of a client.                                                   *)

LEMMA LifecycleInit == Init => Lifecycle
BY TypeInit DEF Init, Lifecycle, ConnectingInv, UnreadyInv, ReadyInv,
                ShutdownInv

(* Each callback finds the handles it uses in the state it expects.        *)
LEMMA LifecycleStep ==
  ASSUME ~EarlyShutdown, Lifecycle, [Next]_vars
  PROVE  Lifecycle'
<1> USE DEF handleVars, userVars, writeVars, Stray, UsesSsl, Loop, Lifecycle,
            ConnectingInv, UnreadyInv, ReadyInv, ShutdownInv
<1>0. TypeOK'
  BY TypeStep
<1> USE <1>0 DEF TypeOK
<1>1. CASE ytdl_http_client_init
  BY <1>1 DEF ytdl_http_client_init
<1>2. CASE ytdl_http_client_connect
  BY <1>2 DEF ytdl_http_client_connect, ytdl__tcp_client_connect
<1>3. CASE ytdl__tcp_client_getaddrinfo_cb
  BY <1>3 DEF ytdl__tcp_client_getaddrinfo_cb, ytdl__tcp_client_connect, Reported
<1>4. CASE ytdl__tcp_client_connect_cb
  BY <1>4 DEF ytdl__tcp_client_connect_cb, SetUpTls
<1>5. CASE ytdl__http_client_tls_handshake_cb
  BY <1>5 DEF ytdl__http_client_tls_handshake_cb, IdleStopped,
                 HandshakeFailed, HandshakeOver
<1>6. CASE ytdl_http_client_write
  BY <1>6 DEF ytdl_http_client_write
<1>7. CASE ytdl__http_client_tls_poll_cb
  BY <1>7 DEF ytdl__http_client_tls_poll_cb
<1>8. CASE ReadReturns
  BY <1>8 DEF ReadReturns, AfterRead
<1>9. CASE PollWrite
  BY <1>9 DEF PollWrite, EndPoll, PollAfter, AnyToWrite
<1>10. CASE PollSkipsWrite
  BY <1>10 DEF PollSkipsWrite, EndPoll, PollAfter
<1>11. CASE ytdl_http_client_shutdown
  BY <1>11 DEF ytdl_http_client_shutdown, HasSession
<1>12. CASE ytdl__tls_poll_close
  BY <1>12 DEF ytdl__tls_poll_close, Started
<1>13. CASE ytdl__http_client_tls_shutdown_cb
  BY <1>13 DEF ytdl__http_client_tls_shutdown_cb
<1>14. CASE TcpClosed
  BY <1>14 DEF TcpClosed
<1>15. CASE UNCHANGED vars
  BY <1>15 DEF vars
<1> QED
  BY <1>1, <1>2, <1>3, <1>4, <1>5, <1>6, <1>7, <1>8, <1>9, <1>10, <1>11,
     <1>12, <1>13, <1>14, <1>15 DEF Next

LEMMA LifecycleAlways == ASSUME ~EarlyShutdown PROVE Spec => []Lifecycle
<1>1. Lifecycle /\ [Next]_vars => Lifecycle'
  BY LifecycleStep
<1> QED
  BY LifecycleInit, <1>1, PTL DEF Spec

(* As long as a client is only shut down once ready, no callback of the    *)
(* shutdown uses a freed session, stops a poll handle that is closing, or  *)
(* runs after the close callback, in any number of lives of the client.    *)
THEOREM NoMisuse == ASSUME ~EarlyShutdown PROVE Spec => []NoHandleMisuse
<1>1. Lifecycle => NoHandleMisuse
  BY DEF Lifecycle, NoHandleMisuse
<1> QED
  BY LifecycleAlways, <1>1, PTL

(* The close callback finds no request pending and no handle active.       *)
THEOREM QuietOnceClosed == ASSUME ~EarlyShutdown PROVE Spec => []QuietAfterClose
<1>1. Lifecycle => QuietAfterClose
  BY DEF Lifecycle, TypeOK, ConnectingInv, UnreadyInv, ReadyInv, ShutdownInv,
         QuietAfterClose
<1> QED
  BY LifecycleAlways, <1>1, PTL

-----------------------------------------------------------------------------
(* The refinement of Connection.                                           *)

LEMMA ViewInit == Init => Abstract!Init
BY DEF Init, Abstract!Init, NetView

(* Every step of the client is one that its user may see on a Connection,  *)
(* or none.                                                                *)
LEMMA ViewStep ==
  ASSUME ~EarlyShutdown, Lifecycle, [Next]_vars
  PROVE  [Abstract!Next]_NetView
<1> USE DEF handleVars, userVars, writeVars, Loop, Lifecycle, NetView,
            ConnectingInv, UnreadyInv, ReadyInv, ShutdownInv, TypeOK
<1>0. Lifecycle'
  BY LifecycleStep
<1> USE <1>0 DEF Abstract!Next, Abstract!Move
<1>1. CASE ytdl_http_client_init
  BY <1>1 DEF ytdl_http_client_init
<1>2. CASE ytdl_http_client_connect
  BY <1>2 DEF ytdl_http_client_connect, ytdl__tcp_client_connect
<1>3. CASE ytdl__tcp_client_getaddrinfo_cb
  BY <1>3 DEF ytdl__tcp_client_getaddrinfo_cb, ytdl__tcp_client_connect, Reported
<1>4. CASE ytdl__tcp_client_connect_cb
  BY <1>4 DEF ytdl__tcp_client_connect_cb, SetUpTls
<1>5. CASE ytdl__http_client_tls_handshake_cb
  BY <1>5 DEF ytdl__http_client_tls_handshake_cb, IdleStopped,
                 HandshakeFailed, HandshakeOver
<1>6. CASE ytdl_http_client_write
  BY <1>6 DEF ytdl_http_client_write
<1>7. CASE ytdl__http_client_tls_poll_cb
  BY <1>7 DEF ytdl__http_client_tls_poll_cb
<1>8. CASE ReadReturns
  BY <1>8 DEF ReadReturns, AfterRead
<1>9. CASE PollWrite
  BY <1>9 DEF PollWrite, EndPoll, PollAfter, AnyToWrite
<1>10. CASE PollSkipsWrite
  BY <1>10 DEF PollSkipsWrite, EndPoll, PollAfter
<1>11. CASE ytdl_http_client_shutdown
  BY <1>11 DEF ytdl_http_client_shutdown, HasSession
<1>12. CASE ytdl__tls_poll_close
  BY <1>12 DEF ytdl__tls_poll_close, Started
<1>13. CASE ytdl__http_client_tls_shutdown_cb
  BY <1>13 DEF ytdl__http_client_tls_shutdown_cb
<1>14. CASE TcpClosed
  BY <1>14 DEF TcpClosed
<1>15. CASE UNCHANGED vars
  BY <1>15 DEF vars
<1> QED
  BY <1>1, <1>2, <1>3, <1>4, <1>5, <1>6, <1>7, <1>8, <1>9, <1>10, <1>11,
     <1>12, <1>13, <1>14, <1>15 DEF Next

(* To its user the client is the connection that Connection describes, in  *)
(* the order of the ready, status and close callbacks.                     *)
THEOREM ClientIsConnection == ASSUME ~EarlyShutdown PROVE Spec => ImplementsConnection
<1>1. Lifecycle /\ [Next]_vars => [Abstract!Next]_NetView
  BY ViewStep
<1> QED
  BY ViewInit, LifecycleAlways, <1>1, PTL DEF Spec, ImplementsConnection, Abstract!Spec
=============================================================================
