----------------------------- MODULE HttpClient -----------------------------
(***************************************************************************)
(* The HTTPS client of src/http/http.c and src/http/tcp.c: resolving and   *)
(* connecting, the TLS handshake run from an idle handle, the poll handle  *)
(* that drives SSL_read and SSL_write, the queue of pending writes, and    *)
(* the chain of callbacks by which it is shut down.  Every user of the     *)
(* client in this library asks for TLS; the plain TCP branches are not     *)
(* modelled.                                                               *)
(*                                                                         *)
(* libuv calls back one function at a time.  A callback that calls the     *)
(* user's code half way (the read callback inside the poll callback) is    *)
(* split there, and pc says where in the poll callback the loop is.        *)
(***************************************************************************)
EXTENDS Integers, Sequences

CONSTANTS
  MaxWrites,      \* bound: calls of ytdl_http_client_write
  MaxInits,       \* bound: calls of ytdl_http_client_init on one client
  EarlyShutdown   \* may the user shut down a client that never became ready?

ASSUME HttpClientAssumption ==
  /\ MaxWrites \in Nat
  /\ MaxInits \in Nat \ {0}
  /\ EarlyShutdown \in BOOLEAN

VARIABLES
  dns,        \* the uv_getaddrinfo_t request
  conn,       \* the uv_connect_t request
  tcp,        \* the uv_tcp_t handle: "nofd" until it has a socket
  ssl,        \* client->ssl: NULL, a session, or a pointer to a freed one
  handshake,  \* the idle handle that runs SSL_connect
  poll,       \* the uv_poll_t handle
  closer,     \* the idle handle that runs SSL_shutdown
  pc,         \* where the poll callback is, "loop" when it is not running
  tls_write_queue,
  shut,       \* ytdl_http_client_shutdown was called
  closed,     \* the user's close callback was called
  ready,      \* ready_cb was called
  errors,     \* how often status_cb was called before ready_cb
  ended,      \* how often the poll callback called status_cb
  writes,     \* how many writes the user has asked for
  sent,       \* writes that SSL_write put on the connection
  report,     \* report[w]: what the write callback was told
  inits,      \* how often the client was initialised
  fault       \* handles and pointers misused so far

handleVars == <<dns, conn, tcp, ssl, handshake, poll, closer>>
userVars == <<shut, closed, ready, errors, ended>>
writeVars == <<tls_write_queue, writes, sent, report>>
vars == <<handleVars, pc, userVars, writeVars, inits, fault>>

Writes == 1..MaxWrites
Loop == pc = "loop"

-----------------------------------------------------------------------------
(* ytdl_http_client_init and ytdl_tcp_client_init.                         *)
Init ==
  /\ dns = "none" /\ conn = "none" /\ tcp = "nofd" /\ ssl = "null"
  /\ handshake = "none" /\ poll = "none" /\ closer = "none" /\ pc = "loop"
  /\ tls_write_queue = <<>>
  /\ shut = FALSE /\ closed = FALSE /\ ready = FALSE
  /\ errors = 0 /\ ended = 0
  /\ writes = 0 /\ sent = <<>> /\ report = [w \in Writes |-> "none"]
  /\ inits = 1 /\ fault = {}

(* The close callbacks of a redirected download and of a DASH download     *)
(* initialise the client again to connect to another host.                 *)
ytdl_http_client_init ==
  /\ Loop /\ closed /\ inits < MaxInits
  /\ inits' = inits + 1
  /\ dns' = "none" /\ conn' = "none" /\ tcp' = "nofd" /\ ssl' = "null"
  /\ handshake' = "none" /\ poll' = "none" /\ closer' = "none"
  /\ tls_write_queue' = <<>>
  /\ shut' = FALSE /\ closed' = FALSE /\ ready' = FALSE
  /\ errors' = 0 /\ ended' = 0
  /\ fault' = fault \cup
       (IF dns = "pending" \/ conn = "pending" \/ handshake = "active"
             \/ poll \in {"active", "closing"} \/ closer = "active"
          THEN {"init_while_active"} ELSE {})
  /\ UNCHANGED <<pc, writes, sent, report>>

-----------------------------------------------------------------------------
(* Resolving and connecting.                                               *)

(* ytdl__tcp_client_connect: uv_tcp_connect opens the socket, or fails and *)
(* the status callback is told.                                            *)
ytdl__tcp_client_connect ==
  \/ conn' = "pending" /\ tcp' = "open" /\ UNCHANGED errors
  \/ errors' = errors + 1 /\ UNCHANGED <<conn, tcp>>

(* A numeric host is connected to at once; otherwise it is resolved first. *)
(* The result of uv_getaddrinfo is not looked at: a request that libuv     *)
(* refuses leaves the client waiting for a callback that never comes.      *)
ytdl_http_client_connect ==
  /\ Loop /\ dns = "none" /\ conn = "none" /\ ~shut /\ errors = 0
  /\ \/ dns' = "numeric" /\ ytdl__tcp_client_connect
     \/ dns' \in {"pending", "refused"} /\ UNCHANGED <<conn, tcp, errors>>
  /\ UNCHANGED <<ssl, handshake, poll, closer, pc, shut, closed, ready, ended,
                 writeVars, inits, fault>>

(* A callback made after the user was told that the client is closed works *)
(* on memory that may be gone.                                             *)
Stray == IF closed THEN {"callback_after_close"} ELSE {}

NotReported == errors  \* mutant: the status callback is forgotten
Reported == errors + 1

ytdl__tcp_client_getaddrinfo_cb ==
  /\ Loop /\ dns = "pending"
  /\ dns' = "done"
  /\ \/ errors' = Reported /\ UNCHANGED <<conn, tcp>>
     \/ ytdl__tcp_client_connect
  /\ fault' = fault \cup Stray
  /\ UNCHANGED <<ssl, handshake, poll, closer, pc, shut, closed, ready, ended,
                 writeVars, inits>>

(* ytdl__http_client_tcp_connect_cb: SSL_new or a step before it fails     *)
(* ("null"), the session is freed but client->ssl still points to it       *)
(* ("dangling"), it is freed and cleared ("null"), or all is set up.       *)
SetUpTls ==
  \/ /\ ssl' = "live" /\ handshake' = "active"
     /\ UNCHANGED errors
  \/ /\ ssl' \in {"null", "dangling"}
     /\ errors' = errors + 1
     /\ UNCHANGED handshake

(* libuv calls back a pending connect with UV_ECANCELED when its handle is *)
(* closed.                                                                 *)
ytdl__tcp_client_connect_cb ==
  /\ Loop /\ conn = "pending"
  /\ conn' = "done"
  /\ \/ errors' = errors + 1 /\ UNCHANGED <<ssl, handshake>>
     \/ tcp = "open" /\ SetUpTls
  /\ fault' = fault \cup Stray
  /\ UNCHANGED <<dns, tcp, poll, closer, pc, shut, closed, ready, ended,
                 writeVars, inits>>

(* SSL_connect: 1 when the handshake is done, 0 when the peer ended it in  *)
(* an orderly way, negative when it must be called again or has failed.    *)
(* Only a negative result counts as a failure: ready_cb is called for a    *)
(* session that the peer refused.                                          *)
HandshakeFailed(result, want) == result < 0 /\ ~want

HandshakeOver(result, want) == result >= 0

IdleGoesOn == "active"  \* mutant: uv_idle_stop is forgotten
IdleStopped == "none"

ytdl__http_client_tls_handshake_cb ==
  /\ Loop /\ handshake = "active"
  /\ \E result \in {-1, 0, 1}, want \in BOOLEAN :
       \/ /\ HandshakeFailed(result, want)
          /\ handshake' = IdleStopped
          /\ errors' = errors + 1
          /\ UNCHANGED <<poll, ready>>
       \/ /\ HandshakeOver(result, want)
          /\ handshake' = "none"
          /\ \/ poll' \in {"none", "stopped"} /\ errors' = errors + 1
                /\ UNCHANGED ready
             \/ poll' = "active" /\ ready' = TRUE /\ UNCHANGED errors
  /\ fault' = fault \cup Stray \cup (IF ssl = "live" THEN {} ELSE {"bad_ssl"})
  /\ UNCHANGED <<dns, conn, tcp, ssl, closer, pc, shut, closed, ended,
                 writeVars, inits>>

-----------------------------------------------------------------------------
(* Reading and writing.                                                    *)

OldLength == writes  \* mutant: the length before the increment
NewWrite == writes + 1

(* The user writes once the client is ready, from a callback of its own or *)
(* from the read callback, where it may just have shut the client down.    *)
ytdl_http_client_write ==
  /\ pc \in {"loop", "read_cb"} /\ ready
  /\ shut => pc = "read_cb"
  /\ writes < MaxWrites
  /\ writes' = writes + 1
  /\ tls_write_queue' = Append(tls_write_queue, NewWrite)
  /\ UNCHANGED <<handleVars, pc, userVars, sent, report, inits, fault>>

UsesSsl == IF ssl = "live" THEN {} ELSE {"bad_ssl"}

(* The poll callback up to its first SSL_read_ex: a poll error; data, and  *)
(* the read callback is called; nothing to read; the session closed or     *)
(* failed, which stops the poll at the end; a bare FIN, which does so at   *)
(* once.                                                                   *)
ytdl__http_client_tls_poll_cb ==
  /\ Loop /\ poll = "active"
  /\ \/ pc' = "loop" /\ poll' = "stopped" /\ ended' = ended + 1
     \/ pc' = "read_cb" /\ UNCHANGED <<poll, ended>>
     \/ pc' = "write" /\ UNCHANGED <<poll, ended>>
     \/ pc' = "write_stop" /\ ended' = ended + 1 /\ UNCHANGED poll
  /\ fault' = fault \cup Stray \cup UsesSsl
  /\ UNCHANGED <<dns, conn, tcp, ssl, handshake, closer, shut, closed, ready,
                 errors, writeVars, inits>>

(* The read callback returns.  While SSL_pending says so it is called      *)
(* again, which is where it was.  A parse error that it reported through   *)
(* status_cb has changed nothing in the client.                            *)
AfterReadStop == "write_stop"  \* mutant: free_handle is set after a read
AfterRead == "write"

ReadReturns ==
  /\ pc = "read_cb"
  /\ pc' = AfterRead
  /\ fault' = fault \cup UsesSsl
  /\ UNCHANGED <<handleVars, userVars, writeVars, inits>>

(* The write half of the poll callback takes the newest write.             *)
(* SSL_get_error returns no negative number, so the test for a failed      *)
(* SSL_write never succeeds: whatever became of the data, the write        *)
(* callback is told YTDL_NET_E_OK and the write leaves the queue.          *)
WriteFailed(err) == err < 0

(* The end of the poll callback.                                           *)
PollAfter == IF pc = "write_stop" THEN "stopped" ELSE poll

EndPoll ==
  /\ pc \in {"write", "write_stop"}
  /\ pc' = "loop"
  /\ poll' = PollAfter
  /\ fault' = fault \cup UsesSsl \cup
       (IF pc = "write_stop" /\ poll # "active" THEN {"poll_stop"} ELSE {})
  /\ UNCHANGED <<dns, conn, tcp, ssl, handshake, closer, userVars, 
                 writes, inits>>

LeavesOne == Len(tls_write_queue) > 1  \* mutant: off by one
AnyToWrite == Len(tls_write_queue) > 0

PollWrite ==
  LET n == Len(tls_write_queue)
      w == tls_write_queue[n] IN
  /\ AnyToWrite
  /\ EndPoll
  /\ \E err \in 0..1 :     \* SSL_ERROR_NONE, or any other
       /\ sent' = IF err = 0 THEN Append(sent, w) ELSE sent
       /\ report' = [report EXCEPT ![w] =
                       IF WriteFailed(err) THEN "error" ELSE "ok"]
  /\ tls_write_queue' = SubSeq(tls_write_queue, 1, n - 1)

(* The socket is not writable, or there is nothing to write.               *)
PollSkipsWrite ==
  /\ EndPoll
  /\ UNCHANGED <<tls_write_queue, sent, report>>

-----------------------------------------------------------------------------
(* Shutting down.                                                          *)

(* With a session, the poll handle is closed first, although there is none *)
(* before the handshake is over.  Without one the socket is closed; that   *)
(* fails when it was never opened, and the close callback is called at     *)
(* once.                                                                   *)
NoSession == ssl = "null"  \* mutant: the test is inverted
HasSession == ssl # "null"

ytdl_http_client_shutdown ==
  /\ pc \in {"loop", "read_cb"} /\ ~shut
  /\ EarlyShutdown \/ ready
  /\ shut' = TRUE
  /\ IF HasSession
       THEN /\ poll' = "closing"
            /\ fault' = fault \cup
                 (IF poll = "none" THEN {"uninitialised_poll"} ELSE {})
            /\ UNCHANGED <<tcp, closed>>
       ELSE /\ IF tcp = "open"
                 THEN tcp' = "closing" /\ UNCHANGED closed
                 ELSE closed' = TRUE /\ UNCHANGED tcp
            /\ UNCHANGED <<poll, fault>>
  /\ UNCHANGED <<dns, conn, ssl, handshake, closer, pc, ready, errors, ended,
                 writeVars, inits>>

(* The write queue and the read buffer are freed: a write still queued is  *)
(* dropped and its callback never called.                                  *)
NotStarted == "none"  \* mutant: uv_idle_start is forgotten
Started == "active"

ytdl__tls_poll_close ==
  /\ Loop /\ poll = "closing"
  /\ poll' = "closed"
  /\ tls_write_queue' = <<>>
  /\ closer' = Started
  /\ UNCHANGED <<dns, conn, tcp, ssl, handshake, pc, userVars, 
                 writes, sent, report, inits, fault>>

(* SSL_shutdown is called once whatever it returns: the codes it is        *)
(* compared with are not negative.                                         *)
ytdl__http_client_tls_shutdown_cb ==
  /\ Loop /\ closer = "active"
  /\ closer' = "done"
  /\ ssl' = "freed"
  /\ tcp' = "closing"
  /\ fault' = fault \cup UsesSsl
  /\ UNCHANGED <<dns, conn, handshake, poll, pc, userVars, 
                 writeVars, inits>>

(* libuv has closed the socket: the user's close callback.                 *)
TcpClosed ==
  /\ Loop /\ tcp = "closing"
  /\ conn # "pending"
  /\ tcp' = "closed"
  /\ closed' = TRUE
  /\ UNCHANGED <<dns, conn, ssl, handshake, poll, closer, pc, shut, ready,
                 errors, ended, writeVars, inits, fault>>

-----------------------------------------------------------------------------
Next ==
  \/ ytdl_http_client_init
  \/ ytdl_http_client_connect
  \/ ytdl__tcp_client_getaddrinfo_cb
  \/ ytdl__tcp_client_connect_cb
  \/ ytdl__http_client_tls_handshake_cb
  \/ ytdl_http_client_write
  \/ ytdl__http_client_tls_poll_cb
  \/ ReadReturns
  \/ PollWrite
  \/ PollSkipsWrite
  \/ ytdl_http_client_shutdown
  \/ ytdl__tls_poll_close
  \/ ytdl__http_client_tls_shutdown_cb
  \/ TcpClosed

Spec == Init /\ [][Next]_vars

(***************************************************************************)
(* What libuv and the kernel give: callbacks that are due are run, and a   *)
(* resolver and the connect of TCP end, by their own timeouts if need be.  *)
(* Nothing is assumed of the handshake: ytdl__http_client_tls_handshake_cb *)
(* returns as long as the peer owes it an answer, and no timer runs.       *)
(***************************************************************************)
LoopFairness ==
  /\ WF_vars(ytdl__tcp_client_getaddrinfo_cb)
  /\ WF_vars(ytdl__tcp_client_connect_cb)
  /\ WF_vars(ReadReturns)
  /\ WF_vars(PollSkipsWrite)
  /\ WF_vars(ytdl__tls_poll_close)
  /\ WF_vars(ytdl__http_client_tls_shutdown_cb)
  /\ WF_vars(TcpClosed)

(***************************************************************************)
(* What is assumed of a peer that is connected: it receives what it is     *)
(* sent or the connection ends, so that the socket, which is polled for    *)
(* writing, becomes writable again and again, though not on every round.   *)
(***************************************************************************)
PeerReceives ==
  /\ WF_vars(ytdl__http_client_tls_poll_cb)
  /\ SF_vars(PollWrite)

FairSpec == Spec /\ LoopFairness /\ PeerReceives

-----------------------------------------------------------------------------
(* Properties.                                                             *)

(* Every variable stays in its domain; the write queue holds writes that   *)
(* were asked for.                                                         *)
TypeOK ==
  /\ dns \in {"none", "pending", "refused", "numeric", "done"}
  /\ conn \in {"none", "pending", "done"}
  /\ tcp \in {"nofd", "open", "closing", "closed"}
  /\ ssl \in {"null", "live", "dangling", "freed"}
  /\ handshake \in {"none", "active"}
  /\ poll \in {"none", "active", "stopped", "closing", "closed"}
  /\ closer \in {"none", "active", "done"}
  /\ pc \in {"loop", "read_cb", "write", "write_stop"}
  /\ tls_write_queue \in Seq(Writes)
  /\ shut \in BOOLEAN /\ closed \in BOOLEAN /\ ready \in BOOLEAN
  /\ errors \in Nat /\ ended \in Nat
  /\ writes \in 0..MaxWrites /\ sent \in Seq(Writes)
  /\ report \in [Writes -> {"none", "ok", "error"}]
  /\ inits \in 1..MaxInits
  /\ fault \subseteq {"init_while_active", "callback_after_close", "bad_ssl",
                      "poll_stop", "uninitialised_poll"}

(* As long as a client is only shut down once ready, none of the chained   *)
(* close callbacks of http.c uses a freed session, stops a poll handle     *)
(* that is closing, calls back after the close callback, or leaves a       *)
(* handle active when the client is initialised again.                     *)
NoHandleMisuse == fault = {}

(* The close callback is the last: when it runs no request is pending and  *)
(* no handle of the client is active, so the client may be freed or        *)
(* initialised again from it.                                              *)
QuietAfterClose ==
  closed => /\ dns # "pending" /\ conn # "pending"
            /\ handshake = "none" /\ poll = "closed" /\ closer = "done"
            /\ tcp = "closed" /\ pc = "loop" /\ tls_write_queue = <<>>

NetView ==
  CASE closed -> "closed"
    [] ~closed /\ shut -> "closing"
    [] ~shut /\ ended > 0 -> "lost"
    [] ~shut /\ ended = 0 /\ ready -> "up"
    [] ~shut /\ ~ready /\ errors > 0 -> "failed"
    [] ~shut /\ ~ready /\ errors = 0 /\ dns # "none" -> "connecting"
    [] OTHER -> "new"

Abstract == INSTANCE Connection WITH net <- NetView

(* To its user the client is the connection that Connection describes.     *)
ImplementsConnection == Abstract!Spec

(* An attempt to connect ends in ready_cb or in status_cb, unless libuv    *)
(* refused to resolve the host, or the peer, which has accepted the        *)
(* connection, leaves the handshake without an answer for ever: that is    *)
(* the one place in which an attempt can hang.                             *)
ConnectSettles ==
  (dns # "none" /\ dns # "refused")
    ~> (ready \/ errors > 0 \/ shut \/ [](handshake = "active"))

Queued(w) == \E i \in 1..Len(tls_write_queue) : tls_write_queue[i] = w

(* A write that was queued has its callback called, unless the connection  *)
(* ends or the client is shut down first, if the peer receives.            *)
WritesSettle ==
  \A w \in Writes :
    Queued(w) ~> (report[w] # "none" \/ shut \/ ended > 0)

(* A shutdown ends with the close callback.                                *)
ShutdownCompletes == shut ~> (closed \/ ~shut)

(* A write whose callback was told YTDL_NET_E_OK was put on the            *)
(* connection.                                                             *)
OkMeansSent ==
  \A w \in Writes :
    report[w] = "ok" => \E i \in 1..Len(sent) : sent[i] = w
=============================================================================
