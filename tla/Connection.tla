----------------------------- MODULE Connection -----------------------------
(***************************************************************************)
(* An HTTP client of libytdl as the code that uses it sees it: the order   *)
(* in which its ready, status and close callbacks may come.  HttpClient is *)
(* shown to behave like this as long as its user only shuts down a client  *)
(* that has become ready; InfoQueue and MediaDownload rely on no more.     *)
(***************************************************************************)
VARIABLE net

Init == net = "new"

Move(from, to) == net \in from /\ net' = to

Next ==
  \/ Move({"new"}, "connecting")          \* ytdl_http_client_connect
  \/ Move({"connecting"}, "up")           \* ready_cb
  \/ Move({"new", "connecting"}, "failed")  \* status_cb before ready_cb
  \/ Move({"up"}, "lost")                 \* status_cb on a live connection
  \/ Move({"up", "lost"}, "closing")      \* ytdl_http_client_shutdown
  \/ Move({"closing"}, "closed")          \* the close callback
  \/ Move({"closed"}, "new")              \* ytdl_http_client_init, once more

Spec == Init /\ [][Next]_net
=============================================================================
