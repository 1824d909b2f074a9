---------------------------- MODULE MCHttpClient ----------------------------
(* Instance of HttpClient for TLC: a client that is used, shut down and    *)
(* initialised a second time, as for a redirected download, and two writes *)
(* that may fall into the first or the second life.                        *)
EXTENDS HttpClient
=============================================================================
