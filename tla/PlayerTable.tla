---------------------------- MODULE PlayerTable ----------------------------
(***************************************************************************)
(* What the users of src/hashmap.c are promised: a partial function from   *)
(* keys to data, and a result for every call.                              *)
(***************************************************************************)
CONSTANTS Keys, Data, NULL

VARIABLES
  content,  \* data of each key, or NULL
  result    \* what the last call returned

vars == <<content, result>>

Init == content = [k \in Keys |-> NULL] /\ result = NULL

(* A key that is there keeps its data; a new one may fail for want of      *)
(* memory.                                                                 *)
Put(k, d) ==
  IF content[k] # NULL THEN result' = "EEXIST" /\ UNCHANGED content
  ELSE \/ result' = "OK" /\ content' = [content EXCEPT ![k] = d]
       \/ result' = "ENOMEM" /\ UNCHANGED content

Get(k) == result' = content[k] /\ UNCHANGED content

Remove(k) == result' = content[k] /\ content' = [content EXCEPT ![k] = NULL]

Clear == result' = NULL /\ content' = [k \in Keys |-> NULL]

(* Calls that change nothing a user can look up, and may fail.             *)
Other == result' \in {NULL, "ENOMEM"} /\ UNCHANGED content

Next ==
  \/ \E k \in Keys : Get(k) \/ Remove(k) \/ \E d \in Data : Put(k, d)
  \/ Clear \/ Other

Spec == Init /\ [][Next]_vars
=============================================================================
