---------------------------- MODULE InfoService ----------------------------
(***************************************************************************)
(* What the information pipeline of libytdl promises to a caller of        *)
(* ytdl_dl_get_info, whatever it does with the connection behind it: calls *)
(* are answered in the order they were made, each at most once, every      *)
(* answer carries the player that the call's own watch page names and the  *)
(* signature actions read from that player's own file, and nothing is      *)
(* answered once the context has been torn down.                           *)
(***************************************************************************)
EXTENDS Naturals, Sequences

VARIABLES
  page,       \* page[n]: what the watch page of the n-th call says
  submitted,  \* how many calls have been made
  delivered,  \* the on_complete callbacks made so far, in order
  open        \* FALSE once the context has been torn down

serviceVars == <<page, submitted, delivered, open>>

ServiceInit ==
  /\ submitted = 0
  /\ delivered = <<>>
  /\ open = TRUE

Submit ==
  /\ open
  /\ submitted' = submitted + 1
  /\ UNCHANGED <<page, delivered, open>>

Deliver ==
  LET n == Len(delivered) + 1 IN
  /\ open
  /\ n <= submitted
  /\ delivered' = Append(delivered,
                         [job |-> n, player |-> page[n], sig |-> page[n]])
  /\ UNCHANGED <<page, submitted, open>>

TearDown ==
  /\ open
  /\ open' = FALSE
  /\ UNCHANGED <<page, submitted, delivered>>

ServiceNext == Submit \/ Deliver \/ TearDown

ServiceSpec == ServiceInit /\ [][ServiceNext]_serviceVars
=============================================================================
