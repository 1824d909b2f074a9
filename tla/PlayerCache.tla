---------------------------- MODULE PlayerCache ----------------------------
(***************************************************************************)
(* The file ytdl_cache.bin, in which src/cli.c keeps the player map from   *)
(* one run to the next: ytdl_dl_player_cache_save_file and                 *)
(* ytdl_dl_player_cache_load_file of src/dl.c with                         *)
(* ytdl_sig_actions_save_file and ytdl_sig_actions_load_file of src/sig.c. *)
(*                                                                         *)
(* The file is a sequence of fields, a player path and its signature       *)
(* actions in turn.  A save that is interrupted, or whose writes fail,     *)
(* leaves the first fields of what it wrote and perhaps a piece of the     *)
(* next one.  A start that reads such a file may abort: it then has not    *)
(* changed the file, which the next start finds as it was.                 *)
(***************************************************************************)
EXTENDS Naturals, Sequences, FiniteSets

CONSTANTS
  Players,   \* player paths
  Long,      \* those of more than 99 characters
  MaxStarts  \* bound: runs of the program

ASSUME CacheAssumption ==
  IsFiniteSet(Players) /\ Long \subseteq Players /\ MaxStarts \in Nat

VARIABLES
  phase,   \* "off", "fresh" (cache loaded), "aborted" (while it was loaded),
           \* "busy", "saving"
  map,     \* ctx->player_map: what is known of each player
  exists,  \* there is a cache file
  file,    \* its fields
  todo,    \* players the save in progress has still to write
  starts,
  saved,   \* history: the map the last save wrote
  torn,    \* history: the last save was not written to the end
  tears    \* history: saves that were not written to the end

history == <<saved, torn, tears>>
vars == <<phase, map, exists, file, todo, starts, history>>

States == {"none", "good", "broken"}
Path(p) == [kind |-> "path", value |-> p]
Actions(s) == [kind |-> "actions", value |-> s]

(* What is left of a field that is cut: of a path no NUL, of actions a     *)
(* piece in front of the length of the bytecode, bc_len, or one behind it, *)
(* which has that length or a part of it that is not zero.                 *)
PieceOf == {"path", "head", "code"}
Piece(k) == [kind |-> "piece", value |-> k]
Pieces == {Piece(k) : k \in PieceOf}
Remains(f) == IF f.kind = "path" THEN {Piece("path")}
              ELSE {Piece("head"), Piece("code")}

Known(m) == {p \in Players : m[p] # "none"}
Broken(m) == {p \in Players : m[p] = "broken"}

Init ==
  /\ phase = "off" /\ map = [p \in Players |-> "none"]
  /\ exists = FALSE /\ file = <<>> /\ todo = {} /\ starts = 0
  /\ saved = [p \in Players |-> "none"] /\ torn = FALSE /\ tears = 0

-----------------------------------------------------------------------------
(* Loading.                                                                *)

TooLongOrNone == Players  \* mutant: the length of a path is not tested
Readable == Players \ Long

(* The loader gives up at the first path that is incomplete or does not    *)
(* fit its buffer.                                                         *)
Reached(i) ==
  /\ 2 * i - 1 <= Len(file)
  /\ \A j \in 1..i : /\ file[2 * j - 1].kind = "path"
                     /\ file[2 * j - 1].value \in Readable

(* Where the file ends in front of bc_len it is still the 0 that           *)
(* ytdl_sig_actions_init has set, and js_malloc is asked for no bytes,     *)
(* which fails an assertion of QuickJS.                                    *)
Sizeless(i) == 2 * i > Len(file) \/ file[2 * i] = Piece("head")

(* Otherwise the actions behind a path are taken as they are: bytecode     *)
(* that is missing was not read into its memory, and the result of reading *)
(* it is ignored.                                                          *)
ytdl_sig_actions_load_file(i) ==
  IF file[2 * i].kind = "actions" THEN file[2 * i].value ELSE "broken"

Entries(p) == {i \in 1..Len(file) : Reached(i) /\ file[2 * i - 1].value = p}

ytdl_dl_player_cache_load_file ==
  [p \in Players |-> IF Entries(p) = {} THEN "none"
     ELSE LET i == CHOOSE i \in Entries(p) : TRUE IN
          ytdl_sig_actions_load_file(i)]

NoPlayers == [p \in Players |-> "none"]

Aborts == exists /\ \E i \in 1..Len(file) : Reached(i) /\ Sizeless(i)

(* The program starts with an empty map and reads the file if there is one. *)
main ==
  /\ phase \in {"off", "aborted"} /\ starts < MaxStarts
  /\ starts' = starts + 1
  /\ IF Aborts
       THEN phase' = "aborted" /\ map' = NoPlayers
       ELSE /\ phase' = "fresh"
            /\ map' = IF exists THEN ytdl_dl_player_cache_load_file ELSE NoPlayers
  /\ UNCHANGED <<exists, file, todo, history>>

-----------------------------------------------------------------------------
(* A run.                                                                  *)

(* A video needs the player p: it is downloaded unless the map has it.     *)
ytdl__player_js_complete(p) ==
  /\ phase \in {"fresh", "busy"}
  /\ map[p] = "none"
  /\ phase' = "busy"
  /\ map' = [map EXCEPT ![p] = "good"]
  /\ UNCHANGED <<exists, file, todo, starts, history>>

Truncated == <<>>

(* The last video of the command line opens the file for writing.          *)
ytdl__info_complete_final ==
  /\ phase \in {"fresh", "busy"}
  /\ phase' = "saving"
  /\ exists' = TRUE /\ file' = Truncated
  /\ todo' = Known(map)
  /\ saved' = map
  /\ UNCHANGED <<map, starts, torn, tears>>

ActionsFirst(p) == <<Actions(map[p]), Path(p)>>  \* mutant: swapped order
Entry(p) == <<Path(p), Actions(map[p])>>

(* The map is walked in the order of its table.                            *)
ytdl_dl_player_cache_save_file(p) ==
  /\ phase = "saving" /\ p \in todo
  /\ file' = file \o Entry(p)
  /\ todo' = todo \ {p}
  /\ UNCHANGED <<phase, map, exists, starts, history>>

Closed ==
  /\ phase = "saving" /\ todo = {}
  /\ phase' = "off" /\ torn' = FALSE
  /\ UNCHANGED <<map, exists, file, todo, starts, saved, tears>>

(* The disk has the first n fields and perhaps a piece of the next: the    *)
(* program ended in the middle of the save, or a write failed, which is    *)
(* not looked at.                                                          *)
Torn ==
  /\ phase = "saving"
  /\ \E n \in 0..Len(file) :
       \/ file' = SubSeq(file, 1, n)
       \/ /\ n < Len(file)
          /\ \E piece \in Remains(file[n + 1]) :
               file' = Append(SubSeq(file, 1, n), piece)
  /\ phase' = "off" /\ todo' = {}
  /\ torn' = TRUE /\ tears' = tears + 1
  /\ UNCHANGED <<map, exists, starts, saved>>

(* The program ends before the save, for one because the last video was    *)
(* not answered.                                                           *)
Ended ==
  /\ phase \in {"fresh", "busy"}
  /\ phase' = "off"
  /\ UNCHANGED <<map, exists, file, todo, starts, history>>

Next ==
  \/ main \/ ytdl__info_complete_final \/ Closed \/ Torn \/ Ended
  \/ \E p \in Players : \/ ytdl__player_js_complete(p)
                        \/ ytdl_dl_player_cache_save_file(p)

Spec == Init /\ [][Next]_vars

-----------------------------------------------------------------------------
(* Properties.                                                             *)

Fields == [kind : {"path"}, value : Players]
          \cup [kind : {"actions"}, value : {"good", "broken"}] \cup Pieces

(* Every variable stays in its domain.                                     *)
TypeOK ==
  /\ phase \in {"off", "fresh", "aborted", "busy", "saving"}
  /\ map \in [Players -> States] /\ saved \in [Players -> States]
  /\ exists \in BOOLEAN /\ file \in Seq(Fields)
  /\ Len(file) <= 2 * Cardinality(Players)
  /\ todo \subseteq Players /\ starts \in 0..MaxStarts
  /\ torn \in BOOLEAN /\ tears \in 0..MaxStarts

(* What a save wrote to the end is what the next start finds, if no path   *)
(* is too long for the loader.                                             *)
SavedIsLoaded ==
  (phase = "fresh" /\ ~torn /\ Known(saved) \cap Long = {}) => map = saved

(* A start aborts only after a torn save.  Whatever became of the last     *)
(* save, a start that survives the load finds nothing but what was saved,  *)
(* with at most the one player broken at which the file ends, and never    *)
(* one with a path that does not fit the loader's buffer; and each torn    *)
(* save breaks at most one player: the fields that follow a broken one are *)
(* still read where they were written.                                     *)
NothingInvented ==
  /\ TypeOK
  /\ phase = "aborted" => torn
  /\ phase = "fresh" =>
       /\ Known(map) \subseteq Known(saved) \ Long
       /\ Cardinality({p \in Known(map) : map[p] # saved[p]})
            <= IF torn THEN 1 ELSE 0
  /\ Cardinality(Broken(map)) <= tears
=============================================================================
