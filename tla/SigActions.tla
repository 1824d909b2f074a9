----------------------------- MODULE SigActions -----------------------------
(***************************************************************************)
(* The signature actions of src/sig.c and src/info.c: how the steps that   *)
(* decipher a signature are read from a player's JavaScript, and how they  *)
(* are applied to a signature in a C buffer, next to what the JavaScript   *)
(* itself would do.                                                        *)
(*                                                                         *)
(* Of the JavaScript, two texts that src/regexc.c has regular expressions  *)
(* for are looked at: an object of helper functions and the function that  *)
(* calls them.  A helper is a record of its name, what it does, whether    *)
(* its name is in quotes and whether a line ends behind it; a call is a    *)
(* record of a name and a number.                                          *)
(***************************************************************************)
EXTENDS Naturals, Sequences, SequencesExt

CONSTANTS
  YTDL_MAX_SIG,  \* room for actions
  Names,         \* names of helpers
  Chars          \* characters of a signature

NUL == "NUL"
Corrupt == <<"corrupt">>  \* a buffer the code has left

(* A signature is a C string.                                              *)
ASSUME SigAssumption ==
  YTDL_MAX_SIG \in Nat /\ NUL \notin Chars /\ Corrupt[1] \notin Chars

Kinds == {"swap", "splice", "slice", "reverse"}

(* The helpers of an object have different names.                          *)
Players ==
  {js \in [object : Seq([name : Names, kind : Kinds,
                         quoted : BOOLEAN, newline : BOOLEAN]),
           calls : Seq([name : Names, arg : Nat]), n : BOOLEAN] :
     \A i, j \in DOMAIN js.object :
       js.object[i].name = js.object[j].name => i = j}

-----------------------------------------------------------------------------
(* Extraction: ytdl_sig_actions_extract.                                   *)

(* The name of a helper is taken to be what lies between the last end of a *)
(* line and the colon, quotes included.                                    *)
Legible(object, i) == ~object[i].quoted /\ (i = 1 \/ object[i - 1].newline)

(* The name by which helpers of a kind are known: the last one's, if it    *)
(* was read as it is written.                                              *)
NamesOf(object, kind) ==
  {object[i].name : i \in {j \in DOMAIN object :
     /\ object[j].kind = kind /\ Legible(object, j)
     /\ \A k \in j + 1..Len(object) : object[k].kind # kind}}

KindOf(object, name) == CHOOSE k \in Kinds : name \in NamesOf(object, k)
IsKnown(object, call) == \E k \in Kinds : call.name \in NamesOf(object, k)

ActionOf(object, call) ==
  LET kind == KindOf(object, call.name) IN
  [kind |-> kind, arg |-> IF kind = "reverse" THEN 0 ELSE call.arg]

(* The table after each call; one of a name that is not known is passed    *)
(* over.                                                                   *)
Tables(js) ==
  LET after[i \in 0..Len(js.calls)] ==
        IF i = 0 THEN <<>>
        ELSE IF IsKnown(js.object, js.calls[i])
          THEN Append(after[i - 1], ActionOf(js.object, js.calls[i]))
          ELSE after[i - 1]
  IN  after

(* A full table is noticed at the next call, known or not.                 *)
Overflows(js) ==
  js.calls # <<>> /\ Len(Tables(js)[Len(js.calls) - 1]) >= YTDL_MAX_SIG

(* The extraction fails too if the function for the parameter n is not     *)
(* found or not compiled (js.n is FALSE).                                  *)
Succeeds(js) == ~Overflows(js) /\ js.n
ytdl_sig_actions_extract(js) == Tables(js)[Len(js.calls)]

-----------------------------------------------------------------------------
(* Application: the loop of ytdl_info_get_format_url2.  The buffer is a    *)
(* sequence whose element i + 1 is the C array's i; it ends with a NUL and *)
(* is Corrupt once the code has left it.                                   *)

(* The buffer has the size of the encoded signature, slack bytes more than *)
(* the decoded one needs.                                                  *)
Buffer(sig, slack) == sig \o [i \in 1..slack + 1 |-> NUL]
strlen(b) == (CHOOSE i \in DOMAIN b : b[i] = NUL /\ \A j \in 1..i - 1 : b[j] # NUL)
             - 1
Text(b) == SubSeq(b, 1, strlen(b))
IsString(b) == \E i \in DOMAIN b : b[i] = NUL

ytdl__strrev(b) ==
  LET n == strlen(b) IN
  [i \in DOMAIN b |-> IF i <= n THEN b[n + 1 - i] ELSE b[i]]

(* The argument is reduced by the length where the code reads, and not     *)
(* where it writes.                                                        *)
Swap(b, arg) ==
  IF strlen(b) = 0 \/ arg >= Len(b) THEN Corrupt
  ELSE [b EXCEPT ![1] = b[(arg % strlen(b)) + 1], ![arg + 1] = b[1]]

WithoutNul(b, arg) == strlen(b) - arg  \* mutant: one byte too few is moved
MovedBytes(b, arg) == strlen(b) - arg + 1

(* The bytes behind the cut are moved to the front, the NUL with them.     *)
(* Their number is unsigned: a cut behind the NUL makes it huge.           *)
Splice(b, arg) ==
  IF arg > strlen(b) + 1 THEN Corrupt
  ELSE [i \in DOMAIN b |-> IF i <= MovedBytes(b, arg) THEN b[i + arg] ELSE b[i]]

Applied(b, action) ==
  IF b = Corrupt \/ ~IsString(b) THEN Corrupt
  ELSE CASE action.kind = "reverse" -> ytdl__strrev(b)
         [] action.kind = "swap" -> Swap(b, action.arg)
         [] OTHER -> Splice(b, action.arg)

Buffers(actions, sig, slack) ==
  LET after[i \in 0..Len(actions)] ==
        IF i = 0 THEN Buffer(sig, slack) ELSE Applied(after[i - 1], actions[i])
  IN  after

Deciphered(actions, sig, slack) ==
  LET b == Buffers(actions, sig, slack)[Len(actions)] IN
  IF IsString(b) THEN Text(b) ELSE Corrupt

-----------------------------------------------------------------------------
(* What the player's own code does with an array of characters.            *)

Helper(object, name) == CHOOSE h \in {object[i] : i \in DOMAIN object} : h.name = name

PlayerCall(object, s, call) ==
  LET kind == Helper(object, call.name).kind
      at == (call.arg % Len(s)) + 1
  IN  CASE kind = "reverse" -> Reverse(s)
        [] kind = "swap" -> [s EXCEPT ![1] = s[at], ![at] = s[1]]
        [] OTHER -> SubSeq(s, call.arg + 1, Len(s))

PlayerTexts(js, sig) ==
  LET after[i \in 0..Len(js.calls)] ==
        IF i = 0 THEN sig ELSE PlayerCall(js.object, after[i - 1], js.calls[i])
  IN  after

PlayerDeciphered(js, sig) == PlayerTexts(js, sig)[Len(js.calls)]

(* A player as the code expects it: every helper that is called is the     *)
(* last of its kind and stands on a line of its own, without quotes.       *)
IsPlain(js) == \A i \in DOMAIN js.calls : IsKnown(js.object, js.calls[i])

(* No call swaps with a character behind the end of what is left of the    *)
(* signature, or cuts off more than is left.                               *)
FitsLength(js, sig) ==
  \A i \in DOMAIN js.calls :
    LET call == js.calls[i]
        left == Len(PlayerTexts(js, sig)[i - 1])
        kind == Helper(js.object, call.name).kind
    IN  CASE kind = "swap" -> call.arg < left
          [] kind = "reverse" -> TRUE
          [] OTHER -> call.arg <= left
=============================================================================
