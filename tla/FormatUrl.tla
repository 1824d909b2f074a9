----------------------------- MODULE FormatUrl -----------------------------
(***************************************************************************)
(* From a player and a list of formats to the addresses of the two media   *)
(* downloads: the part of ytdl__info_complete of src/cli.c for a video     *)
(* without a DASH manifest, with the choice of formats and the completion  *)
(* of their addresses in src/info.c and the signature actions of           *)
(* SigActions.                                                             *)
(*                                                                         *)
(* An address is either complete (plain), but for its parameter n, or the  *)
(* parts of a cipher with a signature to decipher.                         *)
(***************************************************************************)
EXTENDS SigActions, Integers

CONSTANTS
  Cases  \* inputs: records of a player js and a sequence of formats

Format ==
  [vid : BOOLEAN, aud : BOOLEAN, width : Nat, fps : Nat, bitrate : Nat,
   channels : Nat, audio_quality : Nat, cipher : BOOLEAN,
   parts : SUBSET {"s", "sp", "url"}, plain : BOOLEAN, sig : Seq(Chars),
   slack : Nat, n : BOOLEAN]

ASSUME CasesAssumption ==
  Cases \subseteq [js : Players, formats : Seq(Format)]

VARIABLES
  js,        \* the player's JavaScript
  formats,   \* info->formats, populated
  verbose,   \* addresses are logged
  stage,     \* what the program does next
  actions,   \* info->sig_actions
  chosen,    \* vid_fmt and aud_fmt, positions in formats
  url,       \* format->url, for each format
  requested  \* format_url of the two download contexts

address_vars == <<js, formats, verbose, stage, actions, chosen, url, requested>>

Streams == {"video", "audio"}
Parts == {"s", "sp", "url"}

(* sig is the text of the signature in the address, calls is how often the *)
(* player's function was applied to the parameter n.                       *)
NoUrl == [kind |-> "none", sig |-> <<>>, calls |-> 0]

AddressInit ==
  /\ \E case \in Cases : js = case.js /\ formats = case.formats
  /\ verbose \in BOOLEAN
  /\ stage = "player" /\ actions = <<>>
  /\ chosen = [s \in Streams |-> 1]
  /\ url = [i \in DOMAIN formats |-> NoUrl]
  /\ requested = [s \in Streams |-> NoUrl]

(* A player whose actions cannot be extracted leaves the video without an  *)
(* answer (ytdl__player_js_complete).                                      *)
Extract ==
  /\ stage = "player"
  /\ IF Succeeds(js)
       THEN stage' = "choose" /\ actions' = ytdl_sig_actions_extract(js)
       ELSE stage' = "failed" /\ UNCHANGED actions
  /\ UNCHANGED <<js, formats, verbose, chosen, url, requested>>

-----------------------------------------------------------------------------
(* The choice of formats.                                                  *)

Size(f) == f.width + f.fps + f.bitrate

(* The flags for audio and video have no bit in common: their conjunction  *)
(* is never set, and every format with video starts with the same score.   *)
VideoScore(f) == 2 + Size(f)

(* Scores of audio formats are compared downwards: a format that has video *)
(* too is never below the first score.                                     *)
AudioScore(f) ==
  IF f.vid THEN 2 + Size(f)
  ELSE -((f.bitrate * f.channels) \div f.audio_quality)

(* The first format stands for none.                                       *)
FirstChoice == [idx |-> 1, score |-> 0]
Better(best, i) ==
  IF formats[i].vid /\ VideoScore(formats[i]) > best.score
    THEN [idx |-> i, score |-> VideoScore(formats[i])] ELSE best
BetterUpwards(best, i) ==  \* mutant: the comparison of the video formats
  IF formats[i].aud /\ AudioScore(formats[i]) > best.score
    THEN [idx |-> i, score |-> AudioScore(formats[i])] ELSE best
BetterAudio(best, i) ==
  IF formats[i].aud /\ AudioScore(formats[i]) < best.score
    THEN [idx |-> i, score |-> AudioScore(formats[i])] ELSE best

VideoScan ==
  LET best[i \in 0..Len(formats)] ==
        IF i = 0 THEN FirstChoice ELSE Better(best[i - 1], i)
  IN  best
AudioScan ==
  LET best[i \in 0..Len(formats)] ==
        IF i = 0 THEN FirstChoice ELSE BetterAudio(best[i - 1], i)
  IN  best

ytdl_info_get_best_video_format == VideoScan[Len(formats)].idx
ytdl_info_get_best_audio_format == AudioScan[Len(formats)].idx

DividesByZero(f) == f.aud /\ ~f.vid /\ f.audio_quality = 0

(* Without formats there is no array of them, and no test for it.          *)
Choose ==
  /\ stage = "choose"
  /\ IF formats = <<>> \/ \E i \in DOMAIN formats : DividesByZero(formats[i])
       THEN stage' = "crashed" /\ UNCHANGED chosen
       ELSE /\ chosen' = [s \in Streams |->
                 IF s = "video" THEN ytdl_info_get_best_video_format
                                ELSE ytdl_info_get_best_audio_format]
            /\ stage' = IF verbose THEN "log video" ELSE "init video"
  /\ UNCHANGED <<js, formats, verbose, actions, url, requested>>

-----------------------------------------------------------------------------
(* The address of a format: ytdl_info_get_format_url2.                     *)

PlainOnly(f) ==  \* mutant: the branches for the two kinds are swapped
  IF f.plain THEN [kind |-> "plain", sig |-> <<>>, calls |-> 0] ELSE NoUrl

Built(f) ==
  CASE f.cipher /\ f.parts = Parts ->
         [kind |-> "signed", sig |-> Deciphered(actions, f.sig, f.slack), calls |-> 0]
    [] ~f.cipher /\ f.plain -> [kind |-> "plain", sig |-> <<>>, calls |-> 0]
    [] OTHER -> NoUrl

(* The player's function throws if there is no parameter n, and the        *)
(* address stays as it is.                                                 *)
CallFunc(f, u) == IF f.n THEN [u EXCEPT !.calls = @ + 1] ELSE u

Cached(i) == url[i]

ytdl_info_get_format_url2(i) ==
  IF url[i] # NoUrl THEN Cached(i)
  ELSE LET u == Built(formats[i]) IN
       IF u = NoUrl THEN NoUrl ELSE CallFunc(formats[i], u)

(* What becomes of the program after it has written outside of a buffer is *)
(* not followed.                                                           *)
IsCorrupt(u) == u.sig = Corrupt

After == [p \in {"log video", "log audio", "init video", "init audio"} |->
  CASE p = "log video" -> "log audio" [] p = "log audio" -> "init video"
    [] p = "init video" -> "init audio" [] OTHER -> "done"]

(* The debug output asks for both addresses before the downloads do.       *)
Log(s) ==
  LET i == chosen[s]
      u == ytdl_info_get_format_url2(i)
  IN
  /\ stage = (IF s = "video" THEN "log video" ELSE "log audio")
  /\ IF IsCorrupt(u) THEN stage' = "crashed" /\ UNCHANGED url
       ELSE stage' = After[stage] /\ url' = [url EXCEPT ![i] = u]
  /\ UNCHANGED <<js, formats, verbose, actions, chosen, requested>>

(* An address that could not be built is copied like any other.            *)
ytdl_dl_media_ctx_init(s) ==
  LET i == chosen[s]
      u == ytdl_info_get_format_url2(i)
  IN
  /\ stage = (IF s = "video" THEN "init video" ELSE "init audio")
  /\ IF IsCorrupt(u) \/ u = NoUrl
       THEN stage' = "crashed" /\ UNCHANGED <<url, requested>>
       ELSE /\ stage' = After[stage]
            /\ url' = [url EXCEPT ![i] = u]
            /\ requested' = [requested EXCEPT ![s] = u]
  /\ UNCHANGED <<js, formats, verbose, actions, chosen>>

AddressNext ==
  \/ Extract \/ Choose
  \/ \E s \in Streams : Log(s) \/ ytdl_dl_media_ctx_init(s)

AddressSpec == AddressInit /\ [][AddressNext]_address_vars

-----------------------------------------------------------------------------
(* Properties.                                                             *)

IsRequested(s) == requested[s] # NoUrl
Requested(s) == formats[chosen[s]]

(* The signature a download asks with is the one the player's own code     *)
(* would have computed, and the function for the parameter n was applied   *)
(* to it exactly once however often the address was asked for, for every   *)
(* player laid out as the code expects and a signature as long as its      *)
(* calls need (ytdl_sig_actions_extract, ytdl_info_get_format_url2).       *)
DecipheredAsPlayer ==
  \A s \in Streams : IsRequested(s) =>
    /\ (Requested(s).cipher /\ IsPlain(js) /\ FitsLength(js, Requested(s).sig))
         => requested[s].sig = PlayerDeciphered(js, Requested(s).sig)
    /\ requested[s].calls = IF Requested(s).n THEN 1 ELSE 0

(* The formats that are downloaded are the best of the list: a video       *)
(* format whenever there is one, that no other one surpasses; of the       *)
(* formats without video the one with the highest rate for its quality, if *)
(* any has a rate; otherwise the first format of the list, whatever it is. *)
AudioOnly(f) == f.aud /\ ~f.vid
Rate(f) == (f.bitrate * f.channels) \div f.audio_quality
ChosenIsBest ==
  stage \in DOMAIN After \cup {"done"} =>
    LET v == formats[chosen["video"]]
        a == formats[chosen["audio"]]
        all == {formats[i] : i \in DOMAIN formats}
    IN  /\ (\E f \in all : f.vid) =>
             v.vid /\ \A f \in all : f.vid => Size(f) <= Size(v)
        /\ IF \E f \in all : AudioOnly(f) /\ Rate(f) > 0
             THEN /\ AudioOnly(a)
                  /\ \A f \in all : AudioOnly(f) => Rate(f) <= Rate(a)
             ELSE chosen["audio"] = 1

(* A player and a list of formats that are as the code expects never make  *)
(* the program leave a buffer, follow a null pointer or divide by zero.    *)
IsSound(f) ==
  /\ ~DividesByZero(f)
  /\ IF f.cipher THEN f.parts = Parts /\ FitsLength(js, f.sig) ELSE f.plain
SoundInputSurvives ==
  stage = "crashed" =>
    \/ formats = <<>> \/ ~IsPlain(js)
    \/ \E i \in DOMAIN formats : ~IsSound(formats[i])
=============================================================================
