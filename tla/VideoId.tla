------------------------------ MODULE VideoId ------------------------------
(***************************************************************************)
(* ytdl_net_get_id_from_url of src/net.c: the id of a video is looked for  *)
(* in the path and the query of a URL that UrlParser has taken apart.      *)
(***************************************************************************)
EXTENDS UrlParser

CONSTANTS
  Hosts,        \* yt_hosts
  YTDL_ID_LEN   \* length of an id

ASSUME IdAssumption == YTDL_ID_LEN \in Nat \ {0}

VARIABLES
  answer,  \* "none", "invalid" (-1), "unmatched" (1) or "matched" (0)
  id       \* the id that was found

vars == <<url_vars, answer, id>>

Init == UrlInit /\ answer = "none" /\ id = <<>>

yt_valid_id_map == AlphaNum \cup {"-", "_"}
AllValid(chars) == \A i \in DOMAIN chars : chars[i] \in yt_valid_id_map

(* Characters are fetched by their offset; behind the last one is a NUL.   *)
Fetch(off, n) ==
  [i \in 1..n |-> IF off + i <= Len(text) THEN text[off + i] ELSE "NUL"]

(* strncmp over the length of the host: the beginning of a known host, or  *)
(* none at all, passes.                                                    *)
ValidHost == \E host \in Hosts : IsPrefix(TextOf("host"), host)

HeadOf(path) == Fetch(path.off + 1, YTDL_ID_LEN)  \* mutant: the other end is copied
TailOf(path) == Fetch(path.off + path.len - YTDL_ID_LEN, YTDL_ID_LEN)

(* The path is long enough, has a slash in front of its last characters,   *)
(* and the characters behind its first slash are those of an id.           *)
PathHasId ==
  LET path == field["path"] IN
  /\ path.len >= YTDL_ID_LEN + 1
  /\ Fetch(path.off + path.len - YTDL_ID_LEN - 1, 1) = <<"/">>
  /\ AllValid(Fetch(path.off + 1, YTDL_ID_LEN))

(* Places of the query where v= is looked for, the first of them first.    *)
(* The last place leaves one character too few for an id.                  *)
Places == 0..field["query"].len - YTDL_ID_LEN - 1
IsMark(x) == Fetch(field["query"].off + x, 2) = <<"v", "=">>
Marks ==
  IF field["query"].len < YTDL_ID_LEN + 2 THEN {} ELSE {x \in Places : IsMark(x)}
FirstMark == CHOOSE x \in Marks : \A y \in Marks : x <= y
QueryId == Fetch(field["query"].off + FirstMark + 2, YTDL_ID_LEN)

Answer(a, chars) == answer' = a /\ id' = chars

ytdl_net_get_id_from_url ==
  /\ phase \in {"parsed", "error"} /\ answer = "none"
  /\ IF phase = "error" THEN Answer("invalid", <<>>)
     ELSE IF ~ValidHost THEN Answer("unmatched", <<>>)
     ELSE IF PathHasId THEN Answer("matched", TailOf(field["path"]))
     ELSE IF Marks # {} /\ AllValid(QueryId) THEN Answer("matched", QueryId)
     ELSE Answer("unmatched", <<>>)
  /\ UNCHANGED url_vars

Next ==
  \/ UrlNext /\ UNCHANGED <<answer, id>>
  \/ ytdl_net_get_id_from_url

Spec == Init /\ [][Next]_vars

-----------------------------------------------------------------------------
(* Properties.                                                             *)

Path == AsWritten("path")
HasSegments == \E i \in 2..Len(Path) : Path[i] = "/"
Mark == <<"v", "=">>
Drop(chars, n) == SubSeq(chars, n + 1, Len(chars))

(* The URL of a video in one of its two usual forms: the id is the path or *)
(* the first parameter behind a shorter path.                              *)
NamesVideo(chars) ==
  /\ Len(chars) = YTDL_ID_LEN /\ AllValid(chars)
  /\ AsWritten("host") \in Hosts
  /\ \/ Path = <<"/">> \o chars
     \/ Len(Path) <= YTDL_ID_LEN /\ IsPrefix(Mark \o chars, AsWritten("query"))

(* An id that is returned stands in the URL, behind the last slash of the  *)
(* path or behind v= in the query, and its characters are those of an id   *)
(* unless the path has several segments; and the id of a URL in its usual  *)
(* form is found.  URLs too long for the offsets are exempt                *)
(* (ytdl_net_get_id_from_url).                                             *)
IdAsWritten ==
  (answer # "none" /\ phase = "parsed" /\ Len(text) < Width) =>
    /\ answer = "matched" =>
         /\ Len(id) = YTDL_ID_LEN
         /\ \/ IsSuffix(<<"/">> \o id, Path)
            \/ \E i \in DOMAIN AsWritten("query") :
                 IsPrefix(Mark \o id, Drop(AsWritten("query"), i - 1))
         /\ AllValid(id) \/ HasSegments
    /\ \A chars \in {SubSeq(text, i, i + YTDL_ID_LEN - 1) :
                       i \in 1..Len(text) + 1 - YTDL_ID_LEN} :
         NamesVideo(chars) => answer = "matched" /\ id = chars
=============================================================================
