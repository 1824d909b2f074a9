----------------------------- MODULE UrlParser -----------------------------
(***************************************************************************)
(* http_parser_parse_url of src/url_parser.c, as the library calls it (not *)
(* for CONNECT): a URL is read character by character by one automaton,    *)
(* then its authority once more by another.  A field is an offset and a    *)
(* length of sixteen bits.                                                 *)
(*                                                                         *)
(* The URL is chosen while it is read: at each place one of the characters *)
(* the template allows, or its end.                                        *)
(***************************************************************************)
EXTENDS Naturals, Sequences, SequencesExt

CONSTANTS
  Characters,  \* what a URL may consist of
  Templates,   \* sequences of sets of characters
  Width,       \* a uint16_t is below it
  PortMax      \* greatest port

ASSUME UrlAssumption ==
  /\ Templates \subseteq Seq(SUBSET Characters)
  /\ Width \in Nat \ {0} /\ PortMax \in Nat

VARIABLES
  template,   \* what the URL may look like
  text,       \* its characters up to here
  phase,      \* "url", "host", "parsed", "error"
  s,          \* state of the automaton that runs
  old_uf,     \* the field being read
  found_at,   \* an @ was read in the authority
  field_set,  \* fields that were found
  field,      \* field_data
  at, end,    \* of the second automaton: where it is, where it ends
  port        \* the port as a number

url_vars == <<template, text, phase, s, old_uf, found_at, field_set, field,
              at, end, port>>

Fields == {"schema", "userinfo", "host", "port", "path", "query", "fragment"}

(* One character for each class that the code tells apart.                 *)
Digits == {"1"}
Hex == {"a"} \cup Digits
Alpha == {"a", "v"}
AlphaNum == Alpha \cup Digits
HostChars == AlphaNum \cup {".", "-"}
ZoneChars == HostChars \cup {"_", "~", "%"}
UserinfoChars == ZoneChars \cup {":", "=", "*"}
UrlChars == UserinfoChars \cup {"/", "@", "[", "]", "|"}

Move(from, on, to) == [from |-> from, on |-> on, to |-> to]
Moved(moves, state, ch) ==
  IF \E m \in moves : state \in m.from /\ ch \in m.on
    THEN (CHOOSE m \in moves : state \in m.from /\ ch \in m.on).to
    ELSE "dead"

Server == {"server_start", "server", "server_with_at"}
Query == {"query_string_start", "query_string"}

parse_url_char == {
  Move({"before_url"}, {"/", "*"}, "path"),
  Move({"before_url", "schema"}, Alpha, "schema"),
  Move({"schema"}, {":"}, "schema_slash"),
  Move({"schema_slash"}, {"/"}, "schema_slash_slash"),
  Move({"schema_slash_slash"}, {"/"}, "server_start"),
  Move(Server, {"/"}, "path"),
  Move(Server, {"?"}, "query_string_start"),
  Move(Server \ {"server_with_at"}, {"@"}, "server_with_at"),
  Move(Server, UserinfoChars \cup {"[", "]"}, "server"),
  Move({"path"}, UrlChars, "path"),
  Move({"path"}, {"?"}, "query_string_start"),
  Move({"path"} \cup Query, {"#"}, "fragment_start"),
  Move(Query, UrlChars \cup {"?"}, "query_string"),
  Move({"fragment_start"}, {"#"}, "fragment_start"),
  Move({"fragment"}, {"#"}, "fragment"),
  Move({"fragment_start", "fragment"}, UrlChars \cup {"?"}, "fragment")}

http_parse_host_char == {
  Move({"userinfo_start", "userinfo"}, {"@"}, "host_start"),
  Move({"userinfo_start", "userinfo"}, UserinfoChars, "userinfo"),
  Move({"host_start"}, {"["}, "v6_start"),
  Move({"host_start", "host"}, HostChars, "host"),
  Move({"host", "v6_end"}, {":"}, "port_start"),
  Move({"v6", "zone"}, {"]"}, "v6_end"),
  Move({"v6_start", "v6"}, Hex \cup {":", "."}, "v6"),
  Move({"v6"}, {"%"}, "zone_start"),
  Move({"zone_start", "zone"}, ZoneChars, "zone"),
  Move({"port_start", "port"}, Digits, "port")}

(* The field a state belongs to; states that are not listed are delimiters.*)
UrlField ==
  [schema |-> "schema", server |-> "host", server_with_at |-> "host",
   path |-> "path", query_string |-> "query", fragment |-> "fragment"]
HostField ==
  [userinfo |-> "userinfo", host |-> "host", v6 |-> "host",
   zone_start |-> "host", zone |-> "host", port |-> "port"]

NoField == [off |-> 0, len |-> 0]

StartedBehind(i) == [off |-> (i + 1) % Width, len |-> 1]  \* mutant: off by one
Started(i) == [off |-> i % Width, len |-> 1]
Longer(f) == [f EXCEPT !.len = (@ + 1) % Width]

-----------------------------------------------------------------------------
UrlInit ==
  /\ template \in Templates
  /\ text = <<>> /\ phase = "url" /\ s = "before_url"
  /\ old_uf = "none" /\ found_at = FALSE
  /\ field_set = {} /\ field = [f \in Fields |-> NoField]
  /\ at = 0 /\ end = 0 /\ port = 0

Fail ==
  /\ phase' = "error"
  /\ UNCHANGED <<s, old_uf, found_at, field_set, field, at, end, port>>

(* A character of the URL.                                                 *)
ReadUrl(ch) ==
  LET next == Moved(parse_url_char, s, ch)
      uf == UrlField[next]
  IN
  /\ phase = "url" /\ Len(text) < Len(template)
  /\ ch \in template[Len(text) + 1]
  /\ text' = Append(text, ch)
  /\ UNCHANGED template
  /\ IF next = "dead" THEN Fail
     ELSE /\ s' = next
          /\ found_at' = (found_at \/ next = "server_with_at")
          /\ IF next \notin DOMAIN UrlField THEN UNCHANGED <<old_uf, field_set, field>>
             ELSE /\ old_uf' = uf
                  /\ field_set' = field_set \cup {uf}
                  /\ field' = [field EXCEPT ![uf] =
                                 IF uf = old_uf THEN Longer(@) ELSE Started(Len(text))]
          /\ UNCHANGED <<phase, at, end, port>>

Emptied(f) == [f EXCEPT !.len = 0]

(* The end of the URL.                                                     *)
EndUrl ==
  LET host == field["host"] IN
  /\ phase = "url"
  /\ UNCHANGED <<template, text>>
  /\ IF text = <<>> \/ ("schema" \in field_set /\ "host" \notin field_set) THEN Fail
     ELSE /\ IF "host" \in field_set
               THEN /\ phase' = "host"
                    /\ s' = IF found_at THEN "userinfo_start" ELSE "host_start"
                    /\ at' = host.off /\ end' = host.off + host.len
                    /\ field' = [field EXCEPT !["host"] = Emptied(@)]
               ELSE phase' = "parsed" /\ UNCHANGED <<s, at, end, field>>
          /\ UNCHANGED <<old_uf, found_at, field_set, port>>

(* A field that is entered starts there, but for the length of the host,   *)
(* which goes on in a zone.                                                *)
Entered(f, uf) == IF uf = "host" THEN [Longer(f) EXCEPT !.off = at % Width]
                                 ELSE Started(at)
ZoneSkipped(f, uf, next) ==  \* mutant: a zone does not belong to the host
  IF next \in {"zone_start", "zone"} THEN f
  ELSE IF s = next THEN Longer(f) ELSE Entered(f, uf)
Extended(f, uf, next) ==
  IF s = next \/ next \in {"zone_start", "zone"} THEN Longer(f) ELSE Entered(f, uf)

(* A character of the authority.                                           *)
ReadHost ==
  LET next == Moved(http_parse_host_char, s, text[at + 1])
      uf == HostField[next]
  IN
  /\ phase = "host" /\ at < end
  /\ UNCHANGED <<template, text>>
  /\ IF next = "dead" THEN Fail
     ELSE /\ s' = next /\ at' = at + 1
          /\ IF next \notin DOMAIN HostField THEN UNCHANGED <<field_set, field>>
             ELSE /\ field_set' = field_set \cup {uf}
                  /\ field' = [field EXCEPT ![uf] = Extended(@, uf, next)]
          /\ UNCHANGED <<phase, old_uf, found_at, end, port>>

TextOf(f) == SubSeq(text, field[f].off + 1, field[f].off + field[f].len)
Number(digits) ==
  LET value[i \in 0..Len(digits)] == IF i = 0 THEN 0 ELSE value[i - 1] * 10 + 1
  IN  value[Len(digits)]

(* The end of the authority, and the conversion of the port.               *)
EndHost ==
  /\ phase = "host" /\ at = end
  /\ UNCHANGED <<template, text>>
  /\ IF \/ s \notin {"host", "v6_end", "port"}
        \/ Number(TextOf("port")) > PortMax
       THEN Fail
       ELSE /\ phase' = "parsed" /\ port' = Number(TextOf("port"))
            /\ UNCHANGED <<s, old_uf, found_at, field_set, field, at, end>>

UrlNext ==
  \/ Len(text) < Len(template) /\ \E ch \in template[Len(text) + 1] : ReadUrl(ch)
  \/ EndUrl \/ ReadHost \/ EndHost

-----------------------------------------------------------------------------
(* What a URL says, read from its delimiters.                              *)

FirstIn(chars, i) ==
  CHOOSE j \in i..Len(text) + 1 :
    /\ j = Len(text) + 1 \/ text[j] \in chars
    /\ \A k \in i..j - 1 : text[k] \notin chars

HasSchema == text[1] \in Alpha
AuthorityFrom == IF HasSchema THEN FirstIn({":"}, 1) + 3 ELSE 1
AuthorityTo == IF HasSchema THEN FirstIn({"/", "?"}, AuthorityFrom) ELSE 1
HostFrom ==
  CHOOSE i \in AuthorityFrom..AuthorityTo :
    /\ i = AuthorityFrom \/ text[i - 1] = "@"
    /\ \A k \in i..AuthorityTo - 1 : text[k] # "@"
Bracket == IF HasSchema /\ text[HostFrom] = "[" THEN 1 ELSE 0
HostTo ==
  LET to == FirstIn(IF Bracket = 1 THEN {"]"} ELSE {":"}, HostFrom) IN
  IF to < AuthorityTo THEN to ELSE AuthorityTo
PathTo == FirstIn({"?", "#"}, AuthorityTo)
Hash == FirstIn({"#"}, AuthorityTo)

AsWritten(f) ==
  CASE f = "schema" -> IF HasSchema THEN SubSeq(text, 1, FirstIn({":"}, 1) - 1)
                                    ELSE <<>>
    [] f = "userinfo" -> SubSeq(text, AuthorityFrom, HostFrom - 2)
    [] f = "host" -> SubSeq(text, HostFrom + Bracket, HostTo - 1)
    [] f = "port" -> SubSeq(text, HostTo + Bracket + 1, AuthorityTo - 1)
    [] f = "path" -> SubSeq(text, AuthorityTo, PathTo - 1)
    [] f = "query" -> SubSeq(text, PathTo + 1, Hash - 1)
    [] OTHER -> SubSeq(text, FirstIn(UrlChars \cup {"?"}, Hash), Len(text))

(* No field reaches behind the characters that were read, in no step and   *)
(* for URLs of any length, those whose offsets do not fit into sixteen     *)
(* bits included; the second automaton stays in the URL too (the assertion *)
(* "Port number overflow").                                                *)
FieldsInBuffer ==
  /\ \A f \in Fields : field[f].off + field[f].len <= Len(text)
  /\ end <= Len(text)

(* Each field of a URL that was parsed is what its delimiters enclose, and *)
(* empty if there is none, and the port is the number that is written; a   *)
(* URL too long for the offsets is exempt (http_parser_parse_url,          *)
(* http_parse_host).                                                       *)
ParsedAsWritten ==
  (phase = "parsed" /\ Len(text) < Width) =>
    /\ \A f \in Fields : /\ TextOf(f) = AsWritten(f)
                         /\ f \in field_set <=> AsWritten(f) # <<>>
    /\ port = Number(AsWritten("port"))
=============================================================================
