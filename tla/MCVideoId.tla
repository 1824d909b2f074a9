----------------------------- MODULE MCVideoId -----------------------------
(* Instance of VideoId for TLC: ids of two characters and two hosts.  The  *)
(* templates: every character at each place; a path alone; a schema with   *)
(* every authority; a path and a query with an id; a port; and a URL of up *)
(* to Width characters and more.                                           *)
EXTENDS VideoId

All == UrlChars \cup {"?", "#", " "}
One(chars) == [i \in DOMAIN chars |-> {chars[i]}]
Of(chars, n) == [i \in 1..n |-> chars]
Schema == One(<<"a", ":", "/", "/">>)

Authority == {"a", "1", ":", "@", "[", "]", "%", "/"}
Locator == {"a", "v", "=", "/", "?", "."}

MCTemplates == {
  Of(All, 3),
  One(<<"*">>) \o Of({"a", "/", "%"}, 5),
  Schema \o Of(All, 3),
  Schema \o Of(Authority, 5),
  Schema \o One(<<"a">>) \o Of({"/", "?"}, 1) \o Of(Locator, 6),
  Schema \o One(<<"a", "/", "a", "?">>) \o Of({"a", "v", "=", "#"}, 6),
  Schema \o One(<<"a", ":">>) \o Of({"1", "/"}, 3),
  Schema \o Of({"a"}, 8) \o Of({"/"}, 1) \o Of({"a", "?", "#"}, 5)}

MCHosts == {<<"a">>, <<"a", ".", "a">>}
=============================================================================
