---------------------------- MODULE MCFormatUrl ----------------------------
(* Instance of FormatUrl for TLC.  Every sequence of up to three calls of  *)
(* three helpers meets signatures of three and four characters; every list *)
(* of up to three formats meets one player.                                *)
EXTENDS FormatUrl

H(name, kind, quoted, newline) ==
  [name |-> name, kind |-> kind, quoted |-> quoted, newline |-> newline]

(* Helpers as players have them, with slice for splice, on one line, with  *)
(* a name in quotes, and with two helpers of a kind.                       *)
Usual == <<H("a", "swap", FALSE, TRUE), H("b", "splice", FALSE, TRUE),
           H("c", "reverse", FALSE, FALSE)>>
Slicing == <<H("a", "reverse", FALSE, TRUE), H("b", "slice", FALSE, TRUE),
             H("c", "swap", FALSE, TRUE)>>
OneLine == <<H("a", "swap", FALSE, FALSE), H("b", "splice", FALSE, TRUE),
             H("c", "reverse", FALSE, TRUE)>>
Quoted == <<H("a", "reverse", TRUE, TRUE), H("b", "splice", FALSE, TRUE),
            H("c", "swap", FALSE, TRUE)>>
Twice == <<H("a", "swap", FALSE, TRUE), H("b", "reverse", FALSE, TRUE),
           H("c", "swap", FALSE, TRUE)>>

Call == [name : {"a", "b", "c"}, arg : {0, 1, 2, 4, 5}]
Calls(n) == UNION {[1..k -> Call] : k \in 0..n}
FourCalls == [i \in 1..4 |-> [name |-> "c", arg |-> 0]]
Player(objects, calls) == [object : objects, calls : calls, n : {TRUE}]

MCPlayers ==
  Player({Usual}, Calls(3)) \cup Player({Slicing, OneLine, Quoted, Twice}, Calls(2))
  \cup Player({Usual}, {FourCalls})
  \cup {[object |-> Usual, calls |-> <<>>, n |-> FALSE]}

Media(vid, aud, size, quality) ==
  [vid |-> vid, aud |-> aud, width |-> IF vid THEN size ELSE 0,
   fps |-> IF vid THEN 1 ELSE 0, bitrate |-> size,
   channels |-> IF aud THEN 2 ELSE 0, audio_quality |-> quality]
Cipher(parts, sig, slack, n) ==
  [cipher |-> TRUE, parts |-> parts, plain |-> FALSE, sig |-> sig,
   slack |-> slack, n |-> n]
Plain(plain, n) ==
  [cipher |-> FALSE, parts |-> {}, plain |-> plain, sig |-> <<>>,
   slack |-> 0, n |-> n]

MCChars == {"w", "x", "y", "z"}
Sig4 == <<"w", "x", "y", "z">>
Sig3 == <<"x", "y", "z">>

SignedFormats ==
  {<<Media(TRUE, FALSE, 3, 0) @@ Cipher(Parts, Sig4, 0, TRUE),
     Media(FALSE, TRUE, 2, 1) @@ Cipher(Parts, Sig3, 2, FALSE)>>}

AnyFormat ==
  {Media(TRUE, TRUE, 1, 1) @@ Plain(TRUE, TRUE),
   Media(TRUE, TRUE, 0, 1) @@ Plain(TRUE, FALSE),
   Media(TRUE, FALSE, 2, 0) @@ Cipher(Parts, Sig4, 0, TRUE),
   Media(TRUE, FALSE, 3, 0) @@ Cipher({"s", "url"}, Sig4, 0, TRUE),
   Media(FALSE, TRUE, 1, 2) @@ Plain(TRUE, TRUE),
   Media(FALSE, TRUE, 2, 1) @@ Cipher(Parts, Sig3, 0, TRUE),
   Media(FALSE, TRUE, 0, 1) @@ Plain(FALSE, TRUE),
   Media(FALSE, TRUE, 3, 0) @@ Plain(TRUE, FALSE)}
FormatLists == UNION {[1..k -> AnyFormat] : k \in 0..3}
OnePlayer == [object |-> Usual, n |-> TRUE, calls |->
  <<[name |-> "a", arg |-> 2], [name |-> "b", arg |-> 1], [name |-> "c", arg |-> 4]>>]

MCCases == [js : MCPlayers, formats : SignedFormats]
           \cup [js : {OnePlayer}, formats : FormatLists]
=============================================================================
