------------------------ MODULE MediaDownloadProofs ------------------------
(***************************************************************************)
(* Proofs about MediaDownload, for every chunk size, every length of a     *)
(* file and any number of redirects.  PlanInv is what the plan of ranges   *)
(* keeps whatever the server does; OrdinaryInv follows one download, byte  *)
(* by byte, from an ordinary server (OrdinaryServer of MediaDownload).     *)
(***************************************************************************)
EXTENDS MediaDownload, SequenceTheorems, TLAPS

(* The file is fetched in more than one request.                           *)
Planned == is_chunked /\ ChunkSize < clen

AtBoundary == /\ is_chunked /\ total > ChunkSize
              /\ (total - 1) % ChunkSize = 0

(* The plan has come to a multiple of the chunk size inside of the file,   *)
(* and is only ever extended for a file that has one.                      *)
PlanInv ==
  /\ stage # "none" => reqs # <<>>
  /\ \E k \in Nat : last_chunk_end = k * ChunkSize
  /\ Planned => last_chunk_end < total
  /\ ~Planned => /\ last_chunk_end = 0 /\ ~waiting
                 /\ is_chunked /\ (net = "up" \/ stage # "none") => handler = "final"
  /\ past_end => AtBoundary

-----------------------------------------------------------------------------
(* The client is being shut down because of a redirect.                    *)
Redirecting == net = "closing" /\ on_closed = "redirect"

(* Nothing of the file has arrived.                                        *)
Untouched ==
  /\ got = 0 /\ intact /\ completes = 0
  /\ ~waiting /\ shutdown = "no" /\ ~past_end

(* The last byte that the answer to r should have.                         *)
LastOf(r) == IF r.to = 0 THEN total - 1 ELSE r.to

(* The one request outstanding asks for the bytes that follow what has     *)
(* arrived: up to the end of the plan, or of the file if it is the last.   *)
RequestInv ==
  reqs # <<>> =>
    LET r == Head(reqs) IN
    /\ Len(reqs) = 1 /\ completes = 0 /\ ~waiting
    /\ r.from <= got /\ got <= total
    /\ IF is_chunked /\ handler = "chunk"
         THEN /\ Planned /\ ~past_end
              /\ 0 < r.to /\ r.from <= r.to /\ r.to = last_chunk_end
         ELSE r.to = 0
    /\ past_end <=> r.from = total
    /\ stage \in {"none", "headers", "tail", "junk"} => r.from = got
    /\ stage = "media" => pos = got /\ end = LastOf(r) /\ got <= end + 1
    /\ stage = "junk" => past_end

(* Nothing is outstanding while the user has to ask for the next chunk,    *)
(* which follows what has arrived, or when the file is complete.           *)
RestInv ==
  /\ waiting => /\ reqs = <<>> /\ handler = "chunk" /\ Planned /\ completes = 0
                /\ got = last_chunk_end + 1 /\ ~past_end
  /\ completes > 0 => /\ completes = 1 /\ got = total
                      /\ reqs = <<>> /\ ~waiting
  /\ shutdown # "no" => completes > 0

ConnectionInv ==
  /\ url # url_parsed => on_closed = "redirect" /\ net \in {"new", "closing"}
  /\ net \in {"new", "connecting", "failed"} =>
       reqs = <<>> /\ stage = "none" /\ handler = "chunk" /\ Untouched
  /\ stage \in {"headers", "tail"} \/ Redirecting => Untouched
  /\ net = "closing" => Redirecting \/ shutdown = "done"
  /\ net = "closed" => shutdown = "done"

Ordinary ==
  /\ RequestInv /\ RestInv /\ ConnectionInv
  /\ ~past_end => intact
  /\ misuse = {}

OrdinaryInv == odd = {} => Ordinary

DownloadInv == TypeOK /\ PlanInv /\ OrdinaryInv

-----------------------------------------------------------------------------
(* Requests and the plan.                                                  *)

LEMMA RangeFacts ==
  ASSUME NEW f \in Nat, NEW t \in Nat
  PROVE  /\ ByteRange(f, t) \in Ranges
         /\ ByteRange(f, t).from = f /\ ByteRange(f, t).to = t
BY DEF ByteRange, Ranges

(* The request r is asked for when nothing else is outstanding, and the    *)
(* request at the head of the queue is answered.                           *)
LEMMA RequestFacts ==
  /\ \A r \in Ranges : \A q \in Seq(Ranges) : Append(q, r) \in Seq(Ranges) /\ Append(q, r) # <<>>
  /\ \A r \in Ranges : Len(Append(<<>>, r)) = 1 /\ Head(Append(<<>>, r)) = r
  /\ \A q \in Seq(Ranges) : q # <<>> =>
       /\ Head(q) \in Ranges /\ Head(q).from \in Nat /\ Head(q).to \in Nat
       /\ Tail(q) \in Seq(Ranges)
       /\ Len(q) = 1 => Tail(q) = <<>>
<1>1. ASSUME NEW r \in Ranges, NEW q \in Seq(Ranges)
      PROVE  Append(q, r) \in Seq(Ranges) /\ Append(q, r) # <<>>
  BY AppendProperties
<1>2. ASSUME NEW r \in Ranges
      PROVE  Len(Append(<<>>, r)) = 1 /\ Head(Append(<<>>, r)) = r
  <2>1. <<>> \in Seq(Ranges) /\ Len(<<>>) = 0
    BY EmptySeq
  <2>2. Len(Append(<<>>, r)) = 1
    BY <2>1, AppendProperties
  <2>3. Head(Append(<<>>, r)) = r
    BY <2>1, HeadTailAppend
  <2> QED
    BY <2>2, <2>3
<1>3. ASSUME NEW q \in Seq(Ranges), q # <<>>
      PROVE  /\ Head(q) \in Ranges /\ Head(q).from \in Nat /\ Head(q).to \in Nat
             /\ Tail(q) \in Seq(Ranges)
             /\ Len(q) = 1 => Tail(q) = <<>>
  <2>1. /\ Head(q) \in Ranges /\ Tail(q) \in Seq(Ranges)
        /\ Len(Tail(q)) = Len(q) - 1
    BY <1>3, HeadTailProperties
  <2>2. Head(q).from \in Nat /\ Head(q).to \in Nat
    BY <2>1 DEF Ranges
  <2>3. \A t \in Seq(Ranges) : Len(t) = 0 => t = <<>>
    BY EmptySeq
  <2>4. ASSUME Len(q) = 1 PROVE Tail(q) = <<>>
    <3>1. PICK t \in Seq(Ranges) : t = Tail(q) /\ Len(t) = Len(q) - 1
      BY <2>1
    <3>2. t = <<>>
      BY <3>1, <2>3, <2>4
    <3> QED
      BY <3>1, <3>2
  <2> QED
    BY <2>1, <2>2, <2>4
<1> QED
  BY <1>1, <1>2, <1>3

(* A file of the plan is known by its length.                              *)
LEMMA ConstantFacts ==
  ASSUME TypeOK
  PROVE  /\ ChunkSize \in Nat \ {0} /\ total \in Nat \ {0} /\ clen \in Nat
         /\ Planned => clen = total /\ ChunkSize < total
BY MediaAssumption DEF TypeOK, Planned

(* Multiples of the chunk size.                                            *)
LEMMA Multiples ==
  ASSUME NEW C \in Nat \ {0}, NEW k \in Nat
  PROVE  /\ k * C \in Nat /\ (k * C) % C = 0
         /\ k * C + C = (k + 1) * C
         /\ C = 1 * C /\ 0 = 0 * C
BY SMTT(30)

(* What asking for the next chunk does to the plan.                        *)
LEMMA NextChunkFacts ==
  ASSUME TypeOK, PlanInv, Planned, NEW q \in Seq(Ranges),
         ytdl_dl_media_ctx_next_chunk(q)
  PROVE  \E r \in Ranges :
           /\ reqs' = Append(q, r) /\ r.from = last_chunk_end + 1
           /\ past_end' = (past_end \/ r.from = total)
           /\ r.from <= total
           /\ past_end' => AtBoundary
           /\ handler' \in {"chunk", "final"}
           /\ last_chunk_end' < total
           /\ \E k \in Nat : last_chunk_end' = k * ChunkSize
           /\ \/ handler' = "final" /\ r.to = 0 /\ last_chunk_end' = last_chunk_end
              \/ /\ handler' = handler /\ r.to = last_chunk_end'
                 /\ r.from <= r.to /\ r.from < total
<1>0. /\ ChunkSize \in Nat \ {0} /\ total \in Nat \ {0} /\ clen = total
      /\ ChunkSize < total /\ last_chunk_end \in Nat /\ last_chunk_end < total
  BY ConstantFacts DEF PlanInv, TypeOK
<1>1. PICK k \in Nat : last_chunk_end = k * ChunkSize
  BY DEF PlanInv
<1>2. last_chunk_end + 1 = total => (total - 1) % ChunkSize = 0
  <2>1. last_chunk_end % ChunkSize = 0
    BY <1>0, <1>1, Multiples
  <2>2. last_chunk_end + 1 = total => total - 1 = last_chunk_end
    BY <1>0
  <2> QED
    BY <2>1, <2>2
<1>3. CASE IsLast
  <2>1. OpenRange \in Ranges /\ OpenRange.from = last_chunk_end + 1 /\ OpenRange.to = 0
    BY <1>0, RangeFacts DEF OpenRange, NextStart
  <2>2. /\ handler' = "final" /\ reqs' = Append(q, OpenRange)
        /\ last_chunk_end' = last_chunk_end
        /\ past_end' = (past_end \/ OpenRange.from >= total)
    BY <1>3 DEF ytdl_dl_media_ctx_next_chunk, ytdl_net_request_media_chunk
  <2>3. past_end' = (past_end \/ OpenRange.from = total) /\ OpenRange.from <= total
    BY <1>0, <2>1, <2>2
  <2>4. past_end' => AtBoundary
    BY <1>0, <1>2, <2>1, <2>3 DEF PlanInv, AtBoundary, Planned
  <2> QED
    BY <1>0, <1>1, <2>1, <2>2, <2>3, <2>4
<1>4. CASE ~IsLast
  <2> DEFINE r == ByteRange(last_chunk_end + 1, last_chunk_end + ChunkSize)
  <2>1. /\ r \in Ranges /\ r.from = last_chunk_end + 1
        /\ r.to = last_chunk_end + ChunkSize
    BY <1>0, RangeFacts
  <2>2. /\ handler' = handler /\ reqs' = Append(q, r)
        /\ last_chunk_end' = last_chunk_end + ChunkSize
        /\ past_end' = (past_end \/ r.from >= total)
    BY <1>4 DEF ytdl_dl_media_ctx_next_chunk, ytdl_net_request_media_chunk, NextStart
  <2> HIDE DEF r
  <2>3. last_chunk_end + ChunkSize < total
    BY <1>0, <1>4 DEF IsLast
  <2>4. r.from < total /\ r.from <= r.to /\ past_end' = past_end
    BY <1>0, <2>1, <2>2, <2>3 DEF TypeOK
  <2>5. \E j \in Nat : last_chunk_end' = j * ChunkSize
    <3>1. last_chunk_end' = (k + 1) * ChunkSize
      BY <1>0, <1>1, <2>2, Multiples
    <3> QED
      BY <3>1
  <2>6. past_end' = (past_end \/ r.from = total) /\ handler' \in {"chunk", "final"}
    BY <1>0, <2>1, <2>2, <2>4 DEF TypeOK
  <2>7. past_end' => AtBoundary
    BY <2>4 DEF PlanInv
  <2>8. last_chunk_end' < total /\ r.to = last_chunk_end' /\ r.from <= total
    BY <1>0, <2>1, <2>2, <2>3
  <2> QED
    BY <2>1, <2>2, <2>4, <2>5, <2>6, <2>7, <2>8
<1> QED
  BY <1>3, <1>4

-----------------------------------------------------------------------------
(* Types and the plan, whatever the server does.                           *)

LEMMA PlanInit == Init => TypeOK /\ PlanInv
<1> SUFFICES ASSUME Init PROVE TypeOK /\ PlanInv
  OBVIOUS
<1>1. /\ reqs \in Seq(Ranges) /\ last_chunk_end \in 0..total
      /\ pos \in Nat /\ end \in Nat /\ got \in Nat /\ completes \in Nat
      /\ url \in 0..MaxRedirects /\ url_parsed \in 0..MaxRedirects
      /\ redirects \in 0..MaxRedirects
  BY MediaAssumption DEF Init
<1>2. TypeOK
  BY <1>1 DEF Init, TypeOK
<1>3. \E k \in Nat : last_chunk_end = k * ChunkSize
  BY MediaAssumption, Multiples DEF Init
<1>4. Planned => last_chunk_end < total
  BY <1>2, ConstantFacts DEF Init
<1> QED
  BY <1>2, <1>3, <1>4 DEF Init, PlanInv

(* A complete response leaves the parser where the next one begins.        *)
LEMMA CompleteFacts ==
  ASSUME TypeOK, PlanInv, NEW h, MessageComplete(h)
  PROVE  /\ handler = h /\ reqs # <<>> /\ Tail(reqs) \in Seq(Ranges)
         /\ stage # "none" /\ stage' = "none" /\ net \in {"up", "closing"}
         /\ odd' \subseteq {"error_status", "late_redirect", "redirect_tail",
                            "no_location"}
         /\ UNCHANGED <<format, net, on_closed, pos, end, want_redirect,
                        redirect_was_location, urlVars, shutdown, got, intact,
                        redirects>>
BY RequestFacts DEF MessageComplete, PlanInv, TypeOK

LEMMA ConnectedKeepsPlan ==
  ASSUME TypeOK, PlanInv, ytdl__media_connected_cb
  PROVE  TypeOK' /\ PlanInv'
<1> USE DEF ytdl__media_connected_cb, ytdl_net_request_media_chunk
<1>1. /\ net' = "up" /\ total' = total
      /\ UNCHANGED <<format, on_closed, parserVars, urlVars, waiting, shutdown,
                     outVars, redirects, odd, misuse>>
  BY DEF format
<1>2. /\ ChunkSize \in Nat \ {0} /\ total \in Nat \ {0}
      /\ Planned => clen = total /\ ChunkSize < total
  BY ConstantFacts
<1>3. CASE Planned
  <2>1. /\ reqs' = Append(reqs, FirstRange) /\ last_chunk_end' = ChunkSize
        /\ handler' = handler /\ past_end' = (past_end \/ FirstRange.from >= total)
    BY <1>3 DEF Planned
  <2>2. FirstRange \in Ranges /\ FirstRange.from = 0
    BY <1>2, RangeFacts DEF FirstRange
  <2>3. reqs' \in Seq(Ranges) /\ reqs' # <<>> /\ past_end' = past_end
    BY <1>2, <2>1, <2>2, RequestFacts DEF TypeOK
  <2>4. last_chunk_end' \in 0..total /\ last_chunk_end' < total
    BY <1>2, <1>3, <2>1
  <2>5. \E k \in Nat : last_chunk_end' = k * ChunkSize
    BY <1>2, <2>1, Multiples
  <2>6. TypeOK'
    BY <1>1, <2>1, <2>3, <2>4 DEF TypeOK, format, parserVars, urlVars, outVars
  <2>7. Planned'
    BY <1>1, <1>3 DEF Planned, format
  <2>8. past_end' => AtBoundary'
    BY <1>1, <2>3 DEF PlanInv, AtBoundary, format
  <2>9. last_chunk_end' < total'
    BY <1>1, <2>4
  <2>10. PlanInv'
    BY <2>3, <2>5, <2>7, <2>8, <2>9 DEF PlanInv
  <2> QED
    BY <2>6, <2>10
<1>4. CASE ~Planned
  <2>1. /\ reqs' = Append(reqs, ByteRange(0, 0)) /\ last_chunk_end' = last_chunk_end
        /\ handler' = IF is_chunked THEN "final" ELSE handler
        /\ past_end' = (past_end \/ ByteRange(0, 0).from >= total)
    BY <1>4 DEF Planned
  <2>2. ByteRange(0, 0) \in Ranges /\ ByteRange(0, 0).from = 0
    BY RangeFacts
  <2>3. reqs' \in Seq(Ranges) /\ reqs' # <<>> /\ past_end' = past_end
    BY <1>2, <2>1, <2>2, RequestFacts DEF TypeOK
  <2>4. handler' \in {"chunk", "final"}
    BY <2>1 DEF TypeOK
  <2>5. TypeOK'
    BY <1>1, <2>1, <2>3, <2>4 DEF TypeOK, format, parserVars, urlVars, outVars
  <2> QED
    BY <1>1, <1>4, <2>1, <2>3, <2>5
    DEF PlanInv, Planned, AtBoundary, format, parserVars
<1> QED
  BY <1>3, <1>4

(* Asking for the next chunk, from a pause or from the end of a response.  *)
LEMMA NextChunkKeepsPlan ==
  ASSUME TypeOK, PlanInv, Planned, NEW q \in Seq(Ranges),
         ytdl_dl_media_ctx_next_chunk(q), UNCHANGED format
  PROVE  /\ reqs' \in Seq(Ranges) /\ reqs' # <<>>
         /\ last_chunk_end' \in 0..total' /\ handler' \in {"chunk", "final"}
         /\ past_end' \in BOOLEAN
         /\ misuse' \subseteq {"stale_offsets", "double_shutdown"}
         /\ Planned' /\ last_chunk_end' < total'
         /\ \E k \in Nat : last_chunk_end' = k * ChunkSize
         /\ past_end' => AtBoundary'
<1>1. PICK r \in Ranges :
         /\ reqs' = Append(q, r)
         /\ past_end' = (past_end \/ r.from = total)
         /\ past_end' => AtBoundary
         /\ handler' \in {"chunk", "final"}
         /\ last_chunk_end' < total
         /\ \E k \in Nat : last_chunk_end' = k * ChunkSize
  BY NextChunkFacts
<1>2. reqs' \in Seq(Ranges) /\ reqs' # <<>>
  BY <1>1, RequestFacts
<1>3. last_chunk_end' \in Nat
  BY <1>1, MediaAssumption, Multiples
<1>4. last_chunk_end' \in 0..total'
  BY <1>1, <1>3, ConstantFacts DEF format
<1>5. past_end' \in BOOLEAN
  BY <1>1, Zenon DEF TypeOK
<1>6. misuse' \subseteq {"stale_offsets", "double_shutdown"}
  BY DEF ytdl_dl_media_ctx_next_chunk, TypeOK
<1>7. Planned' /\ (past_end' => AtBoundary') /\ last_chunk_end' < total'
  BY <1>1 DEF Planned, AtBoundary, format
<1> QED
  BY <1>1, <1>2, <1>4, <1>5, <1>6, <1>7

LEMMA PlanStep == TypeOK /\ PlanInv /\ [Next]_vars => (TypeOK /\ PlanInv)'
<1> SUFFICES ASSUME TypeOK, PlanInv, [Next]_vars PROVE TypeOK' /\ PlanInv'
  OBVIOUS
<1> USE DEF format, parserVars, urlVars, planVars, outVars, Planned, AtBoundary
<1>1. CASE ytdl_dl_media_ctx_connect
  BY <1>1 DEF ytdl_dl_media_ctx_connect, TypeOK, PlanInv
<1>2. CASE ytdl__media_connected_cb
  BY <1>2, ConnectedKeepsPlan
<1>3. CASE ytdl__status_cb
  BY <1>3 DEF ytdl__status_cb, TypeOK, PlanInv
<1>4. CASE UserNextChunk
  <2>1. /\ waiting /\ waiting' = FALSE /\ ytdl_dl_media_ctx_next_chunk(reqs)
        /\ UNCHANGED <<format, net, on_closed, parserVars, urlVars, shutdown,
                       outVars, redirects, odd>>
    BY <1>4 DEF UserNextChunk
  <2>2. Planned /\ reqs \in Seq(Ranges)
    BY <2>1 DEF PlanInv, TypeOK
  <2>3. /\ reqs' \in Seq(Ranges) /\ reqs' # <<>>
        /\ last_chunk_end' \in 0..total' /\ handler' \in {"chunk", "final"}
        /\ past_end' \in BOOLEAN
        /\ misuse' \subseteq {"stale_offsets", "double_shutdown"}
        /\ Planned' /\ last_chunk_end' < total'
        /\ \E k \in Nat : last_chunk_end' = k * ChunkSize
        /\ past_end' => AtBoundary'
    BY <2>1, <2>2, NextChunkKeepsPlan
  <2>4. /\ waiting' \in BOOLEAN
        /\ UNCHANGED <<total, clen, is_chunked, pause, net, on_closed, stage,
                       pos, end, want_redirect, redirect_was_location, url,
                       url_parsed, shutdown, got, intact, completes,
                       redirects, odd>>
    BY <2>1
  <2> HIDE DEF format, parserVars, urlVars, planVars, outVars, Planned, AtBoundary
  <2>5. TypeOK'
    BY <2>3, <2>4 DEF TypeOK
  <2>6. PlanInv'
    BY <2>3 DEF PlanInv
  <2> QED
    BY <2>5, <2>6
<1>5. CASE ytdl__media_status_cb
  <2>1. /\ Head(reqs).from \in Nat /\ Head(reqs).to \in Nat
        /\ total \in Nat \ {0}
    BY <1>5, RequestFacts, ConstantFacts DEF ytdl__media_status_cb, TypeOK
  <2>2. /\ pos' \in Nat /\ end' \in Nat /\ want_redirect' \in BOOLEAN
        /\ stage' \in {"headers", "media", "junk"}
        /\ redirects' \in 0..MaxRedirects
        /\ odd' \subseteq {"error_status", "late_redirect", "redirect_tail",
                           "no_location"}
    <3>1. /\ pos' \in {pos, Head(reqs).from}
          /\ end' \in {end, total - 1, Head(reqs).to}
      BY <1>5 DEF ytdl__media_status_cb
    <3>2. want_redirect' \in {want_redirect, TRUE}
      BY <1>5 DEF ytdl__media_status_cb
    <3>3. stage' \in {"headers", "media", "junk"}
      BY <1>5 DEF ytdl__media_status_cb
    <3>4. \/ redirects' = redirects
          \/ redirects' = redirects + 1 /\ redirects < MaxRedirects
      BY <1>5 DEF ytdl__media_status_cb
    <3>5. \A x \in odd' : x \in odd \cup {"error_status", "late_redirect"}
      BY <1>5, SMTT(30) DEF ytdl__media_status_cb
    <3>6. pos' \in Nat /\ end' \in Nat
      BY <2>1, <3>1 DEF TypeOK
    <3>7. want_redirect' \in BOOLEAN
      BY <3>2 DEF TypeOK
    <3>8. redirects' \in 0..MaxRedirects
      BY <3>4, MediaAssumption DEF TypeOK
    <3>9. odd' \subseteq {"error_status", "late_redirect", "redirect_tail",
                          "no_location"}
      BY <3>5 DEF TypeOK
    <3> QED
      BY <3>3, <3>6, <3>7, <3>8, <3>9
  <2>3. /\ net = "up" /\ reqs # <<>>
        /\ UNCHANGED <<format, net, on_closed, planVars, redirect_was_location,
                       urlVars, waiting, shutdown, outVars, misuse>>
    BY <1>5 DEF ytdl__media_status_cb
  <2>4. TypeOK'
    BY <2>2, <2>3 DEF TypeOK
  <2>5. PlanInv'
    BY <2>3 DEF PlanInv
  <2> QED
    BY <2>4, <2>5
<1>6. CASE ytdl__media_header_field_cb
  BY <1>6 DEF ytdl__media_header_field_cb, TypeOK, PlanInv
<1>7. CASE ytdl__media_header_value_cb
  BY <1>7 DEF ytdl__media_header_value_cb, TypeOK, PlanInv
<1>8. CASE ytdl__media_echo_cb
  <2>1. /\ got' \in Nat /\ intact' \in BOOLEAN /\ pos' \in Nat
        /\ odd' \subseteq {"error_status", "late_redirect", "redirect_tail",
                           "no_location"}
    <3>1. intact' \in BOOLEAN
      BY <1>8, Zenon DEF ytdl__media_echo_cb, TypeOK
    <3>2. got' \in {got, got + 1} /\ pos' \in {pos, pos + 1}
      BY <1>8 DEF ytdl__media_echo_cb
    <3>3. odd' \subseteq odd \cup {"redirect_tail"}
      BY <1>8 DEF ytdl__media_echo_cb
    <3> QED
      BY <3>1, <3>2, <3>3 DEF TypeOK
  <2>2. UNCHANGED <<format, net, on_closed, planVars, stage, end,
                    want_redirect, redirect_was_location, urlVars, waiting,
                    shutdown, completes, redirects, misuse>>
    BY <1>8 DEF ytdl__media_echo_cb
  <2> QED
    BY <2>1, <2>2 DEF TypeOK, PlanInv
<1>9. CASE ytdl__media_chunk_final_complete_cb
  <2>1. /\ reqs' = Tail(reqs) /\ completes' = completes + 1
        /\ UNCHANGED <<handler, last_chunk_end, past_end, waiting, misuse>>
        /\ MessageComplete("final")
    BY <1>9 DEF ytdl__media_chunk_final_complete_cb
  <2> QED
    BY <2>1, CompleteFacts DEF TypeOK, PlanInv
<1>10. CASE ytdl__media_chunk_complete_cb
  <2>0. MessageComplete("chunk")
    BY <1>10 DEF ytdl__media_chunk_complete_cb
  <2>1. /\ handler = "chunk" /\ reqs # <<>> /\ Tail(reqs) \in Seq(Ranges)
        /\ stage # "none" /\ stage' = "none"
        /\ odd' \subseteq {"error_status", "late_redirect", "redirect_tail",
                           "no_location"}
        /\ UNCHANGED <<format, net, on_closed, pos, end, want_redirect,
                       redirect_was_location, urlVars, shutdown, got, intact,
                       redirects>>
    BY <2>0, CompleteFacts
  <2>2. is_chunked => Planned
    BY <2>1 DEF PlanInv
  <2>3. CASE is_chunked /\ GoOn
    <3>1. /\ ytdl_dl_media_ctx_next_chunk(Tail(reqs))
          /\ UNCHANGED <<waiting, completes>>
      BY <1>10, <2>3 DEF ytdl__media_chunk_complete_cb
    <3>2. /\ reqs' \in Seq(Ranges) /\ reqs' # <<>>
          /\ last_chunk_end' \in 0..total' /\ handler' \in {"chunk", "final"}
          /\ past_end' \in BOOLEAN
          /\ misuse' \subseteq {"stale_offsets", "double_shutdown"}
          /\ Planned' /\ last_chunk_end' < total'
          /\ \E k \in Nat : last_chunk_end' = k * ChunkSize
          /\ past_end' => AtBoundary'
      BY <2>1, <2>2, <2>3, <3>1, NextChunkKeepsPlan
    <3>3. TypeOK'
      BY <2>1, <3>1, <3>2 DEF TypeOK
    <3>4. PlanInv'
      BY <3>2 DEF PlanInv
    <3> QED
      BY <3>3, <3>4
  <2>4. CASE ~(is_chunked /\ GoOn)
    <3>1. /\ waiting' = (waiting \/ (is_chunked /\ pause))
          /\ completes' = IF is_chunked THEN completes ELSE completes + 1
          /\ reqs' = Tail(reqs)
          /\ UNCHANGED <<handler, last_chunk_end, past_end, misuse>>
      BY <1>10, <2>4 DEF ytdl__media_chunk_complete_cb
    <3>2. waiting' \in BOOLEAN /\ completes' \in Nat
      BY <3>1 DEF TypeOK
    <3>3. TypeOK'
      BY <2>1, <3>1, <3>2 DEF TypeOK
    <3>4. PlanInv'
      BY <2>1, <2>2, <3>1 DEF PlanInv
    <3> QED
      BY <3>3, <3>4
  <2> QED
    BY <2>3, <2>4
<1>11. CASE ytdl__media_close_redirect_cb
  <2>1. reqs' \in Seq(Ranges) /\ url_parsed' \in 0..MaxRedirects
    BY <1>11 DEF ytdl__media_close_redirect_cb, Parsed, TypeOK
  <2> QED
    BY <1>11, <2>1 DEF ytdl__media_close_redirect_cb, TypeOK, PlanInv
<1>12. CASE ytdl_dl_media_shutdown
  BY <1>12 DEF ytdl_dl_media_shutdown, TypeOK, PlanInv
<1>13. CASE ytdl__dl_media_shutdown
  BY <1>13 DEF ytdl__dl_media_shutdown, ForUser, TypeOK, PlanInv
<1>14. CASE ytdl__media_close_cb
  BY <1>14 DEF ytdl__media_close_cb, TypeOK, PlanInv
<1>15. CASE UNCHANGED vars
  BY <1>15 DEF vars, TypeOK, PlanInv
<1> QED
  BY <1>1, <1>2, <1>3, <1>4, <1>5, <1>6, <1>7, <1>8, <1>9, <1>10, <1>11,
     <1>12, <1>13, <1>14, <1>15 DEF Next

(* Every variable of a download stays in its domain, and its plan inside   *)
(* of the file, whatever the server answers.                               *)
THEOREM DownloadTypes == Spec => []TypeOK
BY PlanInit, PlanStep, PTL DEF Spec

(* A range behind the end of the file is asked for only if its length is   *)
(* one more than a multiple of the chunk size.                             *)
THEOREM PastEndAtBoundary == Spec => []PastEndOnlyAtBoundary
<1>1. PlanInv => PastEndOnlyAtBoundary
  BY DEF PlanInv, AtBoundary, PastEndOnlyAtBoundary
<1> QED
  BY PlanInit, PlanStep, <1>1, PTL DEF Spec

-----------------------------------------------------------------------------
(* One download from an ordinary server.                                   *)

LEMMA OrdinaryInit == Init => OrdinaryInv
BY DEF Init, OrdinaryInv, Ordinary, RequestInv, RestInv, ConnectionInv,
       Untouched, Redirecting

(* What a server did that is not ordinary is not forgotten.                *)
LEMMA OddGrows == TypeOK /\ [Next]_vars => odd \subseteq odd'
BY DEF Next, vars, ytdl_dl_media_ctx_connect, ytdl__media_connected_cb,
       ytdl__status_cb, UserNextChunk, ytdl__media_status_cb,
       ytdl__media_header_field_cb, ytdl__media_header_value_cb,
       ytdl__media_echo_cb, ytdl__media_chunk_final_complete_cb,
       ytdl__media_chunk_complete_cb, MessageComplete,
       ytdl__media_close_redirect_cb, ytdl_dl_media_shutdown,
       ytdl__dl_media_shutdown, ytdl__media_close_cb

(* While a request is outstanding.                                         *)
LEMMA InFlight ==
  ASSUME TypeOK, PlanInv, Ordinary, reqs # <<>>
  PROVE  LET r == Head(reqs) IN
         /\ r.from \in Nat /\ r.to \in Nat /\ got \in Nat
         /\ total \in Nat \ {0} /\ last_chunk_end \in Nat
         /\ Tail(reqs) = <<>> /\ completes = 0 /\ ~waiting /\ shutdown = "no"
         /\ r.from <= got /\ got <= total
         /\ net \notin {"new", "connecting", "failed", "closed"}
         /\ net = "closing" => Redirecting
         /\ LastOf(r) \in 0..(total - 1)
         /\ r.to = 0 \/ r.to < total
         /\ stage = "junk" => r.from = total /\ got = total
<1>1. /\ Head(reqs).from \in Nat /\ Head(reqs).to \in Nat
      /\ Len(reqs) = 1 => Tail(reqs) = <<>>
  BY RequestFacts DEF TypeOK
<1>2. total \in Nat \ {0} /\ last_chunk_end \in Nat /\ got \in Nat
  BY ConstantFacts DEF TypeOK
<1>3. /\ Len(reqs) = 1 /\ completes = 0 /\ ~waiting
      /\ Head(reqs).from <= got /\ got <= total
  BY DEF Ordinary, RequestInv
<1>4. shutdown = "no"
  BY <1>3 DEF Ordinary, RestInv
<1>5. net \notin {"new", "connecting", "failed", "closed"} /\ (net = "closing" => Redirecting)
  BY <1>4 DEF Ordinary, ConnectionInv
<1>6. Head(reqs).to = 0 \/ Head(reqs).to < total
  BY <1>2 DEF Ordinary, RequestInv, PlanInv
<1>7. stage = "junk" => Head(reqs).from = total /\ got = total
  BY <1>1, <1>2, <1>3 DEF Ordinary, RequestInv
<1>8. LastOf(Head(reqs)) \in 0..(total - 1)
  BY <1>1, <1>2, <1>6 DEF LastOf
<1> QED
  BY <1>1, <1>2, <1>3, <1>4, <1>5, <1>6, <1>7, <1>8

(* The first request.                                                      *)
LEMMA ConnectedKeepsOrdinary ==
  ASSUME TypeOK, PlanInv, Ordinary, ytdl__media_connected_cb
  PROVE  Ordinary'
<1>1. /\ net = "connecting" /\ net' = "up"
      /\ total' = total /\ clen' = clen /\ is_chunked' = is_chunked
      /\ on_closed' = on_closed /\ stage' = stage /\ url' = url
      /\ url_parsed' = url_parsed /\ waiting' = waiting
      /\ shutdown' = shutdown /\ got' = got /\ intact' = intact
      /\ completes' = completes /\ misuse' = misuse
  BY DEF ytdl__media_connected_cb, format, parserVars, urlVars, outVars
<1>2. /\ reqs = <<>> /\ stage = "none" /\ handler = "chunk"
      /\ got = 0 /\ intact /\ completes = 0
      /\ ~waiting /\ shutdown = "no" /\ ~past_end
  BY <1>1 DEF Ordinary, ConnectionInv, Untouched
<1>3. /\ ChunkSize \in Nat \ {0} /\ total \in Nat \ {0}
      /\ Planned => clen = total /\ ChunkSize < total
  BY ConstantFacts
<1>4. PICK r \in Ranges :
        /\ reqs' = Append(reqs, r) /\ r.from = 0
        /\ past_end' = (past_end \/ r.from >= total)
        /\ \/ /\ Planned /\ r.to = ChunkSize /\ last_chunk_end' = ChunkSize
              /\ handler' = "chunk"
           \/ r.to = 0 /\ (is_chunked => handler' = "final")
  <2>1. CASE Planned
    <3>1. FirstRange \in Ranges /\ FirstRange.from = 0 /\ FirstRange.to = ChunkSize
      BY <1>3, RangeFacts DEF FirstRange
    <3> QED
      BY <1>2, <2>1, <3>1
      DEF ytdl__media_connected_cb, ytdl_net_request_media_chunk, Planned
  <2>2. CASE ~Planned
    <3>1. /\ ByteRange(0, 0) \in Ranges /\ ByteRange(0, 0).from = 0
          /\ ByteRange(0, 0).to = 0
      BY RangeFacts
    <3> QED
      BY <2>2, <3>1
      DEF ytdl__media_connected_cb, ytdl_net_request_media_chunk, Planned
  <2> QED
    BY <2>1, <2>2
<1>5. Len(reqs') = 1 /\ Head(reqs') = r
  BY <1>2, <1>4, RequestFacts
<1>6. ~past_end'
  <2>1. ~(r.from >= total)
    BY <1>3, <1>4
  <2> QED
    BY <1>2, <1>4, <2>1, Zenon
<1>7. RequestInv'
  BY <1>1, <1>2, <1>3, <1>4, <1>5, <1>6 DEF RequestInv, Planned
<1>8. RestInv' /\ ConnectionInv'
  BY <1>1, <1>2, <1>6
  DEF Ordinary, RestInv, ConnectionInv, Untouched, Redirecting
<1> QED
  BY <1>1, <1>2, <1>7, <1>8 DEF Ordinary

(* The next request, asked for with nothing outstanding.                   *)
LEMMA NextChunkKeepsOrdinary ==
  ASSUME TypeOK, PlanInv, Planned, ytdl_dl_media_ctx_next_chunk(<<>>),
         ~past_end, intact, handler = "chunk", got = last_chunk_end + 1,
         completes = 0, shutdown = "no", net \in {"up", "lost"},
         url = url_parsed, misuse = {}, stage' = "none", waiting' = FALSE,
         UNCHANGED <<total, clen, is_chunked, net, on_closed, url, url_parsed,
                     shutdown, got, intact, completes>>
  PROVE  Ordinary'
<1>1. /\ total' = total /\ clen' = clen /\ is_chunked' = is_chunked
      /\ net' = net /\ on_closed' = on_closed /\ url' = url
      /\ url_parsed' = url_parsed /\ shutdown' = shutdown
      /\ got' = got /\ intact' = intact /\ completes' = completes
  OBVIOUS
<1>2. /\ total \in Nat \ {0} /\ last_chunk_end \in Nat /\ got \in Nat
      /\ <<>> \in Seq(Ranges)
  BY ConstantFacts, EmptySeq DEF TypeOK
<1>3. PICK r \in Ranges :
        /\ reqs' = Append(<<>>, r) /\ r.from = last_chunk_end + 1
        /\ past_end' = (past_end \/ r.from = total)
        /\ r.from <= total
        /\ \/ handler' = "final" /\ r.to = 0
           \/ /\ handler' = "chunk" /\ r.to = last_chunk_end'
              /\ r.from <= r.to /\ r.from < total
  BY <1>2, NextChunkFacts
<1>4. Len(reqs') = 1 /\ Head(reqs') = r /\ r.from \in Nat /\ r.to \in Nat
  BY <1>3, RequestFacts DEF Ranges
<1>5. past_end' <=> r.from = total
  BY <1>3, Zenon
<1>6. RequestInv'
  <2>1. r.from = got' /\ got' <= total' /\ got' \in Nat
    BY <1>1, <1>2, <1>3
  <2>2. Planned' /\ is_chunked'
    BY <1>1 DEF Planned
  <2>3. handler' = "chunk" => /\ ~past_end' /\ 0 < r.to /\ r.from <= r.to
                              /\ r.to = last_chunk_end'
    BY <1>2, <1>3, <1>4, <1>5
  <2>4. handler' # "chunk" => r.to = 0
    BY <1>3
  <2> QED
    BY <1>1, <1>4, <1>5, <2>1, <2>2, <2>3, <2>4 DEF RequestInv
<1>7. RestInv' /\ ConnectionInv'
  BY <1>1 DEF RestInv, ConnectionInv, Redirecting
<1>8. misuse' = {}
  BY DEF ytdl_dl_media_ctx_next_chunk
<1> QED
  BY <1>1, <1>6, <1>7, <1>8 DEF Ordinary

LEMMA UserNextChunkKeepsOrdinary ==
  ASSUME TypeOK, PlanInv, Ordinary, UserNextChunk
  PROVE  Ordinary'
<1>1. /\ waiting /\ shutdown = "no" /\ waiting' = FALSE
      /\ ytdl_dl_media_ctx_next_chunk(reqs)
      /\ UNCHANGED <<total, clen, is_chunked, net, on_closed, url, url_parsed,
                     shutdown, got, intact, completes, stage>>
  BY DEF UserNextChunk, format, parserVars, urlVars, outVars
<1>2. /\ reqs = <<>> /\ handler = "chunk" /\ Planned /\ completes = 0
      /\ got = last_chunk_end + 1 /\ ~past_end /\ intact /\ misuse = {}
  BY <1>1 DEF Ordinary, RestInv
<1>3. stage' = "none"
  BY <1>1, <1>2 DEF PlanInv
<1>4. net \in {"up", "lost"} /\ url = url_parsed
  BY <1>1 DEF Ordinary, ConnectionInv, Untouched, TypeOK, Redirecting
<1> QED
  BY <1>1, <1>2, <1>3, <1>4, NextChunkKeepsOrdinary

(* The status line of a response.                                          *)
LEMMA StatusKeepsOrdinary ==
  ASSUME TypeOK, PlanInv, Ordinary, ytdl__media_status_cb, odd' = {}
  PROVE  Ordinary'
<1> DEFINE r == Head(reqs)
<1>1. /\ net = "up" /\ stage = "none" /\ reqs # <<>>
      /\ total' = total /\ clen' = clen /\ is_chunked' = is_chunked
      /\ net' = net /\ on_closed' = on_closed /\ url' = url
      /\ url_parsed' = url_parsed /\ shutdown' = shutdown
      /\ got' = got /\ intact' = intact /\ completes' = completes
      /\ waiting' = waiting /\ misuse' = misuse /\ reqs' = reqs
      /\ handler' = handler /\ last_chunk_end' = last_chunk_end
      /\ past_end' = past_end
  BY DEF ytdl__media_status_cb, format, planVars, urlVars, outVars
<1>2. /\ r.from \in Nat /\ r.to \in Nat /\ got \in Nat
      /\ total \in Nat \ {0} /\ completes = 0 /\ ~waiting /\ shutdown = "no"
      /\ r.to = 0 \/ r.to < total
      /\ got <= total
  BY <1>1, InFlight
<1>3. /\ r.from = got
      /\ past_end <=> got = total
      /\ r.to # 0 => r.from <= r.to
  BY <1>1, <1>2 DEF Ordinary, RequestInv
<1>4. \/ /\ stage' = "media" /\ pos' = got
         /\ end' = LastOf(r) /\ got <= end' + 1
      \/ stage' = "junk" /\ past_end
      \/ stage' = "headers" /\ got = 0
  <2>1. CASE /\ r.from < total /\ stage' = "media" /\ pos' = r.from
             /\ end' = IF r.to = 0 \/ r.to >= total THEN total - 1 ELSE r.to
    <3>1. end' = LastOf(r)
      BY <1>2, <2>1 DEF LastOf
    <3>2. pos' = got /\ got <= LastOf(r) + 1
      BY <1>2, <1>3, <2>1 DEF LastOf
    <3> QED
      BY <2>1, <3>1, <3>2
  <2>2. CASE r.from >= total /\ stage' = "junk"
    BY <1>2, <1>3, <2>2
  <2>3. CASE /\ stage' = "headers"
             /\ odd' = odd \cup (IF got > 0 THEN {"late_redirect"} ELSE {})
    BY <1>2, <2>3
  <2>4. odd' # odd \cup {"error_status"}
    OBVIOUS
  <2> QED
    BY <2>1, <2>2, <2>3, <2>4 DEF ytdl__media_status_cb
<1>5. RequestInv'
  BY <1>1, <1>2, <1>4 DEF Ordinary, RequestInv, Planned, LastOf
<1>6. stage' = "headers" => Untouched'
  BY <1>1, <1>2, <1>3, <1>4 DEF Ordinary, Untouched
<1>7. RestInv' /\ ConnectionInv'
  BY <1>1, <1>2, <1>4, <1>6
  DEF Ordinary, RestInv, ConnectionInv, Redirecting
<1> QED
  BY <1>1, <1>5, <1>7 DEF Ordinary

(* The body of a response.                                                 *)
LEMMA EchoKeepsOrdinary ==
  ASSUME TypeOK, PlanInv, Ordinary, ytdl__media_echo_cb, odd' = {}
  PROVE  Ordinary'
<1> DEFINE r == Head(reqs)
<1>1. /\ total' = total /\ clen' = clen /\ is_chunked' = is_chunked
      /\ net' = net /\ on_closed' = on_closed /\ url' = url
      /\ url_parsed' = url_parsed /\ shutdown' = shutdown
      /\ completes' = completes /\ waiting' = waiting /\ misuse' = misuse
      /\ reqs' = reqs /\ handler' = handler
      /\ last_chunk_end' = last_chunk_end /\ past_end' = past_end
      /\ stage' = stage /\ end' = end
  BY DEF ytdl__media_echo_cb, format, planVars, parserVars, urlVars
<1>2. stage # "none" /\ reqs # <<>>
  BY DEF ytdl__media_echo_cb, PlanInv
<1>3. /\ r.from \in Nat /\ r.to \in Nat /\ got \in Nat
      /\ total \in Nat \ {0} /\ completes = 0 /\ ~waiting /\ shutdown = "no"
      /\ r.from <= got /\ got <= total
      /\ LastOf(r) \in 0..(total - 1)
  BY <1>2, InFlight
<1>4. CASE /\ net = "up" /\ stage = "media" /\ pos <= end
           /\ intact' = (intact /\ pos = got)
           /\ got' = got + 1 /\ pos' = pos + 1
  <2>1. pos = got /\ end = LastOf(r)
    BY <1>2, <1>4 DEF Ordinary, RequestInv
  <2>2. got' \in Nat /\ got' <= LastOf(r) + 1 /\ got' <= total /\ r.from <= got'
    BY <1>3, <1>4, <2>1
  <2>3. RequestInv'
    BY <1>1, <1>2, <1>3, <1>4, <2>1, <2>2
    DEF Ordinary, RequestInv, Planned, LastOf
  <2>4. ~past_end' => intact'
    BY <1>1, <1>4, <2>1, Zenon DEF Ordinary
  <2>5. RestInv' /\ ConnectionInv'
    BY <1>1, <1>3, <1>4 DEF Ordinary, RestInv, ConnectionInv, Redirecting
  <2> QED
    BY <1>1, <2>3, <2>4, <2>5 DEF Ordinary
<1>5. CASE /\ net \in {"up", "closing"} /\ stage \in {"junk", "tail"}
           /\ odd' = odd \cup (IF stage = "tail" THEN {"redirect_tail"} ELSE {})
           /\ got' = got /\ pos' = pos
  <2>1. stage = "junk"
    BY <1>5
  <2>2. past_end
    BY <1>2, <2>1 DEF Ordinary, RequestInv
  <2>3. RequestInv'
    BY <1>1, <1>5, <2>1, <2>2 DEF Ordinary, RequestInv, Planned
  <2>4. ~Redirecting
    BY <2>2 DEF Ordinary, ConnectionInv, Untouched
  <2>5. RestInv' /\ ConnectionInv'
    BY <1>1, <1>3, <1>5, <2>1, <2>4
    DEF Ordinary, RestInv, ConnectionInv, Redirecting
  <2> QED
    BY <1>1, <2>2, <2>3, <2>5 DEF Ordinary
<1> QED
  BY <1>4, <1>5 DEF ytdl__media_echo_cb, parserVars

(* The end of a response: everything that was asked for has arrived.       *)
LEMMA CompleteKeepsInOrder ==
  ASSUME TypeOK, PlanInv, Ordinary, NEW h, MessageComplete(h), odd' = {}
  PROVE  /\ net = "up" /\ handler = h /\ url = url_parsed
         /\ Tail(reqs) = <<>> /\ completes = 0 /\ ~waiting /\ shutdown = "no"
         /\ IF is_chunked /\ h = "chunk"
              THEN Planned /\ ~past_end /\ intact /\ got = last_chunk_end + 1
              ELSE got = total
         /\ stage' = "none"
         /\ UNCHANGED <<total, clen, is_chunked, net, on_closed, url,
                        url_parsed, shutdown, got, intact>>
<1> DEFINE r == Head(reqs)
<1>1. /\ handler = h /\ reqs # <<>> /\ stage' = "none"
      /\ UNCHANGED <<total, clen, is_chunked, net, on_closed, url,
                     url_parsed, shutdown, got, intact>>
  BY CompleteFacts DEF format, urlVars
<1>2. /\ r.from \in Nat /\ r.to \in Nat /\ got \in Nat
      /\ total \in Nat \ {0} /\ last_chunk_end \in Nat
      /\ Tail(reqs) = <<>> /\ completes = 0 /\ ~waiting /\ shutdown = "no"
      /\ got <= total
      /\ stage = "junk" => got = total
  BY <1>1, InFlight
<1>3. /\ net = "up"
      /\ \/ stage = "media" /\ pos > end
         \/ stage = "junk"
  BY DEF MessageComplete
<1>4. url = url_parsed
  BY <1>3 DEF Ordinary, ConnectionInv
<1>5. stage = "media" => got > LastOf(r) /\ got <= LastOf(r) + 1
  BY <1>1, <1>2, <1>3 DEF Ordinary, RequestInv
<1>6. CASE is_chunked /\ h = "chunk"
  <2>1. Planned /\ ~past_end /\ 0 < r.to /\ r.to = last_chunk_end
    BY <1>1, <1>6 DEF Ordinary, RequestInv
  <2>2. stage = "media"
    BY <1>1, <1>3, <2>1 DEF Ordinary, RequestInv
  <2>3. got = last_chunk_end + 1
    BY <1>2, <1>5, <2>1, <2>2 DEF LastOf
  <2> QED
    BY <1>1, <1>2, <1>3, <1>4, <1>6, <2>1, <2>3 DEF Ordinary
<1>7. CASE ~(is_chunked /\ h = "chunk")
  <2>1. r.to = 0
    BY <1>1, <1>7 DEF Ordinary, RequestInv
  <2>2. got = total
    BY <1>2, <1>3, <1>5, <2>1 DEF LastOf
  <2> QED
    BY <1>1, <1>2, <1>3, <1>4, <1>7, <2>2
<1> QED
  BY <1>6, <1>7

LEMMA FinalKeepsOrdinary ==
  ASSUME TypeOK, PlanInv, Ordinary, ytdl__media_chunk_final_complete_cb,
         odd' = {}
  PROVE  Ordinary'
<1>1. /\ MessageComplete("final") /\ reqs' = Tail(reqs)
      /\ completes' = completes + 1
      /\ past_end' = past_end /\ waiting' = waiting /\ misuse' = misuse
  BY DEF ytdl__media_chunk_final_complete_cb
<1>2. /\ net = "up" /\ url = url_parsed
      /\ Tail(reqs) = <<>> /\ completes = 0 /\ ~waiting
      /\ got = total /\ stage' = "none"
      /\ total' = total /\ net' = net /\ on_closed' = on_closed /\ url' = url
      /\ url_parsed' = url_parsed /\ got' = got /\ intact' = intact
  BY <1>1, CompleteKeepsInOrder
<1>3. RequestInv' /\ RestInv' /\ ConnectionInv'
  BY <1>1, <1>2 DEF RequestInv, RestInv, ConnectionInv, Redirecting
<1> QED
  BY <1>1, <1>2, <1>3 DEF Ordinary

LEMMA ChunkKeepsOrdinary ==
  ASSUME TypeOK, PlanInv, Ordinary, ytdl__media_chunk_complete_cb, odd' = {}
  PROVE  Ordinary'
<1>1. MessageComplete("chunk")
  BY DEF ytdl__media_chunk_complete_cb
<1>2. /\ net = "up" /\ handler = "chunk" /\ url = url_parsed
      /\ Tail(reqs) = <<>> /\ completes = 0 /\ ~waiting /\ shutdown = "no"
      /\ is_chunked => Planned /\ ~past_end /\ intact /\ got = last_chunk_end + 1
      /\ ~is_chunked => got = total
      /\ stage' = "none"
      /\ total' = total /\ clen' = clen /\ is_chunked' = is_chunked
      /\ net' = net /\ on_closed' = on_closed /\ url' = url
      /\ url_parsed' = url_parsed /\ shutdown' = shutdown
      /\ got' = got /\ intact' = intact
  BY <1>1, CompleteKeepsInOrder
<1>3. CASE is_chunked /\ GoOn
  <2>1. /\ ytdl_dl_media_ctx_next_chunk(<<>>)
        /\ waiting' = waiting /\ completes' = completes
    BY <1>2, <1>3 DEF ytdl__media_chunk_complete_cb
  <2>2. waiting' = FALSE
    BY <1>2, <2>1 DEF TypeOK
  <2>3. misuse = {}
    BY DEF Ordinary
  <2> QED
    BY <1>2, <1>3, <2>1, <2>2, <2>3, NextChunkKeepsOrdinary
<1>4. CASE ~(is_chunked /\ GoOn)
  <2>1. /\ waiting' = (waiting \/ (is_chunked /\ pause))
        /\ completes' = IF is_chunked THEN completes ELSE completes + 1
        /\ reqs' = Tail(reqs)
        /\ handler' = handler /\ last_chunk_end' = last_chunk_end
        /\ past_end' = past_end /\ misuse' = misuse
    BY <1>4 DEF ytdl__media_chunk_complete_cb
  <2>2. ConnectionInv' /\ RequestInv'
    BY <1>2, <2>1 DEF RequestInv, ConnectionInv, Redirecting
  <2>3. CASE is_chunked
    <3>1. completes' = 0
      BY <1>2, <2>1, <2>3
    <3>2. RestInv'
      BY <1>2, <2>1, <2>3, <3>1 DEF RestInv, Planned
    <3> QED
      BY <1>2, <2>1, <2>2, <3>2 DEF Ordinary
  <2>4. CASE ~is_chunked
    <3>1. completes' = 1
      BY <1>2, <2>1, <2>4
    <3>2. ~waiting'
      BY <1>2, <2>1, <2>4, Zenon
    <3>3. RestInv'
      BY <1>2, <2>1, <3>1, <3>2 DEF RestInv
    <3> QED
      BY <1>2, <2>1, <2>2, <3>3 DEF Ordinary
  <2> QED
    BY <2>3, <2>4
<1> QED
  BY <1>3, <1>4

LEMMA OrdinaryStep ==
  TypeOK /\ PlanInv /\ OrdinaryInv /\ [Next]_vars => OrdinaryInv'
<1> SUFFICES ASSUME TypeOK, PlanInv, OrdinaryInv, [Next]_vars, odd' = {}
             PROVE  Ordinary'
  BY DEF OrdinaryInv
<1>0. Ordinary
  <2>1. odd = {}
    BY OddGrows
  <2> QED
    BY <2>1 DEF OrdinaryInv
<1> USE DEF format, parserVars, urlVars, planVars, outVars
<1>1. CASE ytdl_dl_media_ctx_connect
  BY <1>0, <1>1
  DEF ytdl_dl_media_ctx_connect, Ordinary, RequestInv, RestInv,
      ConnectionInv, Untouched, Redirecting, Planned, LastOf
<1>2. CASE ytdl__media_connected_cb
  BY <1>0, <1>2, ConnectedKeepsOrdinary
<1>3. CASE ytdl__status_cb
  BY <1>0, <1>3
  DEF ytdl__status_cb, Ordinary, RequestInv, RestInv,
      ConnectionInv, Untouched, Redirecting, Planned, LastOf
<1>4. CASE UserNextChunk
  BY <1>0, <1>4, UserNextChunkKeepsOrdinary
<1>5. CASE ytdl__media_status_cb
  BY <1>0, <1>5, StatusKeepsOrdinary
<1>6. CASE ytdl__media_header_field_cb
  BY <1>0, <1>6
  DEF ytdl__media_header_field_cb, Ordinary, RequestInv, RestInv,
      ConnectionInv, Untouched, Redirecting, Planned, LastOf
<1>7. CASE ytdl__media_header_value_cb
  BY <1>0, <1>7
  DEF ytdl__media_header_value_cb, Ordinary, RequestInv, RestInv,
      ConnectionInv, Untouched, Redirecting, Planned, LastOf
<1>8. CASE ytdl__media_echo_cb
  BY <1>0, <1>8, EchoKeepsOrdinary
<1>9. CASE ytdl__media_chunk_final_complete_cb
  BY <1>0, <1>9, FinalKeepsOrdinary
<1>10. CASE ytdl__media_chunk_complete_cb
  BY <1>0, <1>10, ChunkKeepsOrdinary
<1>11. CASE ytdl__media_close_redirect_cb
  BY <1>0, <1>11
  DEF ytdl__media_close_redirect_cb, Parsed, Ordinary, RequestInv, RestInv,
      ConnectionInv, Untouched, Redirecting
<1>12. CASE ytdl_dl_media_shutdown
  BY <1>0, <1>12
  DEF ytdl_dl_media_shutdown, Ordinary, RequestInv, RestInv,
      ConnectionInv, Untouched, Redirecting, Planned, LastOf
<1>13. CASE ytdl__dl_media_shutdown
  <2>1. completes > 0 /\ ~Untouched
    BY <1>0, <1>13
    DEF ytdl__dl_media_shutdown, Ordinary, RestInv, Untouched
  <2>2. net # "closing" /\ net # "new"
    BY <1>0, <1>13, <2>1 DEF ytdl__dl_media_shutdown, Ordinary, ConnectionInv
  <2>3. url = url_parsed
    BY <1>0, <2>2 DEF Ordinary, ConnectionInv
  <2> QED
    BY <1>0, <1>13, <2>1, <2>2, <2>3
    DEF ytdl__dl_media_shutdown, ForUser, Ordinary, RequestInv, RestInv,
        ConnectionInv, Redirecting, Planned, LastOf
<1>14. CASE ytdl__media_close_cb
  BY <1>0, <1>14
  DEF ytdl__media_close_cb, Ordinary, RequestInv, RestInv,
      ConnectionInv, Untouched, Redirecting, Planned, LastOf
<1>15. CASE UNCHANGED vars
  BY <1>0, <1>15
  DEF vars, Ordinary, RequestInv, RestInv,
      ConnectionInv, Untouched, Redirecting, Planned, LastOf
<1> QED
  BY <1>1, <1>2, <1>3, <1>4, <1>5, <1>6, <1>7, <1>8, <1>9, <1>10, <1>11,
     <1>12, <1>13, <1>14, <1>15 DEF Next

LEMMA DownloadInvariant == Spec => []DownloadInv
<1>1. Init => DownloadInv
  BY PlanInit, OrdinaryInit DEF DownloadInv
<1>2. DownloadInv /\ [Next]_vars => DownloadInv'
  BY PlanStep, OrdinaryStep DEF DownloadInv
<1> QED
  BY <1>1, <1>2, PTL DEF Spec

(* The chunk plan of src/dl.c: from an ordinary server, one that does none *)
(* of the four things OrdinaryServer names, on_data gets the bytes of the  *)
(* file in order, unless a range behind its end was asked for, and         *)
(* on_complete is called once, when all have arrived: for every length and *)
(* chunk size.  A redirect is covered only if nothing behind the value of  *)
(* Location is parsed before the client is closed.                         *)
THEOREM ChunksJoinUp == Spec => []DataIntact
<1>1. DownloadInv => DataIntact
  BY DEF DownloadInv, OrdinaryInv, Ordinary, RestInv, DataIntact, OrdinaryServer
<1> QED
  BY DownloadInvariant, <1>1, PTL

(* With such a server no request of src/dl.c is cut out of a URL with the  *)
(* offsets of another, and a client that is closing is not shut down again.*)
THEOREM NothingStale == Spec => []NoStaleUse
<1>1. DownloadInv => NoStaleUse
  BY DEF DownloadInv, OrdinaryInv, Ordinary, NoStaleUse, OrdinaryServer
<1> QED
  BY DownloadInvariant, <1>1, PTL
=============================================================================
