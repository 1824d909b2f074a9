# A formal model of libytdl

TLA+ modules that model the concurrent core of libytdl, configurations that
check them with TLC, and proofs checked by TLAPS. Paths like `dl.c:264` are
relative to `src/`, `http.c` and `tcp.c` are in `src/http/`.

## 1. The system

libytdl downloads videos. Everything runs on one libuv loop: one callback at a
time, each to its end, in an order that the network, the resolver and the caller
decide. That order is what the models explore.

| Component | State | Operations | Depends on |
|---|---|---|---|
| Video information pipeline (`dl.c` 1-297) | queue of videos, flags CONNECTED and IDLE, installed parser callbacks, buffer for player files, map of players | `ytdl_dl_get_info`, `ytdl_dl_ctx_connect`, `ytdl_dl_shutdown`, the callbacks of one keep-alive connection | HTTPS client, extraction, signature actions, player map |
| HTTPS client (`http.c`, `tcp.c`) | libuv handles, TLS session, write queue | init, connect, write, shutdown; resolver, connect, handshake, poll and close callbacks | libuv, OpenSSL, llhttp |
| Media download (`dl.c` 338-594) | URL and offsets into it, end of the last chunk, completion callback, redirect flags | connect, next chunk, shutdown; status, header, body and completion callbacks | HTTPS client, URL parser |
| DASH download (`dl.c` 596-857, `dash.c`) | manifest, two segment iterators, shutdown flags | connect, fork, next chunk, shutdown | HTTPS client, libxml2 |
| Player cache (`dl.c` 299-336, `sig.c` 354-393) | a file of players and their signature actions | save, load | player map |
| Signature actions (`sig.c`, `info.c` 449-600) | up to 20 actions per player | extract, apply | QuickJS |
| Extraction (`info.c`) | formats of a video, with the address of each once it was asked for | extract, choose a format, complete its address | yyjson, signature actions |
| Command line program (`cli.c`) | per video: two downloads, two flags, two temporary files | start, pipe, complete, mux | all of the above |
| Player map (`hashmap.c`) | open-addressing table | put, get, remove, reserve, clear, reset, iterate | |
| URL parser (`url_parser.c`) | fields of a URL as offsets into it | parse | |
| Requests and ids (`net.c`) | none | format a request, find a video's id in a URL | URL parser |
| Muxer (`mux.c`) | the place in two input files | merge them into one | libavformat |
| Buffers, numeric host test, regular expression compiler | none across calls | pure functions | |

How they interact. The pipeline, a media download and a DASH download each own an
HTTP client and install callbacks in its parser. Data comes up through the poll
callback of the client, `read_cb`, llhttp and the parser callbacks, all in one
libuv callback; a user who writes or shuts down does so inside that call chain.
The pipeline calls `on_complete` in the middle of `ytdl__dl_finalize`, and the
caller may use the context there. Shutting down is asynchronous everywhere: an
idle handle, then a chain of close callbacks, then the user's.

What is hard: the order of callbacks, re-entrant calls, a response that is
credited to the head of a queue and not to a request, buffers and offsets that
outlive what they describe, tear-down with something in flight, error paths that
leave a waiter behind, arithmetic at chunk boundaries. `PROJECT.json` lists each
hazard at its line, with the property that covers it or the reason why none does.

What makes each part correct:

* pipeline: answers in call order, once, from the caller's own page and that
  page's own player; nobody forgotten; nothing used after it was freed;
* client: exactly one outcome of a connect, one close callback and that one last,
  no handle or session misused, every write answered;
* media download: the bytes of the file in order, once, and `on_complete` when
  they are all there; ranges no larger than the server tolerates;
* DASH download: every segment once and in order, initial segment first;
* cache: what is loaded is what was saved, or nothing;
* signature actions: the steps do to the text what the player's code does, and
  stay in its buffer;
* extraction: the formats that are downloaded are the best there are, and the
  function for the parameter n is applied to an address once;
* player map: a partial function, whatever the hash function and the history;
* URL parser and ids: a field is what its delimiters enclose, and lies in the URL;
  an id is one that is written there;
* muxer: the packets of both inputs, each in order, neither ahead of the other;
* program: muxes once, when both streams are complete, and keeps its inputs until
  then.

## 2. The modules

| Module | Models | Abstracts |
|---|---|---|
| `InfoService` | what the pipeline promises a caller of `ytdl_dl_get_info` | - |
| `InfoQueue` | `dl.c` 1-297, one action per callback or call | a video is the number of its call, a piece of a body is the request it answers, a player file is its path |
| `InfoQueueProofs` | theorems about `InfoQueue` | - |
| `Connection` | the order of ready, status and close callbacks a user of a client may see | - |
| `HttpClient` | `http.c`, `tcp.c`: handles, handshake, poll loop, write queue, close chain | bytes; results of OpenSSL and libuv are choices |
| `HttpClientProofs` | theorems about `HttpClient` | - |
| `MediaDownload` | `dl.c` 338-594 | bytes are numbered, a response is a range, an error page or a redirect |
| `MediaDownloadProofs` | theorems about `MediaDownload` | - |
| `DashDownload` | `dl.c` 596-857, `dash.c` 10-243 | a manifest is a sequence of sets of representations, a segment its name |
| `DashDownloadProofs` | theorems about `DashDownload` | - |
| `Mux` | `mux.c` | a packet is its stream and its time |
| `VideoJoin` | `cli.c` 23-130, 226-405, on `Mux` | a download is its start, data, end and shutdown |
| `VideoJoinProofs` | theorems about `VideoJoin` and `Mux` | - |
| `SigActions` | `sig.c` 101-324, `info.c` 504-550 | a player is its helper functions and the calls of them |
| `FormatUrl` | `info.c` 222-260, 363-414, 449-600, `cli.c` 312-381, on `SigActions` | an address is its kind, its signature and how often the player's function was applied |
| `PlayerTable` | what users of the player map are promised | - |
| `PlayerMap` | `hashmap.c` 25-465 | hash functions are a parameter |
| `PlayerMapProofs` | theorems about `PlayerMap` | - |
| `UrlParser` | `url_parser.c` | one character for each class that the code tells apart; integers keep a width |
| `VideoId` | `net.c` 8-34, 238-299, on `UrlParser` | the hosts and the length of an id are parameters |
| `AddressProofs` | theorems about `FormatUrl`, `UrlParser` and `VideoId` | - |
| `PlayerCache` | `dl.c` 299-336, `sig.c` 354-393, `cli.c` 408-417, 505-515 | the file is a sequence of fields |
| `PlayerCacheProofs` | theorems about `PlayerCache` | - |

Each module that is checked has an `MC` module, the instance that the
configurations run.

### InfoQueue

`queue`, `size`, `status`, `player_js`, `player_map` are fields of
`ytdl_dl_ctx_t`; `response` and `player_url` are fields of the videos; `handler`
says which callbacks are installed in `parser_settings`; `net` and `wire` stand
for `ctx->http`: the state of the connection in the words of `Connection`, and
the requests that were written and not answered in full.

Each callback is one action with all it calls: `ytdl__connected_cb` includes
`ytdl__dl_wake`, `ytdl__watch_html_complete` includes the extraction, the lookup
of the player, the request for its file or the first half of
`ytdl__dl_finalize`. The exception is the call of `on_complete` in the middle of
`ytdl__dl_finalize`: `cb` is set, the caller may make calls
(`ytdl_dl_get_info`, `ytdl_dl_shutdown`), and the rest of the function is the
action `ytdl__dl_finalize`. While `cb` is set no libuv callback runs.

The store into `videos[len]` that `dl.c:227` makes after a reallocation that did
not enlarge the array is modelled as landing in the slack of malloc's block
(`MallocSlots` pointers); what would happen beyond is not modelled.

### HttpClient

One variable per libuv request or handle, `ssl` for the session pointer, `pc` for
the place in the poll callback where the user's read callback runs and, after it,
the write half. `SSL_connect`, `SSL_read_ex`, `SSL_get_error` and libuv return
any result they document. `fault` collects every misuse of a handle or a freed
session. `sent` is a ghost: what the peer knows of the writes. Several writes may
be queued; they leave the queue from its end.

### MediaDownload

`reqs` holds the ranges that were requested, `stage`, `pos` and `end` the place of
the parser in the response to the first of them, `got` and `intact` what
`on_data` received. The server may answer a range in full, refuse one that starts
behind the end, send an error or redirect. `odd` records what a server did that
the code does not withstand; a server with `odd = {}` is an `OrdinaryServer`.

### DashDownload

One context per stream, indexed by the stream; the second does not exist
(`net = "none"`) until the first is forked inside `ytdl__dash_close_cb`, where
`cli.c` calls `ytdl_dl_dash_ctx_fork` and `ytdl_dl_dash_load_fork`. `path` and
`next` are the position of the segment iterator, `AskInitial`, `AskListed` and
`Complete` its three ways to return. Which representation is downloaded is
computed by `Picked` the way the code does, one set after the other and one
representation after the other with the best so far carried along, and by `Best`
from the whole manifest at once. A representation has a base URL or none
(`base`), and `Located` says for which manifests `ytdl_dash_get_format` leaves a
base URL in both contexts; for the others `ytdl__dash_close_cb` ends in `Crashed`,
the `strlen` of a null pointer at `dl.c:692`. `asked` and `got` record what was requested
and what `on_data` received. `uaf` records that the manifest is used after
`ytdl__dl_dash_shutdown` freed it.

### VideoJoin

The fields of `ytdl_cli_video_t` for every video and stream, the temporary files
and what became of them. `ctx` is the download in the words its user knows.
`Complete` includes the mux, the removal of the files and the freeing, as
`ytdl__dash_complete` and `ytdl__media_complete` do. `output` is what the muxer
made last: nothing, or the packets that `Written` of `Mux` computes for inputs
that may end at any packet, because a file is damaged or an error ends it.

### PlayerCache

`main` loads the file in one action, since nothing interleaves with it. A save is
one action per player, so that `Torn` can end it at any field: the process ends,
or a write fails, which the code does not look at. The stream is buffered,
so what is on the disk is any prefix of what was written. `Remains` tells three
pieces of a field apart: a piece of a path, of actions in front of the length of
the bytecode, and of actions behind it. A file that ends with the second, or
behind a path, leaves that length 0, and `js_malloc` aborts the program
(`quickjs.c:1698`, an assertion, which the default build keeps): the phase is
`"aborted"` and the file stays. One that ends with the third is loaded, and the
player is `"broken"`: bytecode that was not read is whatever the memory held, the
result of reading it is ignored, and the pipeline does not download the player
again.

### SigActions and FormatUrl

`ytdl_sig_actions_extract` reads a player: names of helpers by what stands in
front of the colon, one for each kind, calls of other names dropped, the table
full at the call after the last that fits. `Deciphered` applies the actions to a
buffer with a NUL, in which a write past the end is `Corrupt`; `PlayerDeciphered`
is what JavaScript would do with the same calls. `FormatUrl` runs the part of
`ytdl__info_complete` for a video without a manifest, in which the address of a
format is asked for up to four times and built once. A crash (a division by zero,
a null pointer, a buffer left) is the stage `"crashed"`; what follows is not
modelled. The loops over formats and actions are recursive functions whose value
at i is what the loop holds after i rounds (`VideoScan`, `AudioScan`, `Tables`,
`Buffers`). The specification is `AddressSpec`, so that `AddressProofs` can speak
of it next to that of `VideoId`.

### PlayerMap

`table`, `table_size_init` and `size` are the fields of `struct hashmap_base`.
Every operation is one action, with the growth it may cause; where `calloc` or
`realloc` may fail there is a disjunct for it. `hash` is chosen at the start. An
iteration is a sequence of actions between which only lookups may come, as
`hashmap.h` demands; `visited`, `start`, `removing` and `wrapped` record its
course. Entries have no copies of their keys, as in the library.

### UrlParser and VideoId

The two `switch` statements are sets of moves from states on characters to a
state, and one step of the model is one iteration of a loop. The URL is chosen
while it is read, so that URLs with a common beginning share their states. Offsets
and lengths are taken modulo `Width`, which is 2^16 in the code and 16 in the
run, so that URLs that are longer exist. `AsWritten` is the reference: it reads
the fields from the delimiters, without an automaton. `VideoId` adds the answer
of `ytdl_net_get_id_from_url`, character fetches by offset included.

### How they fit

`HttpClient` implements `Connection` (checked), and the `net` variables of
`InfoQueue` and `MediaDownload` take only the moves of `Connection` that their
callers cause. The user of `HttpClient` is assumed to behave as those two
do: it shuts down only a client that became ready and does not write from a write
callback. It may write while writes are pending, which they never do
(`RepliesReachTheirOwner`: one request in flight); the order in which the client
then sends is not the order of the calls, and no property claims it.

`VideoJoin` assumes of a download what `DataIntact` or `SegmentsInOrder`,
`DownloadSettles` or `StreamsSettle`, and `TeardownCloses` of `MediaDownload` and
`DashDownload` say: it completes once, with everything, or is lost, and a shutdown
ends. `PlayerCache` is where the set of players comes from that `InfoQueue` starts
with; `player_map` of `InfoQueue` is the partial function that `PlayerMap` is shown
to implement. `FormatUrl` makes the addresses that `MediaDownload` starts with,
`UrlParser` takes them apart, and `MuxedInPace` is about the files the downloads
leave.

## 3. The runs

| Run | Shows | Bounds |
|---|---|---|
| `InfoQueue` | type, safety and liveness of the pipeline, refinement of `InfoService` | 3 calls, 2 players, 2 body pieces |
| `HttpClient` | the same for the client, refinement of `Connection` | 3 writes, 2 lives of the client |
| `MediaDownload` | integrity, plan of ranges, liveness | chunks of 3 bytes, files of 1 to 8 bytes, 2 redirects |
| `DashDownload` | best representation, order and completeness of both streams, which manifests crash the program, liveness | 6 manifests, up to 3 representations and 3 segments, 2 pieces of a manifest |
| `VideoJoin` | one mux after both downloads, its order of packets, nothing used once freed, liveness | 2 videos, each with either kind of download; 2 and 3 packets |
| `PlayerCache` | what a start finds after a complete and after a torn save, and when it aborts | 4 players, one with a long path, 4 starts |
| `FormatUrl` | choice of formats, signatures, no crash on sound input | 3 calls, arguments to 5, signatures of 3 and 4 characters, 3 formats, a table for 3 actions |
| `PlayerMap` | refinement of `PlayerTable`, iteration, reservations | 5 keys, 4 hash functions, tables of 4 to 16 slots |
| `VideoId` | fields in the URL, fields and port as written, ids as written | URLs of up to 18 characters of 8 shapes, offsets below 16, ports to 50 |
| `InfoQueueFull` | `QueueFits` is violated | 2 calls |
| `HttpClientOk` | `OkMeansSent` is violated | 1 write |
| `MediaDownloadRedirect` | `EventFinishedFirst` is violated | a file of 2 bytes, 1 redirect |

Why the bounds are enough. Three calls give a head, a second video that waits and
a third that arrives inside a completion; two players give a buffer that is used
twice, a hit and a miss; two pieces give a response that is interrupted. Two
lives of a client let everything left over from the first meet the second. Eight
bytes in chunks of three give every remainder of the length by the chunk size
with none, one and two full chunks in front. The manifests give streams that end
before and after each other, an empty list, a list without initial segment, one
with a SegmentURL that names no media, a missing list, a missing base URL and a
missing stream, and representations of equal, rising, falling and missing bandwidth in one set and in
several. Two videos are four downloads that end in any order; nothing is shared
between videos. Four starts let a torn save be loaded, saved again, torn again and
loaded. Two and three packets whose times are equal, in between and behind let
each input end first, at every packet. Three calls let each kind of step follow
each other one on a signature that an earlier one has shortened; arguments of 4
and 5 are at and behind the end of its buffer. Five keys fill more than half of a
table of eight, past its end under two of the hash functions, and make a table of
four grow with and without success. The shapes of URLs give every character at
each of the first places and behind the scheme, every authority of five
characters, every path and query long enough for an id and its neighbours, and
fields on both sides of the width of an offset. Section 4 says for which
properties the theorems remove the bounds.

`CHECK_DEADLOCK FALSE` everywhere: a context that was closed, and one whose
connection failed, has nothing left to do.

**InfoQueue.** `RepliesReachTheirOwner` is the reason why crediting a response to
`videos[0]` is right. `NoLostWakeup` says that the idle flag never strands the
queue. `BuffersUnmixed` covers the shared buffer. `ImplementsService` is the
refinement. `EveryCallSettles` lists all the ways in which a call may stay
unanswered: the head was given up (`fault`), the connection was not made or was
lost, or the context is shut down. These are real, the code neither retries nor
reports; they are listed as hazards.

**HttpClient.** `NoHandleMisuse` and `QuietAfterClose` cover the chain of close
callbacks, `ImplementsConnection` and `ConnectSettles` the error paths of the
connect, `WritesSettle` the write queue. `ConnectSettles` names the two ways in
which a connect may stay without an outcome: libuv refuses to resolve the host at
once, a result that `tcp.c:152` ignores, or the peer accepts the connection and
never answers the handshake, which `http.c:407` waits for without a timer.

**MediaDownload.** `DataIntact` holds for an ordinary server: what was handed over
is a beginning of the file, and all of it once `on_complete` was called. Not
ordinary, because the code does not withstand it, is a server that
* answers with an error status, or with 416 to a range inside of the file
  (`error_status`): the text goes to `on_data` and its end counts as a chunk's;
* redirects after data has arrived (`late_redirect`): the download starts again
  from the first byte;
* redirects without a Location (`no_location`): the answer counts as a chunk;
* redirects, be it the first request, and has the rest of that response parsed in
  the read that had Location (`redirect_tail`): the client is closing, but
  `dl.c:445` only starts that, the body goes to `on_data`, and the end of the
  message (`dl.c:348` to `dl.c:372`) asks for a chunk on that client or completes
  the download. A response that arrives in one piece is of this kind; withstood
  are only redirects of the first request that are cut directly behind the value
  of Location. `MediaDownloadRedirect` shows the other case.

`NoStaleUse`, `DownloadSettles` and `TeardownCloses` have the same exemptions.
Only a length that is one more than a
multiple of the chunk size makes the code ask for a range behind the end
(`PastEndOnlyAtBoundary`); the 416 that follows goes to `on_data`, which is why
`DataIntact` exempts it.

**DashDownload.** `SegmentsInOrder` relates the representation picked and the
iterator to the requests and to what arrives. Lists with a SegmentURL without
media are exempt from completeness: behind it the code takes the stream for
complete. A manifest that lacks a SegmentList counts as complete with no segment,
as the code has it. One whose best representation lacks a base URL, of either
stream, or that lacks a stream (`dash.c:107` returns before it reads any base URL)
crashes the program before a segment is asked for: `SegmentsInOrder` says that it
crashes for those and for no others, and that for those no stream gets as far as
its segments. `StreamsSettle` says that neither stream holds up the other, and
names the crash.

**VideoJoin.** `MuxedOnceComplete`, `NoUseAfterFree` and `EveryVideoSettles` are
about whichever download is second, `MuxedInPace` about the file that comes out. A
lost download leaves its video waiting for ever with the files in place; a failed
mux removes them. Both are what the code does and are listed as hazards.

**PlayerCache.** `SavedIsLoaded` exempts paths of more than 99 characters, which
the rest of the library allows and the loader does not. `NothingInvented` bounds
what a torn save can do: the end of the file is lost and at most one player broken
for each, or the next start aborts; no other save makes one abort. The code repairs
neither: a broken player is found in the map, not downloaded, and saved again, and
a start that aborts leaves the file as it is, so that every later start aborts too.

**FormatUrl.** `DecipheredAsPlayer` compares the C buffer with the player's own
code, for players laid out as the code expects (`IsPlain`) and signatures as long
as the calls need (`FitsLength`). Outside of these, calls are dropped without an
error and buffers are left: `sig.h` says that extraction returns "-1 for any
error", but what it does not recognise is not an error to it. `ChosenIsBest` says
what the two scores amount to: an audio format with video is never preferred to
the first of the list. `SoundInputSurvives` names every way to crash.

**PlayerMap.** `ImplementsMap` is the refinement. `ReservationHolds` is the promise
of `hashmap_reserve`. `VisitsEach` is about iterations, with one exemption: when a
chain goes past the end of the table and entries are removed on the way, an entry
may be moved from the front to the end, in front of the iterator, and be visited
a second time.

**VideoId.** `FieldsInBuffer` holds for URLs of any length, `ParsedAsWritten` and
`IdAsWritten` for those whose offsets fit. `IdAsWritten` states what an answer
means and that the usual forms are found. It does not say that the answer is the
id of a video: the beginning of a known host passes the test at `net.c:247`, and a
path of several segments (`HasSegments`: a slash behind its first character) is
checked at its beginning and copied from its end. A path need not begin with a
slash, a URL may consist of `*` and what follows; one of the shapes is for those.

**Violations.** The three runs show disagreements between the code and what the
repository says of it; `PROJECT.json` quotes both sides under `findings`. Three
more can be shown by changing one line. With `EarlyShutdown = TRUE`,
`NoUseAfterFree` fails in `InfoQueue` (a context shut down while it connects,
`dl.c:264`) and, added to the configuration, in `DashDownload` (one shut down
while the connection of its manifest closes, `dl.c:816`), although the comments at
`dl.c:292` and `dl.c:851` say that the event in progress is finished first; no
caller in the repository does that. And `SSL_connect` returning 0 counts as a
complete handshake (`http.c:404`), in the model too.

### Fairness

Each module says apart what the loop gives and what is assumed of the peer.

`LoopFairness`: libuv runs every callback whose event has happened, so the actions
that model such callbacks are weakly fair. That the resolver and the connect of
TCP end, one way or the other, is their own timeout. `on_complete` returns;
nothing else is assumed of the caller.

Nothing in the code has a timer, so that a peer which accepts the connection and
keeps silent holds up a TLS handshake (`http.c:407`) or a response for ever.
`HttpClient` assumes nothing of the handshake: `ConnectSettles` has the silent
peer as an exemption. Its `PeerReceives` assumes that a connected peer receives
what it is sent, or the connection ends: then the socket, which is polled for
writing, becomes writable again and again but not in every round, so `PollWrite`
is strongly fair. `InfoQueue` and `MediaDownload` (`ServerAnswers`) and
`DashDownload` (`ServersAnswer`) assume of a server that it answers the handshake
or the attempt fails, and that it completes a response it owes while it stays
connected; the loss of the connection remains possible at every moment.
`EveryCallSettles`, `DownloadSettles`, `StreamsSettle` and what `VideoJoin` builds
on them hold under that assumption only.

## 4. The proofs

Each theorem holds for every value of the constants that the named assumption of
the module allows; TLC evaluates the assumptions in every run. Each inductive
invariant was first checked by TLC on the instance of the run.

| Theorem | States | Assumes |
|---|---|---|
| `TypeCorrect`, `RepliesAreOwned`, `NoWakeupIsLost`, `BuffersStayUnmixed` | `TypeOK`, `RepliesReachTheirOwner`, `NoLostWakeup`, `BuffersUnmixed` of `InfoQueue` | |
| `FreedMemoryIsUnused`, `PipelineImplementsService` | `NoUseAfterFree`, `ImplementsService` | `~EarlyShutdown` |
| `ClientTypes` | `TypeOK` of `HttpClient` | |
| `NoMisuse`, `QuietOnceClosed`, `ClientIsConnection` | `NoHandleMisuse`, `QuietAfterClose`, `ImplementsConnection` | `~EarlyShutdown` |
| `DownloadTypes`, `PastEndAtBoundary`, `ChunksJoinUp`, `NothingStale` | `TypeOK`, `PastEndOnlyAtBoundary`, `DataIntact`, `NoStaleUse` of `MediaDownload` | |
| `BestIsPicked` | `Picked` finds `Best`, in every manifest | |
| `SegmentsArriveInOrder` | `SegmentsInOrder` of `DashDownload` | |
| `FreedContextIsUnused` | `NoUseAfterFree` of `DashDownload` | `~EarlyShutdown` |
| `MuxLoopEnds` | the loop of the muxer ends, all that can be read is written | |
| `MuxesOnce`, `MuxesInPace`, `SharedVideoIsSafe` | `MuxedOnceComplete`, `MuxedInPace`, `NoUseAfterFree` of `VideoJoin` | |
| `SaveThenLoad`, `OnlyWhatWasSaved` | `SavedIsLoaded`, `NothingInvented` of `PlayerCache` | |
| `MapTypes`, `ReservationKept`, `EachIsVisited`, `MapImplementsTable` | `TypeOK`, `ReservationHolds`, `VisitsEach`, `ImplementsMap` of `PlayerMap` | |
| `BestAreDownloaded`, `SignedAsPlayer`, `SoundInputIsSafe` | `ChosenIsBest`, `DecipheredAsPlayer`, `SoundInputSurvives` of `FormatUrl` | |
| `FieldsStayInBuffer`, `FieldsAreWritten` | `FieldsInBuffer`, `ParsedAsWritten` of `UrlParser`, in every behaviour of `VideoId` | |
| `IdsAreWritten` | `IdAsWritten` of `VideoId` | |

`~EarlyShutdown` is the behaviour of the callers in the repository: a context is
shut down once it is connected, and a manifest's after `on_complete`. Without it
the statements are false, as section 3 says. `PlayerCache` assumes that the
players are a finite set, which a map in memory is; `Mux` that the times of a
stream's packets do not fall; `PlayerMap` that the keys, and what is reserved, fit
into the largest table whose size the code can compute (2^30 slots, `hashmap.c` 50
shifts an int) and that the two size constants are powers of 2 from 4 on;
`SigActions` that no character of a signature is the NUL that ends it, and that the
helpers of a player's object have different names, as properties of a JavaScript
object do; `FormatUrl` that sizes and rates of formats are naturals; `UrlParser`
that the templates are made of characters and `VideoId` that an id has at least
one. Neither the characters of a URL nor the hosts are restricted otherwise.

**InfoQueue.** The inductive invariant is `Pipeline`. `TypeOK` and
`RepliesReachTheirOwner` are not inductive: that a completion callback finds the
right request needs to know that a client that was never ready has no request in
flight (`ConnectionInv`), and that a queue which is served has exactly one
(`ServingInv`), including while `on_complete` runs. On top of it `BufferInv` says
whose pieces a buffer may hold at each stage, `TeardownInv` that after the
teardown the connection is closing or closed, and `OrderInv` that the queue holds
the calls not yet answered, in order, which is what the refinement needs: the next
delivery is the head's.

**HttpClient.** `Lifecycle` says which handles and requests exist in each stage of
a client's life. `ConnectingInv`: the resolver, the connect request and the
handshake follow each other, and nothing is under way after an error.
`UnreadyInv`: a client that is not ready has neither a poll handle nor a write nor
a shutdown. `ReadyInv`: the session lasts until the idle handle of the shutdown
has run. `ShutdownInv`: how far the close chain has come, which is why `on_close`
comes last. The refinement maps the stage to the state of `Connection`; each
action is one of its steps or none.

**MediaDownload.** `PlanInv` holds whatever the server does: the end of the last
chunk is a multiple of the chunk size inside of the file, so a range behind the
end is asked for only at the boundary. `OrdinaryInv` follows one download as long
as `odd` is empty: what was received, what the response in progress still brings
and what is in flight are adjacent ranges that begin at the first byte
(`RequestInv`, `RestInv`), and `ConnectionInv` says what a redirect may interrupt.

**DashDownload.** `BestIsPicked` compares the scan with its meaning by induction
over the representations of a set (`SetIsPicked`) and over the sets
(`PickedIsBest`): after any number of them the candidate is the first of greatest
bandwidth so far. In `DashInv`, `IteratorInv` derives the position of the iterator
from the number of segments it has returned, `RequestInv` says that only the last
request may be unanswered, `HandedInv` that what was handed over is a beginning of
what was asked for, and all of it but what is outstanding. `StageInv` says that the
second context does not exist until the manifest is loaded, and that both are then
loaded together. `PlacedInvariant` adds which manifests that is: by `BestIsPicked`
the base URLs the code tests are those of the best representations.

**VideoJoin and Mux.** `LoopInv` is the invariant of the loop in
`ytdl_mux_files`: the counters are the packets written, in order, and a stream
that goes on has come at least as far as the last packet but one of the other
(`Behind`); that is what keeps the pace when the next packet is chosen. Each round
writes a packet or ends a stream, so `MuxLoopEnds` counts the rounds. `JoinInv`
relates the two downloads of a video (`PairInv`): the one that is complete has
stopped, one that runs has its file open, and the video was muxed, and its files
removed, exactly if it was freed, which is when both are complete.

**PlayerCache.** `CacheInv` describes the file field by field (`EntryInv`): each
pair is the path and the actions of a player that was saved, no player twice, and
only the last may be incomplete, if a save was torn. So only such a file lacks the
length of a player's bytecode (`AbortFacts`). Loading one that has it is then shown
to return exactly the entries (`LoadFacts`); `BrokenInv` counts the torn saves.

**PlayerMap.** `Sound` is what linear probing needs of a table, whatever the hash
function: no two entries have the same key (`Unique`), every slot between the one
at which the search for an entry begins and the one it is in is occupied
(`Reachable`), and there is a slot that no search comes by, so that the circle may
be cut open in front of it (`Uncrossed`). An insertion fills the first empty slot,
behind which the new cut is (`StoreFacts`), and growth is a sequence of insertions
(`RehashFacts`). The removal loop is an induction with `ShiftInv`: with the hole
emptied, every other entry is `Found` by a search that takes the hole for
occupied, and no entry between the hole and the slot that was reached is searched
for at the hole or before. It ends at an empty slot, at the cut, or after as many
steps as there are entries, and in each case no search comes by the hole
(`ShiftEnds`). `ReservedInv` says that the reserved entries fit into the size to
which a reset goes back. The refinement reads the content of the map off the set of
entries (`ContentOf`). For iterations, `MovesInv` follows the removal loop a second
time: entries move towards the slot of the removed one, and none is moved past
the end of the table unless a chain is wrapped; `VisitInv` says that what is
behind the iterator was not visited yet, and all the rest was.

**FormatUrl.** For the choice, what a scan has found after i formats is the best of
the first i (`VideoBest`, `AudioBest`). For the signature, each action that was
extracted is matched with the call it was read from: as long as the calls fit, the
buffer after i actions is the player's text after i calls, a NUL, and bytes that no
later action reads (`Extracted`, `Holds`). `CacheInv` says that an address, once
built, is the one `Completed` from the format's own parts with the function
applied once, and `RequestInv` that the downloads ask for that one.

**UrlParser.** `Bounded` holds for any width of the offsets: a field ends at or in
front of the character that is read, because a wrapped offset or length is only
smaller than the true one, and the second automaton ends where the host did. The
fields of URLs that fit are described by the places of the delimiters in what was
read so far, a place that is not found yet being the one behind the last
character (`Colon`, `To`, `PathEnd`, `HashAt`, `FragmentAt`; `PlacesGrown` is how
the next character moves them). `UrlRead` says for each state of the first
automaton where these places are and that each field lies between its two
(`Piece`); `AuthorityRead` does so for the second, inside of the authority. At the
end both give `ParsedRead`, and the places are those of `AsWritten`
(`PlacesWritten`).

**VideoId.** `IdRight` is `IdAsWritten` said of the fields instead of the written
parts; `ParsedAsWritten` makes them the same. An id from the path ends where the
path does (`PathMatch`); one from the query ends in front of the end of the query
unless its last character is the `#`, or the NUL, behind it, which is no character
of an id (`QueryMatch`). That is why the last place at which `v=` is looked for, one
character too far, does no harm. `UsualPath` and `UsualQuery` show that the two
usual forms are found, and by the right branch.

Proofs about loops use induction for sets of naturals (`NatInd`) and the values of
recursive functions (`Recursed`, `Iterated`), which the modules that need them
derive from the well-foundedness of the naturals.

Only model-checked:

* all liveness (`EveryCallSettles`, `ShutdownCloses`, `ConnectSettles`,
  `WritesSettle`, `ShutdownCompletes`, `DownloadSettles`, `StreamsSettle`,
  `EveryVideoSettles`, `TeardownCloses`), which is out of the reach of TLAPS.

Every invariant and every refinement that a passing run checks is also a theorem.

## 5. What is not modelled

* Allocation failures.
* The plain TCP branch of the client: every caller asks for TLS.
* Malformed responses. llhttp's error is reported through `status_cb`, which
  prints.
* The value of uninitialised memory (`on_chunk_complete`, dl.c:364).
* The order in which the teardown of a context frees its parts.
* Text processing: HTML, JSON, the regular expressions that find a player's
  object and function, JavaScript, request texts.
* libavformat's set-up, frames out of order, and packets of streams that are not
  copied (`mux.c:15`).
* Copies of keys in the player map, its hash functions and statistics.
* `http_parser_parse_url` for CONNECT.
* Headers in several pieces (`dl.c:432`, `dl.c:451`).
* Vendored libraries. QuickJS, yyjson, libregexp, libunicode, `cutils`, llhttp and
  their headers and tables are nine tenths of the lines of C in the repository;
  the models cover the library's own code.

## 6. Plan

Done: `InfoQueue`, `HttpClient` and `MediaDownload` with their abstract
specifications, `DashDownload`, `Mux` and `VideoJoin`, `PlayerCache`, `SigActions`
and `FormatUrl`, `PlayerMap` with its abstract specification, `UrlParser` and
`VideoId`; the proofs of section 4.

1. Headers in pieces (`dl.c:432`, `dl.c:451`), by splitting the header callbacks of
   `MediaDownload` into one step per piece.
2. The plain TCP branch of `HttpClient`, once a caller uses it.
