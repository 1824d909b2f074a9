--------------------------- MODULE MCDashDownload ---------------------------
(* Instance of DashDownload for TLC.  Among the manifests are streams of   *)
(* different lengths, with and without an initial segment, an empty list,  *)
(* a SegmentURL without media, a manifest that lacks a SegmentList, one    *)
(* whose best video has no base URL, one without audio, equal, rising and  *)
(* missing bandwidths, and sets of media that are not asked for.           *)
EXTENDS DashDownload

Rep(bandwidth, initial, list) ==
  [bandwidth |-> bandwidth, base |-> TRUE, segmented |-> TRUE,
   initial |-> initial, list |-> list]
Bare(bandwidth) == [Rep(bandwidth, 1, <<2>>) EXCEPT !.segmented = FALSE]
Nowhere(bandwidth) == [Rep(bandwidth, 1, <<2>>) EXCEPT !.base = FALSE]
Set(type, representations) == [type |-> type, representations |-> representations]

MCManifests ==
  { <<Set("audio", <<Rep(5, 0, <<1, 2>>), Rep(5, 3, <<4>>)>>),
      Set("video", <<Rep(1, 3, <<>>), Rep(2, 0, <<1>>)>>)>>,
    <<Set("video", <<Rep(3, 0, <<>>)>>), Set("text", <<Rep(9, 5, <<5>>)>>),
      Set("audio", <<Rep(Null, 3, <<4>>), Rep(4, Null, <<1, 2>>), Rep(2, 5, <<6>>)>>)>>,
    <<Set("audio", <<Rep(1, 0, <<1, Null, 3>>)>>),
      Set("video", <<Rep(1, 3, <<4>>)>>), Set("video", <<Rep(2, Null, <<1>>)>>)>>,
    <<Set("audio", <<Rep(1, 0, <<1>>), Bare(2)>>), Set("video", <<Rep(1, 0, <<1>>)>>)>>,
    <<Set("audio", <<Nowhere(1), Rep(2, 0, <<1>>)>>),
      Set("video", <<Rep(1, 0, <<1>>), Nowhere(2)>>)>>,
    <<Set("video", <<Rep(1, 0, <<1>>)>>)>> }
=============================================================================
