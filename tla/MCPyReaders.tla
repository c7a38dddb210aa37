----------------------------- MODULE MCPyReaders -----------------------------
(* Instances of PyReaders for TLC. *)
EXTENDS PyReaders

CONSTANTS a, b, camera, t1, t2

\* Two files of a stream each, with the same id in their files.
MCStreams == {a, b}
MCFileId == [s \in MCStreams |-> a]
MCTypeIdOf == [s \in MCStreams |-> camera]

MCStream == (0 :> a) @@ (1 :> b) @@ (2 :> a) @@ (3 :> b) @@ (4 :> a) @@ (5 :> b)
MCType == (0 :> "configuration") @@ (1 :> "configuration") @@ (2 :> "data")
            @@ (3 :> "data") @@ (4 :> "data") @@ (5 :> "state")
MCTimestamp == (0 :> 0) @@ (1 :> 0) @@ (2 :> 1) @@ (3 :> 2) @@ (4 :> 2) @@ (5 :> 4)

\* What differs between one file and several is only what is asked for.
MCReaders == {[async |-> TRUE, multi |-> FALSE], [async |-> FALSE, multi |-> FALSE],
              [async |-> FALSE, multi |-> TRUE]}
MCItems == {-1}
MCTasks == {t1, t2}

\* Patterns that match one stream, and none.
MCFilterCalls ==
  {[stream_ids |-> {{a}, {camera}}, record_types |-> {{"data"}, {"state"}},
    min_timestamp |-> None, max_timestamp |-> None],
   [stream_ids |-> None, record_types |-> None,
    min_timestamp |-> 1, max_timestamp |-> 2]}
MCSliceCalls == {<<1, -1, 2>>}
MCTimes == {0, 2, 3, 5}
MCEpsilons == {0, 1}

\* Up to four pieces of two types with the labels a, b and a<t>, in every order.
MCPieces == [label : {<<"a">>, <<"b">>, <<"a", "<", "t">>}, type : {"t", "u"}]
MCPieceLists ==
  {pieces \in UNION {[1..n -> MCPieces] : n \in 0..4} :
     \A j, k \in DOMAIN pieces : pieces[j] = pieces[k] => j = k}
=============================================================================
