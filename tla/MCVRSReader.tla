----------------------------- MODULE MCVRSReader -----------------------------
(* Instances of VRSReader for TLC. *)
EXTENDS VRSReader

CONSTANTS s1, s2, camera

MCStreams == {s1, s2}
MCFileId == [s \in MCStreams |-> s]
MCTypeIdOf == [s \in MCStreams |-> camera]

\* Two configurations of s1, one of s2, data of both under each.
MCStream == (0 :> s1) @@ (1 :> s2) @@ (2 :> s1) @@ (3 :> s2) @@ (4 :> s1) @@ (5 :> s1)
MCType == (0 :> "configuration") @@ (1 :> "configuration") @@ (2 :> "data")
            @@ (3 :> "data") @@ (4 :> "configuration") @@ (5 :> "data")
MCTimestamp == (0 :> 0) @@ (1 :> 0) @@ (2 :> 1) @@ (3 :> 2) @@ (4 :> 2) @@ (5 :> 4)
MCBlocks == (0 :> <<"layout">>) @@ (1 :> <<"layout">>) @@ (2 :> <<"layout", "image">>)
            @@ (3 :> <<"layout", "image", "audio", "image">>) @@ (4 :> <<"layout">>)
            @@ (5 :> <<"layout", "image">>)
MCBroken == {2, 4}
MCData == {"data", "state"}
=============================================================================
