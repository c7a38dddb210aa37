-------------------------- MODULE MCMultiVRSReader --------------------------
(* Instances of MultiVRSReader for TLC. *)
EXTENDS MultiVRSReader

CONSTANTS a, b, c, camera, imu

\* Stream a is in the first file; b, in the second, has the same id there and
\* a unique one in the index; c, in the second, has its own.
MCStreams == {a, b, c}
MCFileId == (a :> a) @@ (b :> a) @@ (c :> c)
MCTypeIdOf == (a :> camera) @@ (b :> camera) @@ (c :> imu)

MCStream == (0 :> a) @@ (1 :> c) @@ (2 :> b) @@ (3 :> a) @@ (4 :> c) @@ (5 :> b)
              @@ (6 :> c) @@ (7 :> c)
MCType == (0 :> "configuration") @@ (1 :> "configuration") @@ (2 :> "configuration")
            @@ (3 :> "data") @@ (4 :> "data") @@ (5 :> "data")
            @@ (6 :> "configuration") @@ (7 :> "data")
MCTimestamp == (0 :> 0) @@ (1 :> 0) @@ (2 :> 1) @@ (3 :> 2) @@ (4 :> 2) @@ (5 :> 4)
                 @@ (6 :> 5) @@ (7 :> 6)
MCBlocks == [i \in 0..7 |-> IF MCType[i] = "configuration" THEN <<"layout">>
                            ELSE <<"layout", "image">>]

MCBroken == {6}
MCEnableSets == {MCStreams, {a}}
MCReadTypes == {"data", "state"}
MCSkips == {<<imu, {"data"}, 1>>, <<imu, RecordTypes, 0>>}
MCConversions == {<<{c}, "Normalize">>, <<{b, c}, "Off">>}
=============================================================================
