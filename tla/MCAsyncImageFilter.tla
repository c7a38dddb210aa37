------------------------- MODULE MCAsyncImageFilter -------------------------
(* Instances of AsyncImageFilter for TLC. *)
EXTENDS AsyncImageFilter, TLC

\* Two image streams and a copied one; records 0 and 1 are configurations that
\* the time range of the filter leaves out and preRollConfigAndState reads.
MCKind == (0 :> "layout") @@ (1 :> "copied") @@ (2 :> "image") @@ (3 :> "image")
            @@ (4 :> "copied") @@ (5 :> "image") @@ (6 :> "layout") @@ (7 :> "image")
MCTimestamp == (0 :> 0) @@ (1 :> 0) @@ (2 :> 1) @@ (3 :> 2)
            @@ (4 :> 2) @@ (5 :> 3) @@ (6 :> 4) @@ (7 :> 4)
MCSelected == <<2, 3, 4, 5, 6, 7>>
MCPreRoll == {0, 1}

MCNone == {}
MCUnreadable == {4}
=============================================================================
