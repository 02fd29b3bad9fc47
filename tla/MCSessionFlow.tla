--------------------------- MODULE MCSessionFlow ---------------------------
(* TLC instance of SessionFlow: tiny limits, so that every limit is reached. *)
EXTENDS SessionFlow, TLC

CONSTANTS u1, u2, b1

MCInitialMax == "data" :> 1 @@ "uni" :> 0 @@ "bidi" :> 0
MCGrantMax   == "data" :> 2 @@ "uni" :> 1 @@ "bidi" :> 1

\* No credit at first, then one byte, which the second stream exceeds, and two streams,
\* of which the first reaches the replenishment threshold.
MCNone  == "data" :> 0 @@ "uni" :> 0 @@ "bidi" :> 0
MCTight == "data" :> 1 @@ "uni" :> 2 @@ "bidi" :> 1
=============================================================================
