--------------------------- MODULE MCMessagePipeline ---------------------------
(* Constants for the model checker. *)
EXTENDS MessagePipeline

CONSTANTS c1, c2, w1, w2

MCPair == {c1, c2}
Three  == (c1 :> 3) @@ (c2 :> 1)
Two    == (c1 :> 2) @@ (c2 :> 1)
=============================================================================
