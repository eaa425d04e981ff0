--------------------------- MODULE MCBufferQueues ---------------------------
(* Four buffers, two chains, five blocks: three of chain 0, two of chain 1. *)
EXTENDS BufferQueues, TLC

CONSTANTS k1, k2, k3, k4, k5

HashOf == (k1 :> 0) @@ (k2 :> 0) @@ (k3 :> 0) @@ (k4 :> 1) @@ (k5 :> 1)
=============================================================================
