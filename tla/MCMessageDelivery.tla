------------------------- MODULE MCMessageDelivery --------------------------
(* The queue with readers that take loans (e1, e2) and one that owns two   *)
(* samples (b2), and the queue of the first of two stream readers.         *)
EXTENDS MessageDelivery, TLC

CONSTANTS e1, e2, b2, r1, r2

MCSeqs == {e1, e2, b2}
MCSeqMax == e1 :> 0 @@ e2 :> 0 @@ b2 :> 2
=============================================================================
