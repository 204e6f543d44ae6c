----------------------- MODULE MCCircularReceiveQueue -----------------------
(* A ring read by sequences without a buffer (loans) and by one that owns  *)
(* two samples (copies).                                                   *)
EXTENDS CircularReceiveQueue, TLC

CONSTANTS e1, e2, b2

MCSeqs == {e1, e2, b2}
MCSeqMax == e1 :> 0 @@ e2 :> 0 @@ b2 :> 2
=============================================================================
