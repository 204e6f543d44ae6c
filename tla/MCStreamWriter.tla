--------------------------- MODULE MCStreamWriter ---------------------------
(* A few messages and a small word, so that the counters wrap within the   *)
(* run.                                                                    *)
EXTENDS StreamWriter

FewWrites == 3
SmallWord == 3
=============================================================================
