---------------------------- MODULE MCFileAdapter ---------------------------
(* Small files: a sample and a malformed line that does not end; two       *)
(* samples.  Blank lines come of a reader that overtakes the writer.       *)
EXTENDS FileAdapter

OneSample(n) == <<HeadOf(n), TailOf(n)>>
MCTexts ==
  { OneSample(1) \o <<Newline, Bad>>,
    OneSample(1) \o <<Newline>> \o OneSample(2) }
MCBatchSizes == {1, 2}
MCWriteSizes == {1, 2}
MCDivisors == {<<2, 3>>, <<0, 3>>}
=============================================================================
