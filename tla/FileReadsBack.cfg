SPECIFICATION FairSpec
CONSTANTS
  InitialTexts <- MCTexts
  MaxSamples = 2
  BatchSizes <- MCBatchSizes
  WriteSizes <- MCWriteSizes
  Divisors <- MCDivisors
INVARIANTS
  ReadBack
  WithinArrays
PROPERTIES
  EverySampleServed
CHECK_DEADLOCK FALSE
