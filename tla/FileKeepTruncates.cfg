SPECIFICATION Spec
CONSTANTS
  InitialTexts <- MCTexts
  MaxSamples = 3
  BatchSizes <- MCBatchSizes
  WriteSizes <- MCWriteSizes
  Divisors <- MCDivisors
PROPERTIES
  KeepLeavesTheFile
CHECK_DEADLOCK FALSE
