SPECIFICATION StreamSpec
CONSTANTS
  MaxWrites <- FewWrites
  CounterModulus <- SmallWord
  Writers = {w1, w2}
  Observed = w1
  MaxBatch = 2
INVARIANTS
  CountsSettle
  WriteTellsTheTruth
  EveryAnswerCounted
  CountIsPublished
  AnswersFindTheirPublication
  FreedIsForgotten
CHECK_DEADLOCK FALSE
