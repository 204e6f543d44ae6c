SPECIFICATION Spec
CONSTANTS
  e1 = e1
  e2 = e2
  b2 = b2
  NoSeq = NoSeq
  Seqs <- MCSeqs
  SeqMax <- MCSeqMax
  Capacity = 3
  MaxMessages = 7
INVARIANT
  ReadTakesAllAvailable
CHECK_DEADLOCK FALSE
