SPECIFICATION DeliverySpec
CONSTANTS
  e1 = e1
  e2 = e2
  b2 = b2
  r1 = r1
  r2 = r2
  NoSeq = NoSeq
  NULL = NULL
  Seqs <- MCSeqs
  SeqMax <- MCSeqMax
  Readers = {r1, r2}
  Observed = r1
  Loan = e1
  MaxMessages = 6
  MaxArrivals = 4
INVARIANTS
  NothingWaitsUnannounced
  NoCallIntoFreedReader
PROPERTIES
  KeepsInboxPromise
  EveryMessageRead
CHECK_DEADLOCK FALSE
