CONSTANTS
  Transformations = {t1, t2}
  NoOne = none
  Observed = t1
  Users = {u1, u2}
  FirstUser = u1
  Admin = admin
  Half <- MCHalf
  OutputTypes <- MCOutputTypes
  Fields = {"boolean", "octet", "string", "unknown"}
  Misread = {0, 5}
  Batches <- MCBatches
  Properties <- MCProperties
  Unset <- MCUnset
  DefaultSize = 2
  MaxBatches = 2
SPECIFICATION Spec
INVARIANTS LoanIsFresh ValuesAreKept SizeDecides ListIsLive LeftBehind
PROPERTY CallsEnd
CHECK_DEADLOCK FALSE
