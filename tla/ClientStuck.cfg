SPECIFICATION Spec
CONSTANTS
  a1 = a1
  a2 = a2
  l1 = l1
  l2 = l2
  NoThread = NoThread
  Apps <- OneApp
  Losses <- NoLoss
  Reconnect = TRUE
  UnsubscribeOnDisconnect = TRUE
  Budgets <- TwoCalls
INVARIANTS
  NoTransientStateLeft
CHECK_DEADLOCK FALSE
