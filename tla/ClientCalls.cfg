SPECIFICATION FairSpec
CONSTANTS
  a1 = a1
  a2 = a2
  l1 = l1
  l2 = l2
  NoThread = NoThread
  Apps <- TwoApps
  Losses <- TwoLosses
  Reconnect = TRUE
  UnsubscribeOnDisconnect = TRUE
  Budgets <- EveryKind
INVARIANTS
  OneOperation
  AnswersAreAwaited
  ConnectedHasLink
  SubscriptionsOnBroker
PROPERTIES
  CallsReturn
CHECK_DEADLOCK FALSE
