SPECIFICATION FairFeedSpec
CONSTANTS
  Conns = {c1, c2, c3}
  Nil = nil
  MaxReconnectAttempts = 2
  GuardedReset = TRUE
  MaxInbox = 1
  Subs <- MCSubs
  HasTxClient = TRUE
  Second = 1
  TokenLife = 6
  MaxTokenLife = 7
  None = none
  MaxClock = 1
  Handlers = {h1}
  PauseOutlasts = TRUE
INVARIANTS
  FeedTypeOK
  NoMarketLeftOut
  RenewedInTime
PROPERTIES
  ImplementsFeed
  FeedComesBack
\* Run gives up, and the system stops.
CHECK_DEADLOCK FALSE
