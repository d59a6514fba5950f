SPECIFICATION AliveSpec
CONSTANTS
  Conns = {c1, c2, c3}
  Nil = nil
  MaxReconnectAttempts = 3
  GuardedReset = FALSE
  MaxInbox = 1
INVARIANTS
  TypeOK
  GiveUpIsEarned
  NoSocketLeaks
  StopClosesWhatIsRead
PROPERTIES
  ImplementsSupervisor
  ImplementsSession
  DeadNetworkEndsRun
  PingersEnd
  Reconnects
\* Both Run and Stop return, and the system stops.
CHECK_DEADLOCK FALSE
