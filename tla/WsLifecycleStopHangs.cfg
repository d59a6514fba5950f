SPECIFICATION AliveSpec
CONSTANTS
  Conns = {c1, c2, c3}
  Nil = nil
  MaxReconnectAttempts = 2
  GuardedReset = FALSE
  MaxInbox = 1
PROPERTIES
  StopReturns
\* Both Run and Stop return, and the system stops.
CHECK_DEADLOCK FALSE
