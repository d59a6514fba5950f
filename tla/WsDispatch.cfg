SPECIFICATION ReadSpec
CONSTANTS
  Traffic <- MCTraffic
  Registered <- MCRegistered
  MaxMessages = 2
INVARIANTS
  TypeOK
  ErrorsAreNotData
  BookReachesItsMarket
PROPERTIES
  ReadsOn
\* All messages are read and handled.
CHECK_DEADLOCK FALSE
