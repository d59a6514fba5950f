SPECIFICATION ReqSpec
CONSTANTS
  c1 = c1
  k1 = k1
  k2 = k2
  a1 = a1
  Clients = {c1}
  Connected = {c1}
  Linked <- MCLinked
  Accounts = {a1}
  ApiKeys = {k1, k2}
  Opts = {o1}
  Templates <- MCTemplates
  Threads = {t1}
  MaxNonce = 1
  None = None
  Requests = {r1, r2}
  MaxSessions = 2
INVARIANTS
  ReqTypeOK
  ExecutedOnce
PROPERTIES
  AnswerComes
\* The instance stops when its requests and sessions are used up.
CHECK_DEADLOCK FALSE
