SPECIFICATION FairSpec
CONSTANTS
  BadKey = BadKey
  None = None
  p1 = p1
  p2 = p2
  Threads = {t1}
  Logins <- MCLogins
  CInts <- MCCInts
  CNonces <- MCNonces
  MaxNonce = 1
INVARIANTS
  TypeOK
  SignsForTheSelected
  CheckedKeySigns
PROPERTIES
  ImplementsSigner
  EveryCallReturns
