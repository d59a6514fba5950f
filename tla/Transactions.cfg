SPECIFICATION TxSpec
CONSTANTS
  Submissions <- MCSubmissions
  Calls <- MCCalls
  GroupCalls <- MCGroupCalls
  Memos = {"m1", "m2"}
  Uint8 = 8
  Uint16 = 16
  Uint32 = 32
  Mantissa = 64
  DefaultOrderExpiry = 5
  MaxAccountIndex = 62
  MaxMasterAccountIndex = 31
  MaxTimestamp = 63
  MaxClientOrderIndex = 63
  MaxOrderIndex = 254
  MaxOrderBaseAmount = 2
  MaxExchangeUSDC = 400
  MaxInitialTotalShares = 200
  FeeTick = 100
  ShareTick = 100
  MarginFractionTick = 10
INVARIANTS
  BoundBySignature
  ReturnedVerifies
  SignedAsAsked
  ChildrenReduceOnly
  OneExpiry
  AcceptedAlone
\* One call is made.
CHECK_DEADLOCK FALSE
