SPECIFICATION Spec
CONSTANTS
  BadKey = BadKey
  None = None
  p1 = p1
  p2 = p2
  Threads = {t1, t2}
  Logins <- MCLoginsOfTwo
  CInts <- MCCIntsOfTwo
  CNonces <- MCNoncesOfTwo
  MaxNonce = 1
SYMMETRY ThreadSymmetry
INVARIANTS
  SignaturesAreWhole
  NonceIsCurrent
