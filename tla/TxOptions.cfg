SPECIFICATION Spec
CONSTANTS
  c1 = c1
  c2 = c2
  k1 = k1
  k2 = k2
  a1 = a1
  a2 = a2
  Clients = {c1, c2}
  Connected = {c1}
  Linked <- MCLinked
  Accounts = {a1, a2}
  ApiKeys = {k1, k2}
  Opts = {o1}
  Templates <- MCTemplates
  Threads = {t1, t2}
  MaxNonce = 1
  None = None
SYMMETRY ThreadSymmetry
INVARIANTS
  SignsForNamedOrLinked
  NonceOfItsOwner
