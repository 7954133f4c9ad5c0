SPECIFICATION WebFairSpec
CONSTANTS
  PoolSize = 2
  Conns = {c1, c2, c3}
  NoConn = NoConn
  SingleHostAddress = FALSE
  rsa = rsa
  ec = ec
  p1 = p1
  p2 = p2
  p3 = p3
  ca1 = ca1
  ca2 = ca2
  None = None
  KeyPairs <- MCKeyPairs
  Algorithms <- MCAlgorithms
  Algorithm <- MCAlgorithm
  UsableAlgorithms <- MCUsable
  Authorities <- MCAuthorities
  Configurations <- MCConfigurations
INVARIANTS
  WebTypeOK
  OneOperation
  Authenticated
  CredentialsMatch
  WebIInv
PROPERTIES
  StopReturnsUnlessHeld
  NoClientStarves
