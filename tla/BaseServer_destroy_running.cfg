SPECIFICATION Spec
CONSTANTS
  PoolSize = 2
  Conns = {c1, c2, c3}
  NoConn = NoConn
  SingleHostAddress = TRUE
INVARIANT NoCallOfDestroyedClass
