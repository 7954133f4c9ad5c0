SPECIFICATION FairSpec
CONSTANTS
  PoolSize = 3
  Conns = {c1, c2, c3, c4}
  NoConn = NoConn
  SingleHostAddress = FALSE
INVARIANTS
  TypeOK
  OneAccept
  AcceptTarget
  HandlersOnlyWhileRunning
  NoThreadOutlives
  IInv
PROPERTIES
  OnlyOwnerStops
  StopTerminates
  LifecycleSpec
