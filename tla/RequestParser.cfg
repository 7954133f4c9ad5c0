SPECIFICATION Spec
CONSTANTS
  Transmissions <- AllTransmissions
  BufferSizes = {3, 40}
  UnsignedValues = 16
INVARIANTS
  TypeOK
  WellFormedAccepted
  NothingInvented
  ContentWhole
  IInv
