SPECIFICATION Spec
CONSTANTS
  Transmissions <- AllTransmissions
  BufferSizes = {5, 50}
  UnsignedValues = 16
INVARIANT ContentTruncated
