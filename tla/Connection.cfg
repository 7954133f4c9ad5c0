SPECIFICATION FairSpec
CONSTANTS
  MaxSize = 3
  MaxExtra = 2
  BufferSize = 2
INVARIANTS
  TypeOK
  WholeRequest
  ProcessedOnce
  IInv
PROPERTIES
  RequestReplySpec
  Answered
  ReleasedAfterLeave
