SPECIFICATION FairSpec
CONSTANTS
  MaxSize = 3
  MaxExtra = 2
  BufferSize = 2
INVARIANT InvalidIsBadRequest
