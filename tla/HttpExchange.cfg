SPECIFICATION Spec
CONSTANTS
  Radix = 3
  Lengths = {0, 2, 9}
  Chunkings <- MCChunkings
  Buffer = 8
  Answer = 2
  Pipelining = FALSE
  MaxRequests = 2
CHECK_DEADLOCK FALSE
INVARIANT SessionFramed
INVARIANT ChunksDecoded
PROPERTY Answered
