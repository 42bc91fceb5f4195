CONSTANTS
  r1 = r1
  r2 = r2
  r3 = r3
  Recipients = {r1, r2}
  NChunks = 2
  ChunkOf <- MCChunkOfPair
  Modes <- AllModes
SPECIFICATION Spec
INVARIANT FailedHasNoOpenRows
CHECK_DEADLOCK FALSE
