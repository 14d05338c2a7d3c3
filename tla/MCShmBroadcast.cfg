CONSTANTS
  NumLocal = 2
  Remote = {q}
  MaxChunks = 2
  MaxChunkBytes = 4
  HighWater = 4
  MaxMessages = 4
  READY = READY
  Torn = Torn
SPECIFICATION Spec
INVARIANT NoTornRead
PROPERTY ImplementsBroadcast
