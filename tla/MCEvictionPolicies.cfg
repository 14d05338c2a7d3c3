SPECIFICATION Spec
CONSTANTS
  Blocks = {1, 2, 3}
  HeapBlocks = {1, 2}
  Hashes = {h1, h2}
  Depths = {1, 2}
  Seqs = {s1, s2}
  MaxClock = 3
  HeapClock = 1
  MaxPushes = 4
  Chunked = TRUE
  None = None
INVARIANTS
  OrderMaintained
PROPERTIES
  EvictsLeast
  EvictTerminates
  ImplementsEvictor
CHECK_DEADLOCK FALSE
