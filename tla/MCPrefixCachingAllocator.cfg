SPECIFICATION Spec
CONSTANTS
  Blocks = {b1, b2, b3}
  Seqs = {s1, s2}
  x = x
  y = y
  Tokens = {x, y}
  BlockSize = 2
  MaxLen = 5
  Prompts <- MCPrompts
  None = None
SYMMETRY Symmetry
INVARIANTS
  WholePrefillsStored
  BlocksAccounted
  IndexFollowsBlocks
