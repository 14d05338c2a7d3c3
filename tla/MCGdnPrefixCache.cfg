SPECIFICATION GdnSpec
CONSTANTS
  Blocks = {b1, b2, b3, b4}
  Seqs = {s1}
  x = x
  y = y
  Tokens = {x, y}
  BlockSize = 2
  MaxLen = 8
  Prompts <- MCPrompts
  GdnConfigs <- MCConfigs
  Budget = 4
  ConvLen = 2
  None = None
SYMMETRY Symmetry
INVARIANTS
  WorkersMirrorPolicy
  RestoreSurvivesAdmission
  SavedStatesMatchKeys
  RecurrentStateCurrent
