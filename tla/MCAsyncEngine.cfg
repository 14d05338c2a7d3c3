CONSTANTS
  Requests = {1, 2, 3}
  Outputs <- MCOutputs
  Invalid = {3}
  NumEngines = 1
  MaxSeqs = 1
  Configs <- MCConfigs
SPECIFICATION Spec
INVARIANTS StreamsTracked AbortsNotForgotten
PROPERTY EveryStreamEnds
CHECK_DEADLOCK FALSE
