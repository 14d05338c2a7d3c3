SPECIFICATION Spec
CONSTANTS
  Requests = {1, 2, 3}
  None = None
  BlockSize = 2
  Configs <- MCConfigs
INVARIANTS
  EachGroupInOnePlace
  BlocksSuffice
  NoAssertionFails
  FirstComeFirstServed
  EndedHoldNothing
PROPERTY
  EveryRequestEnds
CHECK_DEADLOCK FALSE
