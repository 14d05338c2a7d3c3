CONSTANTS
  Requests = {1, 2}
  Outputs <- MCOutputs
  Invalid = {1}
  MaxFaults = 2
SPECIFICATION Spec
INVARIANT AbortsReachEngine
PROPERTIES DeathNoticed RunningAlerted
CHECK_DEADLOCK FALSE
