CONSTANTS
    NumChoices = 1
    Modes <- MCModes
SPECIFICATION Spec
INVARIANTS NothingRetracted AllStreamed ContentAgrees
CHECK_DEADLOCK FALSE
