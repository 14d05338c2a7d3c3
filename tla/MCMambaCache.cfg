SPECIFICATION Spec
CONSTANTS
  Requests <- MCRequests
  Family <- MCFamily
  NumSlots = 3
  MaxForwards = 3
  Priority = FALSE
  None = None
INVARIANTS
  SlotsDistinct
  StatesFollowSequences
  FreeSlotFound
