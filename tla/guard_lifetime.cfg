SPECIFICATION Spec
CONSTANTS
  WriteGuards = {g1}
  ReadGuards = {g2}
  None = None
  Capacity = 1
  Positions = {0}
  MessageLimit = 1
INVARIANT OwnerOutlivesGuard
CHECK_DEADLOCK FALSE
