SPECIFICATION Spec
CONSTANTS
  WriteGuards = {g1}
  ReadGuards = {g2, g3}
  None = None
  Capacity = 2
  Positions = {0, 3}
  MessageLimit = 2
SYMMETRY Symmetry
INVARIANTS TypeOK ReleasedOnce GuardShowsMessage ChunksInOrder NoStaleBytes
CHECK_DEADLOCK FALSE
