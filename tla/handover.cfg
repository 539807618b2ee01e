SPECIFICATION Spec
CONSTANTS
  Writers = {w1, w2}
  Readers = {r1, r2}
  NoThread = NoThread
  Mixed = Mixed
  Payloads = {1}
  Capacity = 1
  SequenceMask = 2
  U16Max = 3
  InitTarget = 1
  InitMembers = {r1, r2}
  Targets = {1, 2}
  Ops = {"slice", "leave", "set_target"}
  WriteLimit = 3
SYMMETRY Symmetry
INVARIANTS TypeOK ReadWriteExclusion PolicyRespected
PROPERTY ImplementsSlot
CHECK_DEADLOCK FALSE
