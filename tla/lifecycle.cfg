SPECIFICATION Spec
CONSTANTS
  Writers = {w1, w2}
  Readers = {r1}
  NoThread = NoThread
  Mixed = Mixed
  Payloads = {1, 2, 3}
  Capacity = 2
  SequenceMask = 3
  U16Max = 3
  InitTarget = 1
  InitMembers = {}
  Targets = {}
  Ops = {"slice", "guard", "discard", "try_read", "stop"}
  WriteLimit = 2
SYMMETRY Symmetry
INVARIANTS GuardIntegrity ReaderWakeup DrainWakeup PollWaitsForWriter
CHECK_DEADLOCK FALSE
