SPECIFICATION FairSpec
CONSTANTS
  Writers = {w1, w2}
  Readers = {r1, r2}
  NoThread = NoThread
  Mixed = Mixed
  Payloads = {1}
  Capacity = 1
  SequenceMask = 2
  U16Max = 3
  InitTarget = 2
  InitMembers = {r1, r2}
  Targets = {}
  Ops = {"slice"}
  WriteLimit = 3
PROPERTY ReaderGetsMessage
CHECK_DEADLOCK FALSE
