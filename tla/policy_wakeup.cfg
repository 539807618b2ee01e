SPECIFICATION FairSpec
CONSTANTS
  Writers = {w1}
  Readers = {r1}
  NoThread = NoThread
  Mixed = Mixed
  Payloads = {1}
  Capacity = 1
  SequenceMask = 3
  U16Max = 3
  InitTarget = 1
  InitMembers = {r1}
  Targets = {}
  Ops = {"slice"}
  WriteLimit = 2
PROPERTY PolicyProgress
CHECK_DEADLOCK FALSE
