SPECIFICATION FairSpec
CONSTANTS
  Writers = {w1, w2}
  Readers = {r1}
  NoThread = NoThread
  Mixed = Mixed
  Payloads = {1}
  Capacity = 1
  SequenceMask = 3
  U16Max = 3
  InitTarget = 1
  InitMembers = {}
  Targets = {}
  Ops = {"guard", "discard", "join", "stop"}
  WriteLimit = 2
PROPERTIES DrainCompletes StopReleasesWriters StopReleasesIdleReaders
CHECK_DEADLOCK FALSE
