SPECIFICATION FairSpec
CONSTANTS
  Producers = {p1}
  Consumers = {c1, c2}
  Background = Background
  Nobody = Nobody
  Channels = {1, 2}
  Policy = All
  All = All
  U16Max = 3
  MessageLimit = 2
  SequenceMask = 3
INVARIANT DeliveredInOrder
PROPERTIES LastReadGrows LastWrittenGrows StopEndsWriters StopEndsBackground StopReleasesConsumers PollReturns
CHECK_DEADLOCK FALSE
