SPECIFICATION FairSpec
CONSTANTS
  Threads = {t1, t2}
  NoCall = NoCall
  NoAnswer = NoAnswer
  U16Size = 4
  SequenceSize = 3
  Targets = {2}
  Others = 2
INVARIANT TypeOK
PROPERTIES ImplementsWords StopSticks RetryEnds
