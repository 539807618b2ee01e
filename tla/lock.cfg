SPECIFICATION FairSpec
CONSTANTS
  Threads = {t1, t2, t3}
  NoThread = NoThread
INVARIANTS MutualExclusion SleepersCovered
PROPERTIES LockProgress ImplementsMutex
