SPECIFICATION FairSpec
CONSTANTS
  Threads = {t1, t2, t3}
  Modulus = 3
  NoTicket = NoTicket
INVARIANT StaleSleepersCovered
PROPERTIES ImplementsEventCount StaleWaiterReturns
