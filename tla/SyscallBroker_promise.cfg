SPECIFICATION FairSpec
CONSTANTS
  t1 = t1
  t2 = t2
  Threads <- MCThreads
  MaxCalls = 2
  Capacity = 1
  MaxMalformed = 1
  Short = TRUE
  MayFork = TRUE
INVARIANTS
  NoDescriptorLeft
PROPERTIES
  KeepsPromise
  CallEnds
  BrokerEnds
CHECK_DEADLOCK FALSE
