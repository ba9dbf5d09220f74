SPECIFICATION FairSpec
CONSTANTS
  Clients = {t1, t2}
  Workers = {w1, w2}
  NChannels = 1
  MaxCalls = 2
  ParamsFit = FALSE
  CreatorExits = TRUE
PROPERTIES
  KeepsPromise
  GetBufferEnds
CHECK_DEADLOCK FALSE
