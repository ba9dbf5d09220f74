SPECIFICATION FairSpec
CONSTANTS
  Clients = {t1, t2}
  Workers = {w1, w2}
  NChannels = 2
  MaxCalls = 1
  ParamsFit = TRUE
  CreatorExits = FALSE
PROPERTIES
  DoCallEnds
CHECK_DEADLOCK FALSE
