SPECIFICATION Spec
CONSTANTS
  Clients = {t1, t2, t3}
  Workers = {w1, w2}
  NChannels = 2
  MaxCalls = 1
  ParamsFit = TRUE
  CreatorExits = FALSE
SYMMETRY Threads
INVARIANTS
  ExclusiveChannel
  QuietWhenFree
  AnswerIsForThisCall
  
  ChannelsAccountedFor
CHECK_DEADLOCK FALSE
