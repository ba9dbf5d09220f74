SPECIFICATION FairSpec
CONSTANTS
  p1 = p1
  p2 = p2
  p3 = p3
  h1 = h1
  h2 = h2
  Pids = {p1, p2}
  Handles = {h1, h2}
  Levels = {"none", "unlimited"}
  MaxSpawns = 2
  MaxChildren = 1
  MemoryLimits = FALSE
  LateStart = FALSE
  QuitTimesOut = TRUE
PROPERTIES
  TargetsFreed
  WaitEnds
  
CHECK_DEADLOCK FALSE
