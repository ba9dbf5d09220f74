SPECIFICATION Spec
CONSTANTS
  p1 = p1
  p2 = p2
  p3 = p3
  h1 = h1
  h2 = h2
  Pids = {p1, p2, p3}
  Handles = {h1, h2}
  Levels = {"limited", "unlimited"}
  MaxSpawns = 2
  MaxChildren = 1
  MemoryLimits = TRUE
  LateStart = TRUE
  QuitTimesOut = FALSE
SYMMETRY Names
INVARIANTS
  StaleHandleFindsOwn
  TrackerAliveWhenUsed
  BooksAgree
CHECK_DEADLOCK FALSE
