SPECIFICATION MCSpec
CONSTANTS
  w1 = w1
  w2 = w2
  s1 = s1
  s2 = s2
  Main = Main
  Workers = {w1, w2}
  Capabilities = {SysChroot, SysAdmin}
  SysChroot = SysChroot
  SysAdmin = SysAdmin
  Sandboxes = {s1, s2}
  kMaxIterations = 2
  NoOne = NoOne
  ExitCodes = {0, 3}
  SIGKILL = SIGKILL
  Signals = {SIGKILL, SIGABRT}
  SIGABRT = SIGABRT
  MaxCalls = 2
  Codes = {0, 3}
  Killed = Killed
  Others = {o1, o2}
  o1 = o1
  o2 = o2
  Clients = {c1, c2}
  c1 = c1
  c2 = c2
  Descendants = {d1}
  d1 = d1
  Pids = {p1, p2}
  p1 = p1
  p2 = p2
  Policies <- MCPolicies
  Requests <- MCRequests
  Nobody = Nobody
INVARIANTS
  ProcAgrees
  CapsWithinLimit
  FilterOnAllThreads
  
  ScopedInv
  ReaperInv
  BootstrapInv
  AnsweredByOwnPolicy
PROPERTIES
  
  WaitsEnd
CHECK_DEADLOCK FALSE
