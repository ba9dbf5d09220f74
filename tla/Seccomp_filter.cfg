SPECIFICATION MCSpec
CONSTANTS
  WordBits = 4
  BranchRange = 1
  Returns <- MCReturns
  Steps <- MCSteps
  Tests <- MCTests
  MaxInstructions = 7
  Policies <- MCPolicies
  ArgLo = {0, 1, 2, 6, 9, 14}
  ArgHi = {0, 8, 9, 15}
  k1 = k1
  k2 = k2
  k3 = k3
  k4 = k4
  Keys = {k1, k2, k3, k4}
  Safe = {k1, k2}
  NoKey = NoKey
  Increment = 2
  MaxTraps = 3
  MaxNesting = 3
INVARIANTS
  AssemblerInv
  CompilerInv
  ArrayAlive
PROPERTIES
  DirectOnlyInUnsafe
  KeepsIds
CHECK_DEADLOCK FALSE
