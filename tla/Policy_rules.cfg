SPECIFICATION MCSpec
CONSTANTS
  ask = ask
  fake = fake
  Patterns <- MCPatterns
  Strings <- MCStrings
  Flags = {"w"}
  Actions = {ask, fake}
  MaxConditions = 2
  MaxRules = 2
  NumServices = 3
  RuleSizes <- MCRuleSizes
  DataSizes <- MCDataSizes
  MaxNodes = 4
  OpcodeSize = 5
  CountSize = 1
SYMMETRY AnyAction
INVARIANTS
  FirstMatchWins
  QuestionMarkNeverStricter
  EngineInv
  StoreInv
CHECK_DEADLOCK FALSE
