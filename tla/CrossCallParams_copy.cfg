SPECIFICATION Spec
CONSTANTS
  ChannelSize = 14
  MaxParams = 2
  Modulus = 32
  Base = 4
  Sizes = {0, 3}
  OtherValues = {0, 1, 2, 9, 13, 31}
  MaxWrites = 2
INVARIANTS
  ParametersInBounds
  CopyInv
PROPERTIES
  UndisturbedServed
CHECK_DEADLOCK FALSE
