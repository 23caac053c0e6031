CONSTANTS
  Ops <- MCDetects
  BufferSize = 1
  Frames = 4
  Step = 1
  MaxUnsent = 0
SPECIFICATION ChainSpec
PROPERTY WaitReturns
CHECK_DEADLOCK FALSE
