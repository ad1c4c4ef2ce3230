CONSTANTS
  QueueLen = 1
  MaxSlice = 5
  CountMod = 2
  Durations <- Whole
  MaxPresses = 1
SPECIFICATION FairSpec
PROPERTY ForegroundReturns
CHECK_DEADLOCK FALSE
