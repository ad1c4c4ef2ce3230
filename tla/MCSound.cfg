CONSTANTS
  QueueLen = 2
  MaxSlice = 2
  CountMod = 4
  Durations <- Uneven
  MaxPresses = 1
SPECIFICATION FairSpec
INVARIANTS TypeOK VectorsHandedBack SpinEnds WakeHasTick
PROPERTY ReturnsWhilePowered
CHECK_DEADLOCK FALSE
