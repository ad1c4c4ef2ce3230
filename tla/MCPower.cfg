CONSTANTS
  Words = {w1, w2}
  MaxPresses = 3
SPECIFICATION FairSpec
INVARIANT TypeOK
PROPERTIES ResumesExactly PowerOnReturns
CHECK_DEADLOCK FALSE
