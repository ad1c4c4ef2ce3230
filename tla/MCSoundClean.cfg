CONSTANTS
  QueueLen = 2
  MaxSlice = 2
  CountMod = 4
  Durations <- Short
  MaxPresses = 0
SPECIFICATION CleanSpec
INVARIANTS RingConsistent ToneHasNote
PROPERTY ImplementsNoteQueue
