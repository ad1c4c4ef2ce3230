CONSTANTS
  A = A
  C = C
  W = W
  X = X
  D = D
  E = E
  Near = Near
  NoSlot = NoSlot
  MenuSegment = C
  Seg <- MCSeg
  Para <- MCPara
  Profile <- MCProfile
  RomLen = 8
  Cap = 3
  MaxBytes = 3
  MaxBlocks = 6
  Images <- MCImages
  Stops <- MCStops
  Aliases <- MCAliases
  DefaultSeeds <- MCDefault
  Flags <- MCFlags
  Tables <- MCTables
  Commands <- MCCommands
  MaxSessions = 2
SPECIFICATION Spec
INVARIANTS TypeOK NoAddressTwice Reached NothingMissed OneFileOffset
CHECK_DEADLOCK FALSE
