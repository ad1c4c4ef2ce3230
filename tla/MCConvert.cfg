CONSTANTS
  X = X
  Y = Y
  E = E
  T = T
  K = K
  N = N
  A = A
  S = S
  L = L
  P = P
  Q = Q
  C = C
  F = F
  R1 = R1
  R2 = R2
  NoName = NoName
  SplitLoad = SplitLoad
  EndOfFile = EndOfFile
  All = All
  MaxRuns = 2
  AbsoluteNames = {T}
  ConstantNames = {T}
  EquNames = {S}
  Names <- MCNames
  Switches <- MCSwitches
  Texts <- MCTexts
  RangeLists <- MCRangeLists
SPECIFICATION Spec
INVARIANTS TypeOK SamePlain SamePatched SameExports
CHECK_DEADLOCK FALSE
