\* Two file numbers besides File0, two slots, one name, one byte besides ^Z.
SPECIFICATION Spec
CONSTANTS
  Numbers = {n1, n2}
  File0 = n0
  Handles = {h5, h6}
  Names = {f}
  Data = {a}
  CtrlZ = z
  None = None
  MaxLen = 1
SYMMETRY Symmetry
INVARIANT FailedOpenFreesNumber
