CONSTANTS
  Keys = {k1}
  NoKey = NoKey
  Names = {n1, n2}
  NoName = NoName
  Types = {"image/png"}
  Limit = 2
  MaxSize = 3
  MaxUploads = 3
SPECIFICATION Spec
SYMMETRY Symmetry
INVARIANTS
  SizeBounded
  LastAnsweredIsWhole
CHECK_DEADLOCK FALSE
