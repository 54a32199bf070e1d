SPECIFICATION Spec
CONSTANTS
  Files = {f1, f2}
  Passwords = {p1, p2}
  Contents <- MCContents
  BlockSize = 2
  MaxMounts = 3
  MaxPages = 3
  Careless <- NothingCareless
  NULL = NULL
SYMMETRY Symmetry
INVARIANT ReadsRightOrRefuses
PROPERTY ImplementsVault
CHECK_DEADLOCK FALSE
