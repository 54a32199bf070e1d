CONSTANTS
  m1 = m1
  p1 = p1
  i1 = i1
  v1 = v1
  v2 = v2
  Bad = Bad
  Mounts = {m1}
  Pages = {p1}
  Indexes = {i1}
  Values = {v1, v2}
  Default = v1
  MaxPages = 2
  Careless = {}
  NULL = NULL
SPECIFICATION Spec
CHECK_DEADLOCK FALSE
INVARIANTS
  MountsAreWhole
  PagesVerify
PROPERTY
  ImplementsCabinet
