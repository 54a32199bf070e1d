CONSTANTS
  c1 = c1
  c2 = c2
  p1 = p1
  p2 = p2
  p3 = p3
  o1 = o1
  o2 = o2
  o3 = o3
  Clients = {c1, c2}
  PageIndexes = {p1, p2, p3}
  Objs = {o1, o2, o3}
  MaxSize = 2
  Weights = {0, 1}
  MaxAges = {1, 2}
  AgeBound = 2
  None = None
SPECIFICATION CacheSpec
SYMMETRY Symmetric
INVARIANTS
  CacheSound
  CachedIsThatPage
PROPERTIES
  EvictsOldestOfLightest
