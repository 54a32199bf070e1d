CONSTANTS
  t1 = t1
  t2 = t2
  t3 = t3
  v1 = v1
  v2 = v2
  Threads = {t1, t2, t3}
  Vfss = {v1, v2}
  None = None
SPECIFICATION FairRegistrySpec
CHECK_DEADLOCK FALSE
INVARIANTS
  LockedIsMounted
  NothingFreedIsUsed
  CacheIsCurrent
PROPERTIES
  ReturnsUnlessEarly
