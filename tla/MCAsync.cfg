SPECIFICATION FairSpec
CONSTANTS
  c1 = c1
  c2 = c2
  c3 = c3
  r = r
  Contents <- MCContents
  Raw <- MCRaw
  MaxPages = 3
  MaxAsync = 2
  QueueSize = 2
  CacheSize = 1
  Workers = 2
  Held = 2
  Kinds = {"thread", "process", "queue", "random"}
  Events = {}
  NULL = NULL
CHECK_DEADLOCK FALSE
INVARIANTS
  NoPageIsLost
  PagesAreRight
PROPERTIES
  EveryCallReturns
