CONSTANTS
  u = u
  t1 = t1
  t2 = t2
  Threads = {u, t1, t2}
  Unmounter = u
  Ops = {"stat", "update", "getAttr", "setAttr", "openReader", "openWriter", "openExisting", "aside"}
  MaxChannels = 1
  Purges = {"nothing", "pages", "fails"}
  NULL = NULL
SPECIFICATION FairSpec
CHECK_DEADLOCK FALSE
INVARIANTS
  NothingFreedIsTouched
  UnmountedIsFreed
  FiniIsAlone
PROPERTY
  ReturnsUnlessCrossed
