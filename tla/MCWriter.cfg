SPECIFICATION Spec
CONSTANTS
  Byte <- MCByte
  Files = {1, 2, 3}
  Ext <- MCExt
  Dir = {1, 2}
  Given <- MCGiven
  PageSize = 2
  SmallFileSize = 2
  MaxBufferSize = 3
  MaxStored = 3
  Events = {"source", "page"}
  NULL = NULL
  Unreadable = Unreadable
  x1 = x1
  x2 = x2
INVARIANTS
  PendingIsOwn
  BufferBounded
PROPERTIES
  ImplementsStore
