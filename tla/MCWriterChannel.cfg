CONSTANTS
  Chunks <- MCChunks
  MaxLength = 4
  KIB = 2
  MIB = 3
  MaxEvents = 2
  Careless = {}
  NULL = NULL
SPECIFICATION Spec
INVARIANTS
  ChannelSound
PROPERTIES
  BytesAreTheFile
