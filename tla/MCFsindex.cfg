CONSTANTS
  a = a
  b = b
  c = c
  h1 = h1
  h2 = h2
  auto = auto
  NULL = NULL
  Names <- MCNames
  Hosts <- MCHosts
  Automatic = auto
  Custom <- MCCustom
  Directories <- MCDirectories
  Commanded <- MCCommanded
  Written <- MCWritten
  Pages = {1}
  Lists <- MCLists
  Data <- MCData
  TableSize = 3
  MaxEntries = 3
  MaxUsage = 2
  MaxExported = 2
  Events = {}
SPECIFICATION Spec
SYMMETRY Symmetry
CHECK_DEADLOCK FALSE
INVARIANTS
  IndexSound
  NoChangeIsLost
PROPERTIES
  KeptOverMounts
  EachCallIsExact
