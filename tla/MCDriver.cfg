CONSTANTS
  Paths = {"d", "f"}
  Parent <- MCParent
  Root = ""
  Contents = {"big", "small", "empty"}
  Blocks <- MCBlocks
  Empty = "empty"
  Small = {"small"}
  Entries = {e1, e2, e3, e4}
  Channels = {c1, c2}
  e1 = e1
  e2 = e2
  e3 = e3
  e4 = e4
  c1 = c1
  c2 = c2
  Mounted <- MCMounted
  Imported <- MCImported
  Careless = {}
  NULL = NULL
SPECIFICATION Spec
SYMMETRY Symmetry
INVARIANTS
  HeldEntriesLive
  ReadsWhatItOpened
  AnswersAgree
PROPERTY
  ImplementsTree
