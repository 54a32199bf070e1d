CONSTANTS
  c0 = c0
  c1 = c1
  c2 = c2
  i1 = i1
  w1 = w1
  Before <- MCBefore
  Contents = {c0, c1, c2}
  Cells <- MCCells
  Squeezed <- MCSqueezed
  Hash <- MCHash
  Indexes = {i1}
  IndexCells <- MCIndexCells
  Passwords = {w1}
  SearchWindow = 3
  MaxPages = 2
  MaxOpens = 2
  MaxOther = 1
  MaxChanges = 3
  Parts = {"head"}
  ChangeUnlocked = FALSE
  PartsAnyTime = FALSE
  None = None
SPECIFICATION Spec
CHECK_DEADLOCK FALSE
INVARIANTS
  OpensWhatWasSaved
  PagesAreInPlace
  AnswerIsThatPage
  FoundOrTold
