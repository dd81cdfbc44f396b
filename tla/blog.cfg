SPECIFICATION SystemSpec
CONSTANTS
  A = A
  B = B
  Dir = {A, B}
  Alphabetic = {A}
  NoDir = NoDir
  Id = {1, 2, 3}
  Conn = {c1, c2, c3}
  NoConn = NoConn
  MaxText = 1
  MaxActs = 2
  Typed <- MCTyped
  Stored <- MCStored
  MaxBreaks = 1
INVARIANTS TypeOK RouteSettled ShownIsRouted SavesOwnText PreviewShowsPost NoCrossWrite ListFresh PostFresh
PROPERTY WindsDown
SYMMETRY MCSymmetry
CHECK_DEADLOCK FALSE
