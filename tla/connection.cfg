SPECIFICATION ConnSpec
CONSTANTS
  a = a
  Worker = {w1}
  Dir = {d1}
  Cell <- MCCell
  Body <- MCBody
  MaxPosts = 2
  IOFails = {}
  MaxLength = 4
  Configs <- MCConfigs
  Root <- MCRoot
  Forms <- MCForms
  Asked <- MCAsked
  Garbage <- MCGarbage
  NUL = NUL
INVARIANTS ConnTypeOK BodyIsSent BodyBegins LongestMatch HandlerFound
PROPERTY ImplementsPostStore
CHECK_DEADLOCK FALSE
