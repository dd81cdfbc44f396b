SPECIFICATION Spec
CONSTANTS
  a = a  b = b
  Worker = {w1, w2}
  Dir = {d1}
  Cell <- MCCell
  Body <- MCBody
  MaxPosts = 2
  IOFails = {w1}
INVARIANTS TypeOK PrefixIds PostNeverClobbers IInv AckedPostExists IdsBounded
PROPERTY Answered
