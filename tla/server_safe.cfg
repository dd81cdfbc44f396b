SPECIFICATION Spec
CONSTANTS
  Thread = {t1, t2}
  Session = {s1, s2}
  NoSession = NoSession
  MaxRequests = 2
INVARIANTS TypeOK OneActivity NoDangling InOrder NothingForgotten
PROPERTY ResponseStable
SYMMETRY MCSymmetry
CHECK_DEADLOCK FALSE
