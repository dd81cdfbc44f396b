SPECIFICATION Spec
CONSTANTS
  Thread = {t1, t2}
  Session = {s1, s2}
  NoSession = NoSession
  MaxRequests = 1
INVARIANT StaysUp
CHECK_DEADLOCK FALSE
