SPECIFICATION Spec
CONSTANTS
  Thread = {t1, t2}
  Session = {s1, s2}
  NoSession = NoSession
  MaxRequests = 2
INVARIANT RefusedIsInvalid
CHECK_DEADLOCK FALSE
