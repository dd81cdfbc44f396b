SPECIFICATION Spec
CONSTANTS
  Thread = {t1, t2}
  Session = {s1, s2}
  NoSession = NoSession
  MaxRequests = 1
PROPERTIES Answered AcceptsAgain SessionsEnd
CHECK_DEADLOCK FALSE
