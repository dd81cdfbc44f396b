SPECIFICATION Spec
CONSTANTS
  s1 = s1
  s2 = s2
  a1 = a1
  a2 = a2
  c1 = c1
  c2 = c2
  Session = {s1, s2}
  IP = {a1, a2}
  Peer <- MCPeer
  User = {u1, u2}
  NoOne = NoOne
  Char = {c1, c2}
  Password <- MCPassword
  NoFile = NoFile
  IOFails = FALSE
  MaxSigns = 2
  MaxCrashes = 0
INVARIANT SignedUpOnce
