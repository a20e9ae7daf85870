SPECIFICATION Spec
CONSTANTS
  u1 = u1
  s1 = s1
  s2 = s2
  r1 = r1
  r2 = r2
  User = {u1}
  Session = {s1, s2}
  Request = {r1, r2}
  NoUser = NoUser
  MaxEpoch = 2
SYMMETRY Symmetry
PROPERTY AllSessionsRevoked
CHECK_DEADLOCK FALSE
