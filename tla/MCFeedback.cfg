SPECIFICATION FeedbackSpec
CONSTANTS
  l1 = l1
  b1 = b1
  d1 = d1
  d2 = d2
  e1 = e1
  p1 = p1
  p2 = p2
  p3 = p3
  u1 = u1
  f1 = f1
  f2 = f2
  Loadout = {l1}
  Build = {b1}
  Data = {d1, d2}
  Name = {}
  Editor = {e1}
  NoLoadout = NoLoadout
  NoHash = NoHash
  NoData = NoData
  NoName = NoName
  MaxWrites = 2
  Report = {p1, p2, p3}
  User = {u1}
  Filing = {f1, f2}
  NoUser = NoUser
  HourlyCap = 1
  MaxFaults = 1
SYMMETRY Symmetry
INVARIANTS FeedbackTypeOK FeedbackOnShown ReportsNearlyCapped
PROPERTY ResolvedOnceWithItsAction
CHECK_DEADLOCK FALSE
