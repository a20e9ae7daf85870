SPECIFICATION MCSpec
CONSTANTS
  l1 = l1
  l2 = l2
  b1 = b1
  d1 = d1
  d2 = d2
  n1 = n1
  e1 = e1
  e2 = e2
  Loadout = {l1, l2}
  Build = {b1}
  Data = {d1, d2}
  Name = {n1}
  Editor = {e1, e2}
  NoLoadout = NoLoadout
  NoHash = NoHash
  NoData = NoData
  NoName = NoName
  MaxWrites = 3
SYMMETRY Symmetry
INVARIANTS TwinsComeFromOldRows DatesFollowStatus
PROPERTY EditsReplaceWhatWasRead
CHECK_DEADLOCK FALSE
