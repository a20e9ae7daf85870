\* Two calls for two addresses from two sources over more than one window.
SPECIFICATION Spec
CONSTANTS
  r1 = r1
  r2 = r2
  a = a
  b = b
  s = s
  z = z
  NoRow = NoRow
  Request <- MCRequest
  Email <- MCEmail
  Source <- MCSource
  Minute = 2
  Hour = 5
  EmailCap = 2
  SourceCap = 2
  MaxTime = 6
SYMMETRY MCSymmetry
INVARIANTS
  Spaced
  EmailCapped
  SourceNearlyCapped
