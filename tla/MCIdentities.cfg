\* Two accounts that claim one address and two names, by two codes and two requests.
SPECIFICATION IdentitiesSpec
CONSTANTS
  a1 = a1
  a2 = a2
  n1 = n1
  n2 = n2
  e1 = e1
  c1 = c1
  c2 = c2
  r1 = r1
  r2 = r2
  Account = {a1, a2}
  Name = {n1, n2}
  Email = {e1}
  Code = {c1, c2}
  Request = {r1, r2}
  MaxGuesses = 1
  NoAccount = NoAccount
  NoName = NoName
  NoEmail = NoEmail
  NoFile = NoFile
  Orphan = Orphan
SYMMETRY MCSymmetry
INVARIANTS
  IdentitiesTypeOK
  AddressProved
  CodeLostOnlyToRival
  ShadowedOnlyByDeleted
PROPERTIES
  PasswordLeftInFile
