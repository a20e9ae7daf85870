\* Two of each: tabs and runs of the import v1, v2; transactions, sessions
\* and connections v3, v4; requests and saves v5, v6; users v7, v8.
SPECIFICATION AdministrationSpec
CONSTANTS
  Parts = {"super administrators", "console", "game data", "settings"}
  v1 = v1
  v2 = v2
  v3 = v3
  v4 = v4
  v5 = v5
  v6 = v6
  v7 = v7
  v8 = v8
  User = {v7, v8}
  Txn = {v3, v4}
  NoUser = NoUser
  MaxRows = 3
  Tab = {v1, v2}
  Session = {v3, v4}
  Visit = {v5, v6}
  NoTab = NoTab
  NoSession = NoSession
  IdleTime = 1
  AbsoluteTime = 2
  MaxTime = 2
  MaxToken = 3
  Import = {v1, v2}
  Connection = {v3, v4}
  MaxVersion = 3
  NoData = NoData
  Torn = Torn
  Save = {v5, v6}
  MaxKey = 2
SYMMETRY MCSymmetry
INVARIANTS
  AdministrationTypeOK
  TokenLostOnlyToOthers
  ConnectionsReadWhole
  FilesMatchAtRest
  StrayOnlyAfterImport
  EnabledIsConfigured
PROPERTIES
  EmptiedOnlyByOverlap
  RevivedOnlyByAdmitted
  KeyKeptUnlessOverlapped
\* All but the game data stop when their bounds are used up.
CHECK_DEADLOCK FALSE
