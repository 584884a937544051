SPECIFICATION FairSpec
CONSTANTS
  a = a
  b = b
  none = none
  s1 = s1
  s2 = s2
  Device = {1, 2}
  Key = {1, 2, 3}
  Account = 1
  Prefs = {}
  PlannerPrefs = {}
  Recovery = {}
  Value = {a, b}
  NoValue = none
  Default <- NoDefaults
  W = 4
  MaxFuture = 1
  Malformed <- AllBodies
  Unwritable <- AllBodies
  Link <- Pair
  Slot = {s1}
  Host = 1
  Editors = {1}
  Password0 = a
  CodeBody = a
  Clock = {0}
  BatchSizes = {2}
  MaxEdits = 2
  MaxFaults = 1
INVARIANTS TypeOK NothingLostBelowCursor SettledMeansEqual
PROPERTIES EditStampedBeforeOverwrite Converges
