SPECIFICATION Spec
CONSTANTS
  a = a
  b = b
  none = none
  s1 = s1
  s2 = s2
  Device = {1, 2, 3}
  Key = {1, 2}
  Account = 1
  Prefs = {}
  PlannerPrefs = {}
  Recovery = {2}
  Value = {a, b}
  NoValue = none
  Default <- NoDefaults
  W = 4
  MaxFuture = 1
  Malformed <- AllBodies
  Unwritable <- AllBodies
  Link <- Star
  Slot = {s1}
  Host = 1
  Editors = {1, 2}
  Password0 = a
  CodeBody = a
  Clock = {0}
  BatchSizes = {1, 2}
  MaxEdits = 2
  MaxFaults = 0
INVARIANTS StampAgreement NothingLostBelowCursor
PROPERTIES UsedCodeStaysUsed ImplementsReplicas
