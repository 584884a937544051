SPECIFICATION Spec
CONSTANTS
  a = a
  b = b
  none = none
  s1 = s1
  s2 = s2
  Device = {1, 2}
  Key = {1, 2, 3}
  Account = 1
  Prefs = {2, 3}
  PlannerPrefs = {}
  Recovery = {}
  Value = {a, b}
  NoValue = none
  Default <- Defaults3
  W = 4
  MaxFuture = 1
  Malformed <- AllBodies
  Unwritable <- AllBodies
  Link <- Pair
  Slot = {s1}
  Host = 1
  Editors = {1}
  Password0 = a
  CodeBody = a
  Clock = {0}
  BatchSizes = {2}
  MaxEdits = 1
  MaxFaults = 0
PROPERTY ChosenSettingsSurvive
