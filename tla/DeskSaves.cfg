\* Three things the student does, among up to two failures or changes made elsewhere.
SPECIFICATION Spec
CONSTANTS
  m = m
  a = a
  p = p
  q = q
  x = x
  None = none
  Week <- TwoWeeks
  FirstWeek = 1
  Block <- AllBlocks
  Movable = m
  Typed = {a}
  Dropped = {p}
  Pasted = {q}
  Theirs = {x}
  KeepOps = 1
  MaxEra = 1
  MaxActs = 3
  MaxMishaps = 2
INVARIANTS
  TypeOK
  SavedMeansStored
  OtherEditsKept
  MovedBlockInOneWeek
  UndoTakesBackItsStep
PROPERTIES
  NoSilentOverwrite
  UnsavedIsSaved
  ImplementsRegister
CHECK_DEADLOCK FALSE
