\* An Undo, an addition to another week, a Redo; nothing fails.
SPECIFICATION Spec
CONSTANTS
  m = m
  a = a
  p = p
  q = q
  x = x
  None = none
  Week <- TwoWeeks
  FirstWeek = 1
  Block <- AllBlocks
  Movable = m
  Typed = {}
  Dropped = {}
  Pasted = {q}
  Theirs = {}
  KeepOps = 1
  MaxEra = 0
  MaxActs = 6
  MaxMishaps = 0
PROPERTIES
  NoLaterChangeGone
CHECK_DEADLOCK FALSE
