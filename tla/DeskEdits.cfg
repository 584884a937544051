\* One edit, and nothing that fails.
SPECIFICATION Spec
CONSTANTS
  m = m
  a = a
  p = p
  q = q
  x = x
  None = none
  Week <- TwoWeeks
  FirstWeek = 1
  Block <- AllBlocks
  Movable = m
  Typed = {a}
  Dropped = {p}
  Pasted = {q}
  Theirs = {x}
  KeepOps = 1
  MaxEra = 0
  MaxActs = 2
  MaxMishaps = 0
INVARIANTS
  EditsKept
CHECK_DEADLOCK FALSE
