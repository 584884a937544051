SPECIFICATION FairSpec
CONSTANTS
  w1 = w1
  w2 = w2
  c1 = c1
  c2 = c2
  p1 = p1
  p2 = p2
  Window = {w1}
  Call = {c1, c2}
  Phone = {p1, p2}
  None = none
  PhoneOf <- OneCallEach
  MaxTries = 1
INVARIANTS
  TypeOK
  OnePhonePerCode
  NoneAfterTheTries
  RecordedIsSpent
  RecordedInOrder
PROPERTIES
  HelloIsDecided
  StopEndsWindows
CHECK_DEADLOCK FALSE
