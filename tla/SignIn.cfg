SPECIFICATION SignInSpec
CONSTANTS
  ann = ann
  bob = bob
  c1 = c1
  None = none
  Name <- Names
  FirstName = ann
  Code <- Codes
  MaxActs = 2
  MaxMishaps = 1
INVARIANTS
  TypeOK
  SessionsOfThisPassword
  NothingToResume
  CodesSeenFirst
  WindowShowsItsAccount
  KeptIsCurrent
PROPERTIES
  PasswordNeedsProof
  RequestsEnd
CHECK_DEADLOCK FALSE
