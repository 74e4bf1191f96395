SPECIFICATION SessionsSpec
CONSTANTS
  Sessions = {s1, s2}
  Handlers = {k1, k2}
  NoSession = NoSession
  MaxToken = 3
  PasswordBound = 3
SYMMETRY Symm
PROPERTIES
  ChangeRevokesOthers
CHECK_DEADLOCK FALSE
