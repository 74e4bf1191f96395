SPECIFICATION Spec
CONSTANTS
  Calls = {k1}
  Tokens = {t1}
  Codes = {c1}
  Devices = {d1}
  NoToken = NoToken
  NoCode = NoCode
  MaxPassword = 2
  MaxKey = 1
SYMMETRY Symm
INVARIANTS
  PasswordOpensIdentity
