SPECIFICATION Spec
CONSTANTS
  c = c
  b = b
  e = e
  dc = dc
  db = db
  Users = {c, b, e}
  Devices = {dc}
  Owner <- MCOwner
  Requests = {r1, r2, r3, r4}
  Creator = dc
  NoCK = NoCK
  MaxVersion = 3
  MaxIdentity = 1
SYMMETRY Symm
INVARIANTS
  OneRotationPerVersion
PROPERTIES
  ServerKeysAreSteady
  GroupKeysAreAgreed
