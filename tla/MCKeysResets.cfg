SPECIFICATION Spec
CONSTANTS
  c = c
  b = b
  e = e
  dc = dc
  db = db
  Users = {c, b, e}
  Devices = {dc, db}
  Owner <- MCOwner
  Requests = {r1, r2, r3}
  Creator = dc
  NoCK = NoCK
  MaxVersion = 3
  MaxIdentity = 2
SYMMETRY Symm
INVARIANTS
  FoundersShareEveryVersion
  EvictedLearnsNoLaterKey
