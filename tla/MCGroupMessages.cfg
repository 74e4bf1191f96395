SPECIFICATION GroupSpec
CONSTANTS
  c = c
  b = b
  e = e
  dc = dc
  db = db
  Users = {c, b, e}
  Devices = {dc, db}
  Owner <- MCOwner
  Requests = {r1, r2}
  Creator = dc
  NoCK = NoCK
  MaxVersion = 2
  MaxIdentity = 1
  Messages = {m1}
SYMMETRY Symm
VIEW View
INVARIANTS
  FoundersReadEachOther
  EvictedOpenOnlyOldKeys
