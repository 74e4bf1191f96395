SPECIFICATION AllSpec
CONSTANTS
  Sessions = {v1, v2}
  Handlers = {k1, k2}
  NoSession = None
  MaxToken = 3
  PasswordBound = 3
  Calls = {k1, k2}
  Tokens = {v1, v2}
  Codes = {1, 2, 3}
  Devices = {d1}
  NoToken = None
  NoCode = None
  MaxPassword = 3
  MaxKey = 3
  Tabs = {v1, v2}
  NoTab = None
  Accounts = {k1, k2}
  NoAccount = None
  Requests = {d1, d2}
  MaxSessions = 2
  MaxRotations = 1
  Pages = {v1, v2}
  NoPage = None
  TotpCalls = {k1, k2}
  MaxSecrets = 3
  Passkeys = {v1, v2}
  NoPasskey = None
  Ceremonies = {k1, k2}
  MaxChallenges = 3
  MaxCounter = 3
SYMMETRY Symm
CONSTRAINT Watched
VIEW View
INVARIANTS
  AccountsTypesOK
  RotatedTokensAreDead
  SweptSessionsStayRevoked
  ResetsHappenOnce
  WrapsOpenIdentity
  RefreshesAloneAreSafe
  OneAccount
  AppOpensAccount
  WrapFitsSalt
  OnlyRacesLookCloned
CHECK_DEADLOCK FALSE
