\* Two resets, two handlers, a limit of two codes.
CONSTANTS
  MaxResets = 2
  Devices = {d1}
  Calls = {k1, k2}
  None = None
  MaxOtpAttempts = 2
SPECIFICATION FairSpec
INVARIANTS MasterKeySurvives RefusalsAreCounted
PROPERTIES SettledForGood HandshakesEnd
CHECK_DEADLOCK FALSE
