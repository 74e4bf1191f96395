\* Two devices that show the same prompt.
CONSTANTS
  MaxResets = 1
  Devices = {d1, d2}
  Calls = {k1, k2, k3}
  None = None
  MaxOtpAttempts = 1
SPECIFICATION Spec
INVARIANT DeniedIsDead
CHECK_DEADLOCK FALSE
