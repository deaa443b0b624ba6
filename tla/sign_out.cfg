SPECIFICATION Spec
CONSTANTS
  u1 = u1
  u2 = u2
  home = home
  other = other
  None = None
  User = {u1}
  MaxCalls = 2
  MaxTokens = 3
  Url = {home, other}
  StartUrl = home
  MaxFaults = 1
  MaxCrashes = 1
CHECK_DEADLOCK FALSE
INVARIANT SignOutForgets
