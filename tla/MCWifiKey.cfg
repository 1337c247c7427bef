CONSTANTS
  u1 = u1
  home = home
  System = System
  None = None
  Unknown = Unknown
  Users <- MCUsers
  Networks <- MCNetworks
  Fallible <- MCFallible
  PingAttempts = 2
  PollAttempts = 3
  AuthLimit = 2
  TTL = 1
SPECIFICATION Spec
PROPERTIES ReconnectKeepsKey
