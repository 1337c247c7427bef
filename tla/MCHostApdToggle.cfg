CONSTANTS
  h1 = h1
  home = home
  None = None
  Unknown = Unknown
  Handlers <- MCHandlers
  Settings <- MCSettings
  Fallible <- MCReliable
  Attempts = 2
  Waits = 1
  MaxCopies = 2
  TTL = 2
SPECIFICATION Spec
PROPERTIES FailsRightly
