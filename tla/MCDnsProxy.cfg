CONSTANTS
  h1 = h1
  home = home
  office = office
  Local = Local
  Public = Public
  None = None
  Unknown = Unknown
  Handlers <- MCHandlers
  Networks <- MCNetworks
  Fallible <- MCFallible
  Spaced = TRUE
  Alternating = TRUE
  TTL = 2
SPECIFICATION Spec
INVARIANTS TypeOK WayBack
PROPERTIES EnabledServes RestoresOriginal
