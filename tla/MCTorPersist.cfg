CONSTANTS
  h1 = h1
  ap0 = ap0
  wlan0 = wlan0
  p9040 = p9040
  Off = Off
  Unknown = Unknown
  Handlers <- MCHandlers
  Ifaces <- OneIface
  Ports <- OnePort
  DefaultPort = p9040
  Fallible <- MCReliable
  Spaced = TRUE
  TTL = 2
  MaxCopies = 2
SPECIFICATION Spec
PROPERTIES EnabledIsSaved
