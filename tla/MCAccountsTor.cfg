CONSTANTS
  r1 = r1
  r2 = r2
  admin = admin
  other = other
  Requesters <- MCRequesters
  Passwords <- MCPasswords
  DefaultPassword = admin
  Maxima <- MCMaxima
  LockoutMinutes = 2
  DefaultLockout = 1
  MaxMinute = 3
  h1 = h1
  ap0 = ap0
  wlan0 = wlan0
  p9040 = p9040
  Off = Off
  Unknown = Unknown
  Handlers <- MCHandlers
  Ifaces <- BothIfaces
  Ports <- OnePort
  DefaultPort = p9040
  Fallible <- MCFallible
  Spaced = TRUE
  TTL = 2
  MaxCopies = 2
SPECIFICATION MCSpec
SYMMETRY MCSymmetry
INVARIANTS
  AccountsTypeOK LockedIsCounted WrongsAreSpaced PasswordSticks FirstLoginOnce
  TypeOK NoDuplicates
PROPERTIES
  EnableRedirects DisableClears OutcomesPaired
