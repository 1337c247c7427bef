CONSTANTS
  h1 = h1
  home = home
  None = None
  Unknown = Unknown
  Handlers <- MCHandlers
  Settings <- MCSettings
  Fallible <- MCFallible
  Attempts = 2
  Waits = 0
  MaxCopies = 2
  TTL = 1
SPECIFICATION Spec
CONSTRAINT OneRefusal
INVARIANTS TypeOK Ap0Spared NoDuplicateRules
PROPERTIES ConfigApplied AnswersHold
