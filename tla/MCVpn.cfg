CONSTANTS
  h1 = h1
  h2 = h2
  first = first
  second = second
  office = office
  travel = travel
  Handlers <- MCHandlers
  Configs <- MCConfigs
  Profiles <- MCProfiles
  Nothing = Nothing
  Unknown = Unknown
  TTL = 1
SYMMETRY MCSymmetry
SPECIFICATION Spec
INVARIANTS TypeOK AnswersHold
