CONSTANTS
  h1 = h1
  h2 = h2
  t1 = t1
  t2 = t2
  plain = plain
  dotted = dotted
  first = first
  second = second
  near = near
  far = far
  list1 = list1
  list2 = list2
  Handlers <- MCHandlers
  Togglers <- MCTogglers
  Names <- MCNames
  Domains <- MCDomains
  Lists <- MCLists
  Servers <- MCServers
  Gateways <- MCGateways
  Topics <- MCTopics
  Overlapping <- MCOverlapping
  MaxRemembered = 2
  Installed = plain
  Nothing = Nothing
  Unsaid = Unsaid
  Unknown = Unknown
  TTL = 1
SYMMETRY MCSymmetry
SPECIFICATION PagesSpec
INVARIANTS PagesTypeOK AnswersHold TogglesStick
