CONSTANTS
  h1 = h1
  h2 = h2
  run_ok = run_ok
  refused_cmd = refused_cmd
  l1 = l1
  l2 = l2
  l3 = l3
  ip = ip
  utc = utc
  madrid = madrid
  Callers <- MCGoroutines
  Commands <- MCCommands
  Allowed <- MCAllowed
  Timeouts <- MCTimeouts
  TTL = 2
  Limit = 1
  MaxTime = 5
  NoEntry = NoEntry
  Goroutines <- MCGoroutines
  Limiters <- MCLimiters
  Clients <- MCClients
  Nil = Nil
  MaxReqs = 2
  Window = 2
  MaxClock = 5
  Handlers <- MCGoroutines
  SessionTimeouts <- MCSessionTimeouts
  token_expiry = 2
  Zones <- MCZones
  Unset = Unset
  Invalid = Invalid
  Asks <- MCAsks
  MaxDelay = 1
SPECIFICATION MCSpec
SYMMETRY MCSymmetry
INVARIANTS
  TypeOK ResultsBelongToTheirKey FreshRetained
  LimiterTypeOK WindowBound RaceIsHarmless
  SessionsTypeOK ShownIsInForce ExpireTogether
PROPERTIES
  KeepsAMemo RunsAreSpaced DenialsAreEarned
