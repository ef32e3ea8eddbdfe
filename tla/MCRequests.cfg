SPECIFICATION Spec
CONSTANTS
  MaxTroubles = 1
  MaxHandlers = 2
  MaxFaults = 1
  c1 = c1
  Caller = {c1}
  Validity = 1
  MaxClock = 4
  MaxSigned = 2
  a1 = a1
  a2 = a2
  s1 = s1
  s2 = s2
  Request = {a1, a2}
  Replica = {s1, s2}
  MaxMints = 3
  MaxTime = 2
  Life = 2
  Margin = 1
  o1 = o1
  o2 = o2
  x1 = x1
  Operator = {o1, o2}
  MaxChanges = 2
  MaxHour = 1
  TTL = 1
  ScreenStops = 1
  Starter = {o1, o2}
  LenderAddress = {x1}
  MaxSessions = 2
  MaxNotes = 1
  NoteFaults = 1
  g1 = g1
  g2 = g2
  Account = {g1, g2}
  AdminPublicKey = g1
  MaxChallenges = 1
  MaxMoment = 4
  LoginFaults = 1
  ChallengeExpiration = 1
  JWTExpiration = 2
  JWTRefreshWindow = 1
  MaxRate = 2
  MaxLoss = 50
  MaxMoves = 3
  MaxOrders = 3
  RelayFaults = 2
INVARIANTS TypesOK DialogueSound PaymentsSound LandsOnce OutcomesAreTrue
INVARIANTS TokensSound ComplianceSound
CHECK_DEADLOCK FALSE
