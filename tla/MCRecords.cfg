SPECIFICATION Spec
CONSTANTS
  Person = {a, b}
  MaxPINAttempts = 2
  MaxCalls = 3
  MaxOpen = 2
  r1 = r1
  r2 = r2
  Receipt = {r1, r2}
  MpesaTicks = 2
  MpesaFaults = 2
  p1 = p1
  p2 = p2
  p3 = p3
  Push = {p1, p2}
  AirtelTicks = 2
  PageSize = 1
  MaxPages = 2
  AirtelFaults = 1
  MaxEvents = 3
  MaxNow = 2
  PageLimit = 2
  Tries = 2
  WatchFaults = 1
  t1 = t1
  t2 = t2
  Phone = {t1, t2}
  n1 = n1
  n2 = n2
  NationalID = {n1, n2}
  NoID = NoID
  MaxUsers = 2
  MaxOpenRegistrations = 2
  MaxIndex = 3
  MaxEdits = 1
  PilotGate = TRUE
  Bases = {0, 3}
  h1 = h1
  k1 = k1
  TxID = {1, 2}
  TxHash = {h1}
  Wallet = {1, 2}
  PublicKey = {k1}
  MaxWork = 2
  MaxSettings = 1
  MaxInWork = 1
  Base = 3
  PrefixLen = 1
  RandomLen = 1
  MaxLoans = 2
  MaxRestarts = 1
  Parts = {"references", "users", "registrations", "transactions", "wallets", "boot"}
SYMMETRY Symmetric
INVARIANTS TypesOK PeopleSound CoreSound
PROPERTY NothingTakenBack
CHECK_DEADLOCK FALSE
