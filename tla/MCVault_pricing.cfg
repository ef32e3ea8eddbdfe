SPECIFICATION Spec
CONSTANTS
  Users = {u1}
  Escrow = escrow
  Receivers = {r1}
  VirtualShares = 2
  Scale = 2
  Factors = {2, 3}
  Cap = 80
  CapScale = 100
  DefaultMaxDeposit = 4
  DefaultMaxWithdraw = 4
  DefaultGracePeriod = 1
  DefaultMinQueueAssets = 1
  Amounts = {1, 3}
  ShareAmounts = {1, 3}
  Donations = {1}
  LockPeriods = {}
  GracePeriods = {}
  Extensions = {}
  Limits = {2}
  Switches = {}
  MinQueues = {}
  Regulated = {}
  Unreachable = {}
  MaxTime = 1
  MaxAssets = 7
  MaxSupply = 10
  MaxId = 1
INVARIANT TypeOK
INVARIANT QuotesHonoured
PROPERTY SharePriceHolds
PROPERTY LendsInOrder
