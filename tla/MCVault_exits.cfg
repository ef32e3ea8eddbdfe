SPECIFICATION ExitsSpec
CONSTANTS
  Users = {u1, u2}
  Escrow = escrow
  Receivers = {r1}
  VirtualShares = 1
  Scale = 2
  Factors = {2}
  Cap = 80
  CapScale = 100
  DefaultMaxDeposit = 4
  DefaultMaxWithdraw = 4
  DefaultGracePeriod = 1
  DefaultMinQueueAssets = 1
  Amounts = {2}
  ShareAmounts = {1, 2}
  Donations = {}
  LockPeriods = {1, 3}
  GracePeriods = {0, 2}
  Extensions = {3}
  Limits = {}
  Switches = {TRUE, FALSE}
  MinQueues = {2}
  Regulated = {u1}
  Unreachable = {r1}
  MaxTime = 3
  MaxAssets = 5
  MaxSupply = 4
  MaxId = 3
INVARIANT VaultSound
PROPERTY ServedInOrder
PROPERTY FrozenNeverPaid
PROPERTY LocksHold
