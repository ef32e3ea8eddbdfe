SPECIFICATION FairSpec
CONSTANTS
  r1 = r1
  r2 = r2
  out = out
  none = none
  Principal = 2
  Refunds = {r1, r2}
  RefundAmount <- Amounts
  Listings <- AnchorListings
  Outbound = out
  Nothing = none
  Reports = {"on_ledger", "unknown"}
  MaxAttempts = 2
  MaxFaults = 1
INVARIANTS RowSound PaidAtMostOnce ClosedOnlyWhenRepaid
PROPERTIES MovesMoneyAsCashOut RefundsResolve
CHECK_DEADLOCK FALSE
