SPECIFICATION Spec
CONSTANTS
  r1 = r1
  r2 = r2
  out = out
  none = none
  Principal = 2
  Refunds = {r1, r2}
  RefundAmount <- Amounts
  Listings <- AnchorListings
  Outbound = out
  Nothing = none
  Reports = {"unknown"}
  MaxAttempts = 2
  MaxFaults = 0
INVARIANT FailedSendReleased
CHECK_DEADLOCK FALSE
