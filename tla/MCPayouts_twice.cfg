SPECIFICATION PayoutsSpec
CONSTANTS
  MaxHandlers = 1
  MaxFaults = 1
INVARIANT PaidAtMostOnce
CHECK_DEADLOCK FALSE
