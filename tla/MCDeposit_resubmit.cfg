SPECIFICATION Spec
CONSTANTS
  MaxAttempts = 2
  MaxFaults = 2
INVARIANT NeverResubmitted
CHECK_DEADLOCK FALSE
