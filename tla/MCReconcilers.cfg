SPECIFICATION FairSpec
CONSTANTS
  HealAttempts = 2
  AccountFaults = 3
  x1 = x1
  Addr = {x1}
  AlertTries = 2
  AdminActs = 2
  AllowFaults = 1
INVARIANTS TypesOK ReconcilersSound
PROPERTIES ReconcilersSettle
CHECK_DEADLOCK FALSE
