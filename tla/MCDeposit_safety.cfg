SPECIFICATION FairSpec
CONSTANTS
  MaxAttempts = 2
  MaxFaults = 3
INVARIANTS RowSound RepaidAgainOnlyIfLost
PROPERTIES ToldHowToPay FundsResolve
CHECK_DEADLOCK FALSE
