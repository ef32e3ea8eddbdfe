SPECIFICATION Spec
CONSTANTS
  Wad = 100
  BaseRate = 6
  Slope1 = 40
  Slope2 = 300
  Optimal = 80
  Cap = 80
  Year = 2
  Ceilings = {8, 60}
  Amounts = {7, 50}
  Idle = 100
  MaxTime = 3
  MaxLoans = 2
  MaxDonated = 107
INVARIANTS DebtSound RateShape
PROPERTY CeilingHonoured
CHECK_DEADLOCK FALSE
