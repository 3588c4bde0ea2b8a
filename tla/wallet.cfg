CONSTANTS
  r1 = r1
  r2 = r2
  Requests = {r1, r2}
  Amounts = {1, 2}
  DailyLimit = 2
  Cooldown = 2
  DayLength = 3
  MaxClock = 5
  MaxFunds = 4
  MaxFees = 2
  MaxFaults = 1
  MaxConcurrentFunds = 2
  MaxConcurrentFees = 1
SPECIFICATION MCSpec
CHECK_DEADLOCK FALSE
SYMMETRY Symmetry
INVARIANTS
  TypeOK
  FundsBacked
  WalletConserved
PROPERTY
  WithdrawalLimits
