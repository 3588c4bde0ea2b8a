CONSTANTS
  r1 = r1
  r2 = r2
  w1 = w1
  w2 = w2
  Requests = {r1}
  Wallets = {w1, w2}
  Amounts = {2, 3}
  RefundScopes <- WholeEscrow
  MaxDeposits = 3
  MaxFaults = 0
  FeeBps = 5000
SPECIFICATION FairSpec
CHECK_DEADLOCK FALSE
INVARIANTS
  RowMatchesLog
  SettlementComplete
PROPERTIES
  ImplementsAccount
  SettlementEnds
  LockedUntilSettled
