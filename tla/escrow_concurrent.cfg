CONSTANTS
  r1 = r1
  r2 = r2
  w1 = w1
  w2 = w2
  Requests = {r1, r2}
  Wallets = {w1, w2}
  Amounts = {2}
  RefundScopes <- WholeEscrow
  MaxDeposits = 2
  MaxFaults = 1
  FeeBps = 5000
SPECIFICATION Spec
SYMMETRY Symmetry
CHECK_DEADLOCK FALSE
INVARIANTS
  TypeOK
  BalanceIdentity
  AuditCoversRow
