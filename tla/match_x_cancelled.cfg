CONSTANTS
  r1 = r1
  r2 = r2
  r3 = r3
  p1 = p1
  p2 = p2
  p3 = p3
  Requests = {r1}
  Players = {p1, p2}
  EntryFee = 2
  MinPlayers = 2
  MaxPlayers = 2
  Funds = 2
  MaxLocks = 1
  MaxFaults = 0
  FeeBps = 5000
SPECIFICATION Spec
SYMMETRY Symmetry
CHECK_DEADLOCK FALSE
INVARIANTS
  RefundsReachWallets
