SPECIFICATION Spec
CONSTANTS
  Organizers = {r1, r2}
  Entrants_ = {a, b, c}
  Fee = 10
  MinEntries = 3
  MaxEntries = 4
  Structure <- Top3Split
  MinMatchFee = 0
  MaxCupFaults = 0
  MaxAttempts = 2
  MaxOverlaps = 0
  MaxStrays = 0
  FeeBps = 500
  Contestants = {p1, p2, p3}
  Pots = {7, 20}
  MaxDistributions = 2
  MaxPayFaults = 2
SYMMETRY Symmetry
CHECK_DEADLOCK FALSE
INVARIANT SingleLossEliminates
