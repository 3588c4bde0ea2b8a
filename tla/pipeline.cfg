SPECIFICATION Spec
CONSTANTS
  MaxEvents = 3
  MaxBufferSize = 2
  MAX_RETRIES = 2
  Flushers = {f1, f2}
  MaxTroubles = 3
  Callers = {c1, c2}
  Signatures = {s1}
  Foreign = {s2}
  MaxSendFaults = 1
  MaxUpdates = 3
SYMMETRY Alike
CHECK_DEADLOCK FALSE
INVARIANTS
  TypeOK
  NoEventVanishes
  HandledInOrder
  RecordsMatchChain
