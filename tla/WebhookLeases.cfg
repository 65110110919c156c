SPECIFICATION Spec
CONSTANTS
  r1 = r1
  r2 = r2
  d1 = d1
  d2 = d2
  Replicas = {r1, r2}
  Deliveries = {d1, d2}
  Kind <- BatchAndPing
  MAX_ATTEMPTS = 1
  MaxFaults = 1
  MaxOverlaps = 1
  MaxPatches = 2
INVARIANTS TypeOK ExclusiveDelivery Recoverable NoFalseSuccess
PROPERTIES OutcomeFinal NoRetryWhileInactive
CHECK_DEADLOCK FALSE
SYMMETRY Symmetry
