SPECIFICATION FairSpec
CONSTANTS
  r1 = r1
  r2 = r2
  d1 = d1
  d2 = d2
  Replicas = {r1, r2}
  Deliveries = {d1, d2}
  Kind <- EventAndGas
  MAX_ATTEMPTS = 2
  MaxFaults = 1
  MaxOverlaps = 1
  MaxPatches = 2
INVARIANTS ExclusiveDelivery Recoverable AttemptsBounded
PROPERTIES EventsSettle
CHECK_DEADLOCK FALSE
