SPECIFICATION FairSpec
CONSTANTS
  r1 = r1
  r2 = r2
  d1 = d1
  d2 = d2
  Replicas = {r1, r2}
  Deliveries = {d1}
  Kind <- OneGas
  MAX_ATTEMPTS = 2
  MaxFaults = 0
  MaxOverlaps = 0
  MaxPatches = 1
PROPERTIES GasAlertsSettle
CHECK_DEADLOCK FALSE
