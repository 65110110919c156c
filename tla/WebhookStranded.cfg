SPECIFICATION Spec
CONSTANTS
  r1 = r1
  r2 = r2
  d1 = d1
  d2 = d2
  Replicas = {r1, r2}
  Deliveries = {d1}
  Kind <- OneEvent
  MAX_ATTEMPTS = 3
  MaxFaults = 1
  MaxOverlaps = 1
  MaxPatches = 1
INVARIANTS CrashReclaimed
CHECK_DEADLOCK FALSE
