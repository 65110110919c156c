SPECIFICATION FairSpec
CONSTANTS
  p1 = p1
  p2 = p2
  c1 = c1
  c2 = c2
  Procs = {p1, p2}
  Calls = {c1, c2}
  MaxWrites = 2
  MaxFaults = 1
INVARIANTS TypeOK Coherent
PROPERTIES Converges
CHECK_DEADLOCK FALSE
