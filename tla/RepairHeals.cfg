SPECIFICATION RFairSpec
CONSTANTS
  p1 = p1
  r1 = r1
  Procs = {p1}
  Jobs = {r1}
  StartLedger = 0
  FirstTip = 5
  MaxLedger = 6
  Window = 2
  Batch = 4
  Workers = 1
  MaxFaults = 1
  MaxReorgs = 1
  MaxDepth = 2
  Lookback = 3
INVARIANTS RTypeOK RepairsInTurn
PROPERTIES RecentGapsHeal
