SPECIFICATION Spec
CONSTANTS
  p1 = p1
  Procs = {p1}
  Jobs = {}
  StartLedger = 0
  FirstTip = 5
  MaxLedger = 5
  Window = 2
  Batch = 1
  Workers = 2
  MaxFaults = 0
  MaxReorgs = 1
  MaxDepth = 3
INVARIANTS NoGaps
