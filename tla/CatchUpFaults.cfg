SPECIFICATION FairSpec
CONSTANTS
  p1 = p1
  Procs = {p1}
  Jobs = {}
  StartLedger = 0
  FirstTip = 3
  MaxLedger = 4
  Window = 2
  Batch = 1
  Workers = 2
  MaxFaults = 1
  MaxReorgs = 0
  MaxDepth = 3
INVARIANTS TypeOK NoGaps CheckpointSound
PROPERTIES IndexSpec CatchesUp
