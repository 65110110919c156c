SPECIFICATION FairSpec
CONSTANTS
  i1 = i1
  i2 = i2
  i3 = i3
  scan = scan
  gas = gas
  Instances = {i1, i2, i3}
  JobId <- TwoJobs
  MaxDuration = {i2, i3}
  RetryOnFailure = {i2}
  MaxLive = 2
INVARIANTS TypeOK NotWedged ExactFlag
PROPERTIES DrainsPlainJobs Unblocks
CHECK_DEADLOCK FALSE
