SPECIFICATION Spec
CONSTANTS
  o1 = o1
  o2 = o2
  h1 = h1
  h2 = h2
  Orders = {o1, o2}
  Handlers = {h1, h2}
  Followed = {o1}
  DailyLimit = 1
  MonthlyLimit = 2
  MaxDays = 1
  MaxFaults = 1
INVARIANTS TypeOK AuditedStatus MonthlyUsageCounts
PROPERTIES SettledOnce TableExceptLateCompletion
CHECK_DEADLOCK FALSE
SYMMETRY Symmetry
