SPECIFICATION BSpec
CONSTANTS
  r1 = r1
  r2 = r2
  b1 = b1
  b2 = b2
  A = A
  None = None
  Replicas = {r1, r2}
  Deliveries = {b1, b2}
  Kind <- BatchKind
  MAX_ATTEMPTS = 1
  MaxFaults = 1
  MaxOverlaps = 1
  MaxPatches = 1
  Events = {1, 2, 3}
  Entity <- OneEntity
  Oversize <- ThreeTooLarge
  BatchSize = 2
  MAX_PENDING_OUTBOX_EVENTS = 2
INVARIANTS BTypeOK OrderedOnceQueued BatchedIsPending DeliveredWasReceived
PROPERTIES MembershipStable
CHECK_DEADLOCK FALSE
CONSTRAINTS TwoDispatched OverlapsApart
SYMMETRY Symmetry
