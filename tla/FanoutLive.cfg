\* one event, one subscriber, two processes, one request, one failure
SPECIFICATION FairSpec
CONSTANTS
  e1 = e1
  s1 = s1
  s2 = s2
  p1 = p1
  p2 = p2
  a1 = a1
  None = None
  Events = {e1}
  Subs = {s1}
  Procs = {p1, p2}
  Admins = {a1}
  Durable = TRUE
  MaxAttempts = 2
  Batch = 2
  MaxRequests = 1
  MaxFailures = 1
  MaxStalls = 0
INVARIANTS
  ClaimIsExclusive
PROPERTIES
  KeepsPromise
  FanoutIsComplete
  DeliverySettles
CHECK_DEADLOCK FALSE
