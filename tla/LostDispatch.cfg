CONSTANTS
  d1 = d1
  r1 = r1
  r2 = r2
  p1 = p1
  j1 = j1
  j2 = j2
  k1 = k1
  k2 = k2
  pr = pr
  Delivery = {d1}
  MaxAttempts = 2
  BatchSize = 1
  RunKey = {k1, k2}
  Scope = {pr}
  ScopesOf <- MCScopesOf
  MaxConcurrent <- MCUncapped
  DedupeEnabled = TRUE
  RunMode = "enforce"
  Request = {r1}
  DeliveryOf <- MCDeliveryOf
  Processor = {p1}
  Job = {j1, j2}
  JobsOf <- MCJobsOf
  KeyOf <- MCKeyOf
  ReplayKeyOf <- MCKeyOf
  DispatchAttempts = 2
  Faulty = {}
  TokenFaults = TRUE
  SlowProcessing = FALSE
  HydrationFaults = FALSE
  MaxCrashes = 0
  Expiring = {}
  Ageing = {}
SPECIFICATION Spec
INVARIANTS FailuresAreRetried
CHECK_DEADLOCK FALSE
