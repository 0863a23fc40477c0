CONSTANTS
  d1 = d1
  d2 = d2
  r1 = r1
  r2 = r2
  r3 = r3
  app1 = app1
  app2 = app2
  Delivery = {d1}
  Request = {r1, r2}
  DeliveryOf <- Redelivered
  App = {app1, app2}
  HostOf <- TwoApps
  MaxAttempts = 2
  BatchSize = 1
  FailClosed = TRUE
  InboxFaults = TRUE
  MaxCrashes = 1
  SlowProcessing = TRUE
SPECIFICATION FairSpec
INVARIANTS ReplaysAreBounded
PROPERTIES DeliveriesAreTakenUp
CHECK_DEADLOCK FALSE
