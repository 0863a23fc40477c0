CONSTANTS
  d1 = d1
  d2 = d2
  r1 = r1
  r2 = r2
  r3 = r3
  app1 = app1
  app2 = app2
  Delivery = {d1, d2}
  Request = {r1, r3}
  DeliveryOf <- Distinct
  App = {app1}
  HostOf <- OneApp
  MaxAttempts = 2
  BatchSize = 2
  FailClosed = FALSE
  InboxFaults = FALSE
  MaxCrashes = 0
  SlowProcessing = FALSE
SPECIFICATION FairSpec
INVARIANTS TypeOK ProcessingHasOwner
PROPERTIES SettledStaysSettled DeliveriesSettle
CHECK_DEADLOCK FALSE
