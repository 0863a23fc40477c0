CONSTANTS
  k1 = k1
  k2 = k2
  pr = pr
  h1 = h1
  h2 = h2
  h3 = h3
  app1 = app1
  app2 = app2
  RunKey = {k1, k2}
  Scope = {pr}
  ScopesOf <- MCScopesOf
  MaxConcurrent <- MCMaxConcurrent
  DedupeEnabled = TRUE
  RunMode = "enforce"
  Handler = {h1, h2}
  App = {app1}
  HostOf <- OneApp
  JobsOf <- SharedJob
  Adapter = "github_actions"
  DispatchAttempts = 2
  LedgerFaults = FALSE
  Crashes = FALSE
SPECIFICATION Spec
INVARIANTS TypeOK RunningHasWorker
PROPERTIES CompletedIsFinal
CHECK_DEADLOCK FALSE
