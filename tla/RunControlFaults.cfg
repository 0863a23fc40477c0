CONSTANTS
  k1 = k1
  k2 = k2
  pr = pr
  h1 = h1
  h2 = h2
  h3 = h3
  app1 = app1
  app2 = app2
  RunKey = {k1}
  Scope = {pr}
  ScopesOf <- MCScopesOf
  MaxConcurrent <- MCMaxConcurrent
  DedupeEnabled = TRUE
  RunMode = "enforce"
  Handler = {h1, h2}
  App = {app1, app2}
  HostOf <- TwoApps
  JobsOf <- SameJob
  Adapter = "github_actions"
  DispatchAttempts = 2
  LedgerFaults = TRUE
  Crashes = TRUE
SPECIFICATION FairSpec
INVARIANTS NoRunWithoutClaim
PROPERTIES GrantIsExclusive ImplementsClaimWindow SlotsAreReleased
CHECK_DEADLOCK FALSE
