SPECIFICATION Spec
CONSTANTS
  general = general
  followup = followup
  swarm = swarm
  responsiveness = responsiveness
  l1 = l1
  l2 = l2
  l3 = l3
  fixed = fixed
  alice = alice
  bob = bob
  pr = pr
  lane1 = lane1
  h1 = h1
  h2 = h2
  d1 = d1
  Unset = Unset
  Unavailable = Unavailable
  Kind <- MCKind
  Followup = followup
  InitialKinds = {general}
  FixedKinds = {swarm, responsiveness}
  FixedLane <- MCFixedLane
  Lane = {l1, l2, l3, fixed}
  User = {alice, bob}
  Account = {pr, lane1}
  AccountsOf <- MCAccountsOf
  OwnEstimate <- MCOwnEstimate
  Handler = {h1, h2}
  Delivery = {d1}
  DeliveryOf <- OneDelivery
  Operators <- MCOperators
  Files <- MCFiles
  Events <- MCEvents
  Actors <- MCActors
  MaxPeriods = 1
  Faults = TRUE
INVARIANTS TypeOK ConfigOnlyTightens DeliveryWithinCaps OverspendWasUnseen OneFailureComment
CHECK_DEADLOCK FALSE
