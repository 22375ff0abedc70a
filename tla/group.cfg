SPECIFICATION Spec
CONSTANTS
  a = a
  b = b
  c = c
  g = g
  main = main
  Task <- GroupTask
  Group = {g}
  RootOf <- GroupRoot
  RepoOf <- GroupRepo
  Rank <- GroupRank
  Blockers <- GroupBlockers
  Path <- Paths
  Resource = {"port"}
  Needs <- GroupNeeds
  Budget <- Unlimited
  Automated = {}
  Reviewed = {g}
  InitialMode <- GroupMode
  InitialScopes <- GroupScopes
  InitialLocal = {c}
  CanDo <- GroupCanDo
INVARIANTS RunningHoldsLease ScopesDisjoint RunningOwnsResources GroupReviewComplete
PROPERTIES ReservationsLast LockSpec
CHECK_DEADLOCK FALSE
