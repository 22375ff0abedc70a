SPECIFICATION Spec
CONSTANTS
  a = a
  b = b
  c = c
  g = g
  main = main
  Task <- PairTask
  Group = {}
  RootOf <- PairRoot
  RepoOf <- PairRepo
  Rank <- PairRank
  Blockers <- PairBlockers
  Path <- Paths
  Resource = {"port"}
  Needs <- PairNeeds
  Budget <- Unlimited
  Automated = {}
  Reviewed = {a}
  InitialMode <- PairMode
  InitialScopes <- PairScopes
  InitialLocal = {b}
  CanDo <- RetryCanDo
INVARIANT RunningHoldsLease
CHECK_DEADLOCK FALSE
