SPECIFICATION FairSpec
CONSTANTS
  a = a
  b = b
  c = c
  g = g
  main = main
  Task <- DrainTask
  Group = {}
  RootOf <- DrainRoot
  RepoOf <- DrainRepo
  Rank <- DrainRank
  Blockers <- DrainBlockers
  Path <- Paths
  Resource = {"port"}
  Needs <- DrainNeeds
  Budget <- Unlimited
  Automated = {a}
  Reviewed = {}
  InitialMode <- DrainMode
  InitialScopes <- DrainScopes
  InitialLocal = {b}
  CanDo <- DrainCanDo
PROPERTY ExclusiveRuns
CHECK_DEADLOCK FALSE
