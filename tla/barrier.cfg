SPECIFICATION FairSpec
CONSTANTS
  a = a
  b = b
  c = c
  g = g
  main = main
  Task <- GroupTask
  Group = {g}
  RootOf <- GroupRoot
  RepoOf <- GroupRepo
  Rank <- GroupRank
  Blockers <- GroupBlockers
  Path <- Paths
  Resource = {"port"}
  Needs <- BarrierNeeds
  Budget <- Unlimited
  Automated = {}
  Reviewed = {}
  InitialMode <- GroupMode
  InitialScopes <- GroupScopes
  InitialLocal = {c}
  CanDo <- BarrierCanDo
PROPERTY ExclusiveRuns
CHECK_DEADLOCK FALSE
