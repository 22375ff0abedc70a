SPECIFICATION Spec
CONSTANTS
  a = a
  b = b
  c = c
  g = g
  main = main
  Task <- ChainTask
  Group = {}
  RootOf <- ChainRoot
  RepoOf <- ChainRepo
  Rank <- ChainRank
  Blockers <- ChainBlockers
  Path <- Paths
  Resource = {"port"}
  Needs <- ChainNeeds
  Budget <- One
  Automated = {}
  Reviewed = {b}
  InitialMode <- ChainMode
  InitialScopes <- ChainScopes
  InitialLocal = {}
  CanDo <- ChainCanDo
PROPERTIES BudgetKept ReworkMarks
CHECK_DEADLOCK FALSE
