\* Merges, plan conversations, drafts, interactions and the launcher, one at a time.
SPECIFICATION ComponentsSpec
CONSTANTS
  Tasks = {"a", "b"}
  Scenario <- All
  Nodes = {1, 2, 3}
  Requests = {"q"}
  Changes = 3
  Blocking = {"r", "s"}
  Messages = {"m"}
  Parts = {1, 2}
  Answerers = {"u", "v"}
  Pids = {1, 2}
  Windows = {"x", "y"}
  Clicks = 2
  Faults = 1
INVARIANTS AllTyped DoneIsIntegrated OneRepair OnlyHeldRuns NoCycle AnsweredForReal
PROPERTIES PublishedOnlyVerified DoneIsIdle Decided AcceptedForText Noticed DraftFits
  DraftDecided Reconciled OpenHeard
CHECK_DEADLOCK FALSE
