\* A repair whose operation a timed-out read has blocked, and a second one beside it.
SPECIFICATION Spec
CONSTANTS
  Tasks = {"a", "b"}
  Scenario <- TimedOut
INVARIANTS RepairAlone
CHECK_DEADLOCK FALSE
