SPECIFICATION Spec
CONSTANTS
  Scenario <- TimedOut
INVARIANT UncertainCounts
CHECK_DEADLOCK FALSE
