SPECIFICATION Spec
CONSTANTS
  Scenario <- Restarting
INVARIANT Matched
CHECK_DEADLOCK FALSE
