SPECIFICATION FairSpec
CONSTANTS
  Scenario <- Everything
INVARIANTS TypeOK CreatedOnce LeaseCovers Attributed
PROPERTIES JournalSpec NoBlindStart PauseConfirmed Settles
CHECK_DEADLOCK FALSE
