SPECIFICATION FairSpec
CONSTANTS
  Services <- Network
  MaxTasks = 3
INVARIANTS ListedOnce ChargersAreListed NoTaskOutlives
PROPERTIES ScanEnds
CHECK_DEADLOCK FALSE
