SPECIFICATION FairSpec
CONSTANTS
  MaxCopies = 2
  MaxLocal = 1
  MaxStream = 2
  Scenarios <- MCScenarios
  Readers = {r1}
  MaxRetiring = 1
  MaxPending = 1
CHECK_DEADLOCK FALSE
INVARIANTS PendingServable UnpublishedLive
PROPERTIES CopiesNotMixed TransfersEnd
