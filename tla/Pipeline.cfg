\* One capture thread, its processor and its graphics channel, in several sessions.
SPECIFICATION FairSpec
CONSTANTS
  t1 = t1
  t2 = t2
  Tiles <- MCTiles
  Scenarios <- MCScenarios
  MaxVersion = 2
  MaxGen = 2
  Window = 1
  MaxFailures = 2
  MaxStreak = 2
  MaxLayouts = 1
CHECK_DEADLOCK FALSE
INVARIANTS StaleIsPending EncoderFollows
PROPERTIES FramesInOrder CaptureProgress
