SPECIFICATION AckSpec
CONSTANTS
  t1 = t1
  t2 = t2
  Tiles = {t1}
  Scenarios <- MCAcknowledged
  MaxVersion = 2
  MaxGen = 1
  Window = 1
  MaxFailures = 2
  MaxStreak = 2
  MaxLayouts = 1
CHECK_DEADLOCK FALSE
PROPERTY SkippedFrameShown
