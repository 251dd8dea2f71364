SPECIFICATION Spec
CONSTANTS
  Window = 2
  OutputSlots = 2
  Scenarios <- MCAvc
  MaxFrame = 3
INVARIANT AckReleasesSlot
CHECK_DEADLOCK FALSE
