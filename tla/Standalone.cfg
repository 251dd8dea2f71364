SPECIFICATION StandaloneSpec
CONSTANTS
  OfferScenarios <- MCOffers
  MaxReads = 2
  LockIds = {1}
  QueueDepth = 1
  MaxLocked = 1
  MaxWrites = 2
  MaxPastes = 2
  Stall = 2
  Total = 3
  MaxSize = 1
  Processes = {p1, p2}
  MaxMounts = 2
  MaxDepth = 2
  WalkDepth = 2
  WireLength = 6
  Key <- MCKey
  NameLength <- MCNameLength
  MaxLong = 8
  MaxShort = 4
  MaxDim = 15
  OtherLines <- MCOtherLines
CHECK_DEADLOCK FALSE
INVARIANTS OutboundSound SelectionServed MountsKept CreationSound FilesSurvive FormatsSound SizesConverge SetupSafe InputFaithful
PROPERTIES OutboundProgress
