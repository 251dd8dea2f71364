SPECIFICATION FairSpec
CONSTANTS
  PlainKeys = {"b"}
  ModifierKeys = {"shift"}
  LeftShift = "shift"
  CodePoints = {"B", "C"}
  Buttons = {"left"}
  Keymaps = {"two", "one"}
  InitialKeymap = "two"
  LayoutNames <- MCLayoutNames
  Unicode <- MCUnicode
  NoMapping = NoMapping
  Names = {"us", "ua", "de"}
  Policies = {"Client", "Compositor"}
  OtherLayouts <- MCOthers
  NoMain = NoMain
  MaxResets = 2
  MaxSwitches = 1
  MaxStreamFailures = 1
CHECK_DEADLOCK FALSE
INVARIANTS HeldKeysTracked ModifiersFollowKeys NoKeyOutlivesSession
PROPERTIES LayoutSettles
