SPECIFICATION Spec
CONSTANTS
  PlainKeys = {"b"}
  ModifierKeys = {"shift"}
  LeftShift = "shift"
  CodePoints = {"B", "C"}
  Buttons = {"left"}
  Keymaps = {"two", "one"}
  InitialKeymap = "two"
  LayoutNames <- MCLayoutNames
  Unicode <- MCUnicode
  NoMapping = NoMapping
  Names = {"us", "ua", "de"}
  Policies = {"Client", "Compositor"}
  OtherLayouts <- MCOthers
  NoMain = NoMain
  MaxResets = 0
  MaxSwitches = 0
  MaxStreamFailures = 0
INVARIANT NothingOutlivesSession
CHECK_DEADLOCK FALSE
