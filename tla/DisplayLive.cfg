SPECIFICATION LiveSpec
CONSTANTS
  Sizes <- MCSizes
  Requests <- MCRequests
  LayoutRequests <- MCNoLayouts
  IdleSize <- MCIdle
  NoSize <- MCNoSize
  Clamp <- MCClamp
  Fit <- MCFit
  PhysicalOutput = FALSE
  ResolutionFixed = FALSE
  DropPhases <- MCPreempt
  CaptureRestarts = FALSE
  IpcFaults = TRUE
  MaxEpoch = 2
  CaptureIds = {c1}
  NoCapture = none
  NoLayout = nolayout
PROPERTIES DisplayProgress
