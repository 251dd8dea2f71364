SPECIFICATION Spec
CONSTANTS
  Sizes <- MCSizes
  Requests <- MCRequests
  LayoutRequests <- MCLayouts
  IdleSize <- MCIdle
  NoSize <- MCNoSize
  Clamp <- MCClamp
  Fit <- MCFit
  PhysicalOutput = FALSE
  ResolutionFixed = FALSE
  DropPhases <- MCPreempt
  CaptureRestarts = FALSE
  IpcFaults = FALSE
  MaxEpoch = 1
  CaptureIds = {c1}
  NoCapture = none
  NoLayout = nolayout
INVARIANT RestoredAtRest
