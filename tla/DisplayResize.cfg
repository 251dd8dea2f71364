SPECIFICATION PolicySpec
CONSTANTS
  Sizes <- MCSizes
  Requests <- MCRequests
  LayoutRequests <- MCLayouts
  IdleSize <- MCIdle
  NoSize <- MCNoSize
  Clamp <- MCClamp
  Fit <- MCFit
  PhysicalOutput = FALSE
  ResolutionFixed = FALSE
  DropPhases <- MCPreempt
  CaptureRestarts = TRUE
  IpcFaults = TRUE
  MaxEpoch = 2
  CaptureIds = {c1, c2}
  SoleCapture = c1
  NoCapture = none
  NoLayout = nolayout
INVARIANTS TypeOK ResizeExclusive ConfirmedOutput RestoreYields PoliciesKept
PROPERTIES RemovedOutputUntouched
