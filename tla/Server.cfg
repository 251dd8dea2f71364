SPECIFICATION FairSpec
CONSTANTS
  Starters = {me, peer}
  NoStarter = nostarter
  Me = me
  MaxPairs = 3
  Attempts = {p1, p2}
  NoAttempt = noattempt
  HookDeadline = 2
  HookConfigs <- MCHookConfigs
  MaxHooks = 4
  Hardware <- MCHardware
  OtherSinks <- MCOther
  Inputs = {"a"}
  MaxSounds = 2
  SoundStarts <- MCSoundStarts
  MaxUpsets = 2
  MaxAudioPid = 2
  Features <- MCFeatures
  PamCredentials <- MCCredentials
CHECK_DEADLOCK FALSE
INVARIANTS PamSound HooksSound AudioSound
PROPERTIES TlsSound ServerProgress
