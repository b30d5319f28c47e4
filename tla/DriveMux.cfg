CONSTANTS
  MissionStates <- MCStates
  ChainStates <- MCChainStates
  StopToCapture = TRUE
  SourceTimeout = 1
  Grace = 2
  Lease = 2
  MaxHold = 3
  Rearm = 1
  JoyTimeout = 2
  StopMode = TRUE
  StillTime = 1
  SettleTime = 1
  CaptureTimeout = 3
  ImageStale = 3
  OdomStale = 1
  RearmAfter = 1
  Late = 2
SPECIFICATION ChainSpec
INVARIANTS
  ModePressedInDrive
  WheelsFollowTheHand
  PictureAtRest
PROPERTIES
  ImplementsArbiter
  HoldNotExtended
