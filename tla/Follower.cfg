CONSTANTS
  Circle = 8
  Routes <- MCRoutes
  Headings = {0, 2}
  Origins = {0}
  Corrections = {1}
  Stamps = {0}
  MissionStates <- MCMissions
  LandmarkCount = 1
  LandmarkRecovery = TRUE
  ReverseDrive = TRUE
  CornerAngle = 2
  EnterAngle = 1
  ExitAngle = 0
  MinSpeed = 1
  Speed = 1
  Turn = 1
  MinRotate = 1
  MaxRotate = 1
  OdomTimeout = 1
  RotateSettle = 1
  MissWait = 1
  StampFresh = 1
SPECIFICATION HSpec
INVARIANTS
  WindowOpen
PROPERTIES
  CornerHandledWhereReached
