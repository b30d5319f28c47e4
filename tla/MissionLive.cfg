CONSTANTS
  p0 = p0
  p1 = p1
  Circle = 4
  SearchAngle = 1
  SearchDwell = 3
  SearchTimeout = 5
  StopSettle = 1
  TurnSettle = 1
  OdomTimeout = 1
  FollowTimeout = 1
  FinishedHold = 1
  EmergencyHold = 2
  ResumeTimeout = 2
  ResumeRepeat = 1
  StampFresh = 1
  FrameGrace = 1
  FrameTimeout = 1
  MinWaypoints = 2
  TurnBound = 4
  Origins = {"o1"}
  Waypoints <- MCWaypoints
  TurnSign <- Left
  Surroundings <- OnlyResting
SPECIFICATION Spec
PROPERTIES
  SearchEnds
  ResumeCheckEnds
