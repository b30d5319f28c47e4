CONSTANTS
  Wrap = 8
  MaxStep = 1
  Freshness = 2
  MaxDt = 1
  Stall = 2
  TurnFor = 10
  StopLimit = 3
  StandFor = 1
  Need = 9
  CloseLimit = 4
  ProgressLimit = 2
  Settle = 2
  Far = 2
SPECIFICATION Spec
INVARIANTS
  TravelIsReal
PROPERTIES
  FastenedForReal
  JobsEnd
