SPECIFICATION Spec
CONSTANTS
  MaxBytes = 1
  Setups <- MCSetups
  Samples = 2
  LastStage = 1
  MaxTrouble = 1
INVARIANTS
  MotionIsAttended
  SamplesAreImages
PROPERTIES
  StartsWherePlanned
  ConfirmedDock
  SequenceEnds
CHECK_DEADLOCK FALSE
