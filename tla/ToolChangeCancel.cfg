CONSTANTS
  StopAfter = "done"
  Samples = 1
  FeedbackFor = 1
  ControllerFor = 1
  LockFor = 2
  MaxRequests = 1
  MaxCalls = 2
SPECIFICATION Spec
PROPERTIES
  CancelKeepsTheArm
