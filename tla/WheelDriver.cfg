CONSTANTS
  CmdTimeout = 0
  SafetyTimeout = 0
  Watchdog = 1
  PollTimeout = 1
  Cooldown = 2
  ReconnectAfter = 2
SPECIFICATION Spec
INVARIANTS
  MotionIsRecent
  NoRunaway
PROPERTIES
  Reconnects
