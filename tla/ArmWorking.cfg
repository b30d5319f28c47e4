CONSTANTS
  None = None
  Top = 4
  Zero = 1
  Lead = 1
  CommandLead = 1
  FollowLimit = 1
  FreshFor = 1
  CommandLimit = 1
  Settle = 2
  TransitionLimit = 2
  PathLimit = 2
  StallLimit = 0
  OutwardFor = 0
  SteadyFor = 0
  ProofFor = 2
  RecoverLimit = 1
  RecoverStall = 1
  AlignLimit = 1
  MaxDt = 1
  MaxStartupDt = 1
  EntryRequired = TRUE
  AlignmentEnabled = TRUE
  SeenFor = 2
  ActivateLimit = 1
  JogFor = 1
  Stall = 1
  Surroundings <- Working
SPECIFICATION Spec
INVARIANTS
  JogIsNotResumed
PROPERTIES
  TransitionsEnd
