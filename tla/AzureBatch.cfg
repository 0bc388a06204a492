SPECIFICATION Spec
CONSTANTS
  Retries = 2
  Base = 1
  Cap = 2
  RetryAfters = {1, 5}
  PollInterval = 2
  PollMax = 3
  Timeout = 4
  ReqMax = 1
  Modes <- BothModes
  Outputs <- SomeOutputs
  Blank = "-"
INVARIANTS
  DeadlineKept
  ResultWhole
PROPERTIES
  OrphansBounded
  CallEnds
CHECK_DEADLOCK FALSE
