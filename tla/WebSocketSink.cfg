SPECIFICATION Spec
CONSTANTS
  viewer = viewer
  a = a
  b = b
  Main = Main
  Stop = Stop
  Clients <- OneClient
  Labels <- TwoLabels
  MaxHistory = 2
  TrimTo = 1
  MaxRecords = 4
INVARIANTS
  NothingMissed
  StopFlushes
PROPERTIES
  Ends
CHECK_DEADLOCK FALSE
