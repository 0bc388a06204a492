SPECIFICATION Spec
CONSTANTS
  p1 = p1
  p2 = p2
  c1 = c1
  Pushers <- MCPushers
  Closers <- MCClosers
  MaxPushes = 2
  NoThread = NoThread
INVARIANTS
  TypeOK
  SingleSentinel
  StragglersBounded
PROPERTIES
  ClosedEnds
  ImplementsChannel
CHECK_DEADLOCK FALSE
