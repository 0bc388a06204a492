SPECIFICATION Spec
CONSTANTS
  a = a
  b = b
  c = c
  Pending = Pending
  Chunks = 5
  Span = 3
  Speech <- ThirdAndFifth
  Labels = {a, b, c}
INVARIANTS
  AllSaid
  AllHeard
  ToldOfEach
PROPERTIES
  SourceEndEnds
  CancelEnds
CHECK_DEADLOCK FALSE
