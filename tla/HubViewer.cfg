SPECIFICATION Spec
CONSTANTS
  c1 = c1
  c2 = c2
  g1 = g1
  g2 = g2
  a = a
  b = b
  s1 = s1
  s2 = s2
  NoLabel = NoLabel
  NoOne = NoOne
  Labels <- TwoLabels
  Clients <- OneClient
  Segments <- TwoSegments
  Sessions <- OneSession
  MaxHistory = 2
  TrimTo = 1
  MaxRecords = 3
INVARIANTS
  OnceWithoutGap
  ViewAgrees
PROPERTIES
  Reaches
CHECK_DEADLOCK FALSE
