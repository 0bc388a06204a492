SPECIFICATION Safety
CONSTANTS
  Clusters = {c1, c2}
  Voices = {v1, v2}
  Speakers = {s1, s2}
  Names = {ann}
  None = None
  Batches = {b1}
  AutoEnrol = {b1, stream}
  Stream = stream
  Command = command
  MaxPrints = 1
  MaxStamp = 2
  MaxOrders = 1
  MaxEdits = 1
SYMMETRY Interchangeable
INVARIANTS PrintsKept OneEnrolmentPerVoice LabelsOwnVoice
CHECK_DEADLOCK FALSE
