SPECIFICATION Safety
CONSTANTS
  Clusters = {c1, c2}
  Voices = {v1, v2}
  Speakers = {s1, s2}
  Names = {ann, bob}
  None = None
  Batches = {}
  AutoEnrol = {}
  Stream = stream
  Command = command
  MaxPrints = 1
  MaxStamp = 2
  MaxOrders = 2
  MaxEdits = 0
SYMMETRY Interchangeable
INVARIANTS RenameFindsSpeaker
CHECK_DEADLOCK FALSE
