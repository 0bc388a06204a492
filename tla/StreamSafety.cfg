SPECIFICATION Safety
CONSTANTS
  r1 = r1
  r2 = r2
  r3 = r3
  s1 = s1
  s2 = s2
  x1 = x1
  NoReq = NoReq
  MaxEvents = 1
  MaxRenames = 1
  Stops = {x1}
  Requests <- TwoRequests
  Sessions <- TwoSessions
INVARIANTS
  Exclusive
  MicClaimSucceeds
  EndClosesTranscript
  EndFreesSession
SYMMETRY StreamSymmetry
CHECK_DEADLOCK FALSE
