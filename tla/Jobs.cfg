SPECIFICATION Spec
CONSTANTS
  j1 = j1
  j2 = j2
  x1 = x1
  d1 = d1
  NoJob = NoJob
  Jobs <- TwoJobs
  Workers = 1
  MaxJobs = 1
  Downloads <- OneDownload
  Deletes <- OneDelete
  MaxRestarts = 1
INVARIANTS
  EvictsOldest
PROPERTIES
  StaysGone
  JobSettles
  NoneBeginsClosed
CHECK_DEADLOCK FALSE
