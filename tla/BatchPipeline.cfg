SPECIFICATION RunSpec
CONSTANTS
  Window = 3
  Hop = 2
  MinSegment = 2
  Gap = 1
  Num = 7
  Den = 10
  Unknown = "Speaker_Unknown"
  Mixed = "mixed"
  NoOne = "None"
  Duration = 8
  Samples = 17
  Frame = 2
  MinSpeech = 3
  Pad = 3
  Clusters = {1, 2}
  LocalNames <- Names
  Transcripts <- SomeTranscripts
  PyannoteResults <- SomePyannote
  Speakers <- TwoSpeakers
INVARIANTS
  TempRemoved
  TidySpans
  SegmentsFaithful
  WordsOwned
  VoteHolds
  SecondaryOwners
CHECK_DEADLOCK FALSE
