SPECIFICATION FairSpec
CONSTANTS
  CaptureChunks = 3
  VerifyChunks = 2
  VerifyTimeout = 1
  AsrTimeout = 1
  LongestWait = 3
  InitialSettings <- Buffering
  Patchable <- Unrelated
  CaptureDir = TRUE
  Faults = {"unreachable", "malformed"}
INVARIANTS TypeOK FailClosedIsStrict FailOpenKeepsDetections EveryStageConfirms ConfirmedOnRecentWord LatencyBounded
PROPERTY CandidateDecided
