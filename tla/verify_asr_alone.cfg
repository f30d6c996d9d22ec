SPECIFICATION Spec
CONSTANTS
  CaptureChunks = 3
  VerifyChunks = 2
  VerifyTimeout = 0
  AsrTimeout = 0
  LongestWait = 3
  InitialSettings <- AsrAlone
  Patchable = {}
  CaptureDir = FALSE
  Faults = {}
INVARIANT EveryStageConfirms
