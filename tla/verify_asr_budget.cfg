SPECIFICATION Spec
CONSTANTS
  CaptureChunks = 3
  VerifyChunks = 2
  VerifyTimeout = 1
  AsrTimeout = 1
  LongestWait = 3
  InitialSettings <- AsrAndCapture
  Patchable = {}
  CaptureDir = FALSE
  Faults = {}
INVARIANT AsrBudget
