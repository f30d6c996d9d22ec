SPECIFICATION Spec
CONSTANTS
  NoPath = NoPath
  Invalid = Invalid
  Odd = Odd
  Names <- SortedNames
  Mappings <- YamlContents
  Libraries <- MoreDirectories
  MaxScore = 5
  Unit = 3
  NoThreshold = NoThreshold
  WakeWords <- AllWords
  Thresholds = {2}
  Levels = {0, 1, 2}
  Recordings <- LiveAudio
  TargetPeak = 9800
  TestSamples = 1280
  Letters = {"a", "g", "t"}
  Texts <- Syllables
  Wakewords <- Keywordlists
  Probabilities = {40, 90}
  MinProb = 68
  MaxPieces = 4
INVARIANTS ServesNewest GatesFit OfferedIsBacked TestForetellsLive MoreConfidentNeverLess MemberOrderIrrelevant DistanceIsLevenshtein CutsDoNotMatter SecondPassFindsWord
