SPECIFICATION Spec
CONSTANTS
  NoPath = NoPath
  Invalid = Invalid
  Odd = Odd
  Yaml = Yaml
  Fine = Fine
  Junk = Junk
  Torn = Torn
  Absent = Absent
  Names <- SortedNames
  HandMade <- ByHand
  ModelContents = {Fine, Junk}
  Loadable = {Fine}
  YamlContents <- OddYamls
  Others <- NoLibrary
  default_model = "duet"
  Archives <- Zips
  Found <- Existed
  Keys = {"threshold", "capture"}
  capture = "capture"
  Values = {0, 1}
  On = 1
  NotAnObject = NotAnObject
  MaxRequests = 2
  MaxCrashes = 1
  MaxEdits = 0
INVARIANT RolledBackOnErrors
