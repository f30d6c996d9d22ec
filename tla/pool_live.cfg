SPECIFICATION FairSpec
CONSTANTS
  Clients = {c1}
  Recorders = {r1}
  WakeWords = {ensemble}
  Models = {light}
  Members <- MCLight
  DefaultWord = ensemble
  Ids = {i1, i2}
  MaxEdits = 1
  plain = plain
  ensemble = ensemble
  light = light
  strong = strong
INVARIANTS TypeOK Exclusive
PROPERTIES EventsHandled LoopFreed
