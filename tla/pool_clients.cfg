SPECIFICATION Spec
CONSTANTS
  Clients = {c1, c2}
  Recorders = {}
  WakeWords = {ensemble}
  Models = {light, strong}
  Members <- MCOne
  DefaultWord = ensemble
  Ids = {i1, i2, i3, i4}
  MaxEdits = 1
  plain = plain
  ensemble = ensemble
  light = light
  strong = strong
SYMMETRY Symmetric
PROPERTY OneUserAtATime
