SPECIFICATION Spec
CONSTANTS
  Clients = {c1}
  Recorders = {}
  WakeWords = {plain, ensemble}
  Models = {light, strong}
  Members <- MCMembers
  DefaultWord = plain
  Ids = {i1, i2, i3}
  MaxEdits = 2
  plain = plain
  ensemble = ensemble
  light = light
  strong = strong
SYMMETRY Symmetric
INVARIANT PoolFresh
PROPERTY StreamsStartFresh
