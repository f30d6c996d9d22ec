SPECIFICATION Spec
CONSTANTS
  WakeWords = {w1, w2}
  DefaultWord = w1
  Levels = {1, 2}
  Refractories = {2}
  MaxAge = 2
  NoOverride = NoOverride
  Slow = FALSE
  Orderly = TRUE
  MaxChanges = 2
INVARIANTS TypeOK Consecutive CooldownAfterDetection StopTellsTheTruth NextStreamReresolves
