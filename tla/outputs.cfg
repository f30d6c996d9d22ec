CONSTANTS
    Stems = {1, 2}
    Seconds = {1, 2}
    Handlers = {1, 2}
    capture_keep = 2
    Words = {agat, basia}
    Threads = {t1, t2}
    MaxDetections = 2
    Subscribers = {home, cottage}
    Capacity = 1
    MaxEvents = 3
    MaxFaults = 2
    Ids = {agat, basia}
    Values = {0, 1}
    Tokens = {old, new}
    MaxHappenings = 3
SPECIFICATION Spec
INVARIANTS CapturesPruned DetectionsCounted EventsArrive EntitiesFollow
PROPERTIES ListensAgain CatchesUp
CHECK_DEADLOCK FALSE
