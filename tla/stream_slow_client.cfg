SPECIFICATION Spec
CONSTANTS
    Runs = {r1}
    Streaming = {r1}
    Resumers = {}
    NoRun = NoRun
    MaxDeltas = 1
    TemporaryItems = {}
    AutoStarted = {}
    MayOverlap = FALSE
    MayDisconnect = TRUE
    FailingWrites = {}
    r1 = r1
INVARIANT FinalStateStored
