SPECIFICATION Spec
CONSTANTS
    Runs = {r1, r2}
    Streaming = {}
    Resumers = {}
    NoRun = NoRun
    MaxDeltas = 1
    TemporaryItems = {}
    AutoStarted = {}
    MayOverlap = FALSE
    MayDisconnect = TRUE
    FailingWrites = {}
    r1 = r1
    r2 = r2
PROPERTY ClosedRefuses
