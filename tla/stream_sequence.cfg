SPECIFICATION Spec
CONSTANTS
    Runs = {r1, r2}
    Streaming = {r1}
    Resumers = {v1}
    NoRun = NoRun
    MaxDeltas = 2
    TemporaryItems = {}
    AutoStarted = {}
    MayOverlap = FALSE
    MayDisconnect = FALSE
    FailingWrites = {}
    r1 = r1
    r2 = r2
    v1 = v1
INVARIANT CaughtUpView
INVARIANT FinalStateStored
PROPERTY ClosedRefuses
