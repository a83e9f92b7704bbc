SPECIFICATION Spec
CONSTANTS
    Runs = {r1, r2}
    Streaming = {}
    Resumers = {}
    NoRun = NoRun
    MaxDeltas = 0
    TemporaryItems = {}
    AutoStarted = {}
    MayOverlap = TRUE
    MayDisconnect = FALSE
    FailingWrites = {}
    r1 = r1
    r2 = r2
PROPERTY AnsweredToTheEnd
