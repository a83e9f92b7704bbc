SPECIFICATION FairSpec
CONSTANTS
    Runs = {r1}
    Streaming = {r1}
    Resumers = {v1}
    NoRun = NoRun
    MaxDeltas = 1
    TemporaryItems = {}
    AutoStarted = {}
    MayOverlap = FALSE
    MayDisconnect = TRUE
    FailingWrites = {"added", "updated", "replaced", "thread"}
    r1 = r1
    v1 = v1
INVARIANT TypeOK
PROPERTY StreamEnds
PROPERTY PersistedWithoutListeners
