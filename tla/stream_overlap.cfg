SPECIFICATION Spec
CONSTANTS
    Runs = {r1, r2}
    Streaming = {r1}
    Resumers = {}
    NoRun = NoRun
    MaxDeltas = 0
    TemporaryItems = {}
    AutoStarted = {r1}
    MayOverlap = TRUE
    MayDisconnect = TRUE
    FailingWrites = {}
    r1 = r1
    r2 = r2
INVARIANT RegistryLive
INVARIANT OneLiveLoop
INVARIANT SentinelPending
INVARIANT NoOrphanListener
