\* One page, two of its asynchronous functions at a time.
\* Stops when the users are done.
SPECIFICATION Spec
CHECK_DEADLOCK FALSE
CONSTANTS
    Tasks = {t1, t2}
    FirstTask = t1
    MaxVersions = 3
    MaxGraph = 10
    Invalid = {8}
    Lossy = {3, 6}
    Situations <- SomeSituations
    HistoryLimit = 2
    DragLimit = 3
INVARIANTS
    TypeOK
    PendingDiffers
    SingleCreation
    DeploymentRuns
PROPERTIES
    PublishedKept
    TimelineSpec
