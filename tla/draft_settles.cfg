\* The page settles: one user action of each kind, two functions at a time.
\* Stops when the users are done.
SPECIFICATION Spec
CHECK_DEADLOCK FALSE
CONSTANTS
    Tasks = {t1, t2}
    FirstTask = t1
    MaxVersions = 3
    MaxGraph = 10
    Invalid = {8}
    Lossy = {3, 6}
    Situations <- FewSituations
    HistoryLimit = 2
    DragLimit = 3
PROPERTIES
    PendingSettles
    LoadingEnds
    DeploymentEnds
    ListCatchesUp
