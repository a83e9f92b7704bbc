\* Four turns one after the other, two branches, retries that delete no fork point.
SPECIFICATION Spec
CONSTANTS
    Turns = {t1, t2, t3, t4}
    MaxItems = 6
    MaxBranches = 2
    MayOverlap = FALSE
    MayRetry = TRUE
    MayCutForks = FALSE
    SaveOutcomes = {TRUE}
SYMMETRY TurnSymmetry
CHECK_DEADLOCK FALSE
INVARIANTS
    TypeOK
    ViewIsLineage
    WaitStateVisible
    LegacyInStep
    ResumesOwnBranch
PROPERTY EditResumes
